SPECIFICATION Spec
CONSTANTS
    MAX_OFFLINE_MSGS = 6
    Users = {u1, u2}
    Restless = {}
    Msgs = {m1, m2, m3}
    Other = Other
    None = None
    SndBuf = 1
    MaxCuts = 1
SYMMETRY Symmetry
INVARIANT
    GivenIsSent
