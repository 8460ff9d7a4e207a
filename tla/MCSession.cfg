SPECIFICATION Spec
CONSTANTS
    MAX_USERS = 2
    Pcbs = {c1, c2, c3}
    NoPcb = NoPcb
    Users = {u1}
    NoUser = NoUser
    SASL_MAX_FAILURES = 2
SYMMETRY Symmetry
INVARIANTS
    TlsContextValid
    StateGates
    CredentialsOwn
    OneBindingPerUser
    OpenIsHeld
    SlotPcbAlive
    OrphanContextReachable
CHECK_DEADLOCK FALSE
