SPECIFICATION Spec
CONSTANTS
    MAX_ROOMS = 1
    MAX_USERS_PER_ROOM = 1
    MAX_BANNED_PER_ROOM = 1
    Names = {n1, n2}
    NoName = NoName
    Nicks = {k1, k2}
    NoNick = NoNick
    Users = {u1, u2}
    NoUser = NoUser
    Confs = {0}
    DefaultConf = 0
SYMMETRY Symmetry
INVARIANT
    ToldIsSeated
