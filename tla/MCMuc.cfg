SPECIFICATION Spec
CONSTANTS
    MAX_ROOMS = 2
    MAX_USERS_PER_ROOM = 2
    MAX_BANNED_PER_ROOM = 1
    Names = {n1, n2}
    NoName = NoName
    Nicks = {k1, k2}
    NoNick = NoNick
    Users = {u1, u2}
    NoUser = NoUser
    Confs = {0, 1}
    DefaultConf = 0
SYMMETRY Symmetry
INVARIANTS
    TypeOK
    SeatsUnique
    RoomNamesUnique
    BannedStayOut
    RoomsSaved
PROPERTY
    OwnerKept
