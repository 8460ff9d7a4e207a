SPECIFICATION Spec
CONSTANTS
    MAX_ROSTER_ENTRIES = 2
    MAX_PENDING_SUBS = 1
    u1 = u1
    u2 = u2
    Users = {u1, u2}
    Targets <- MCTargets
    Nobody = Nobody
    Restless = {u2}
INVARIANTS
    TypeOK
    EntriesUnique
    SubscriptionsAgree
    RequestsKept
    NoneWaitsForPresent
    RosterSaved
