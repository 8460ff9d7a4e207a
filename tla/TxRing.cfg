SPECIFICATION FairSpec
CONSTANTS
    TX_RING_SIZE = 4
    MAX_TX_SEGS = 2
    MaxCalls = 5
INVARIANTS
    TypeOK
    WireInOrder
    ZeroMeansSent
PROPERTIES
    EveryCallReturns
    QueuedIsSent
CHECK_DEADLOCK FALSE
