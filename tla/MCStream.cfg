SPECIFICATION FairSpec
CONSTANTS
    Scripts <- MCScripts
    RX_BUFFER = 11
    SM_ACK_INTERVAL = 3
    W = 5
    MaxRecord = 4
    MaxReplies = 2
    MaxPushes = 1
CHECK_DEADLOCK FALSE
INVARIANTS TypeOK FramesMatch NothingWaits AckIsExact
PROPERTIES EveryElementHandled AskedInTime
