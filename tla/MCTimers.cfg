SPECIFICATION FairSpec
CONSTANTS
    Wrap = 43
    U32 = 256
    TCP_TMR_INTERVAL = 5
    Cyclic = {"arp", "ip_reass"}
    IntervalOf <- MCIntervalOf
PROPERTY
    TcpTimerRuns
