\* A write whose index no ack names is never answered.
CONSTANTS
    n1 = n1  n2 = n2  n3 = n3  n4 = n4  n5 = n5  s1 = s1  s2 = s2
    Node <- MCNode3
    Session <- MCSession2
    None = None
    NoEntry = NoEntry
    InitLeader = n1
    MaxTerm = 0
    MaxLog = 2
    MaxChan = 2
    MaxSubmits = 2
    MaxWalFaults = 2
    MaxLost = 0
SPECIFICATION FairSpec
PROPERTY WriteEventuallyAnswered
CHECK_DEADLOCK FALSE
