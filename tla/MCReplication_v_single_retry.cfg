\* A one-peer group never records the session of a committed write.
CONSTANTS
    n1 = n1  n2 = n2  n3 = n3  n4 = n4  n5 = n5  s1 = s1  s2 = s2
    Node <- MCNode1
    Session <- MCSession1
    None = None
    NoEntry = NoEntry
    InitLeader = n1
    MaxTerm = 0
    MaxLog = 2
    MaxChan = 1
    MaxSubmits = 2
    MaxWalFaults = 0
    MaxLost = 0
SPECIFICATION Spec
INVARIANT SessionCommittedOnce
CHECK_DEADLOCK FALSE
