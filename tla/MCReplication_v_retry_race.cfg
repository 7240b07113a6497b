\* A write retried before its first submission commits is committed twice.
CONSTANTS
    n1 = n1  n2 = n2  n3 = n3  n4 = n4  n5 = n5  s1 = s1  s2 = s2
    Node <- MCNode3
    Session <- MCSession1
    None = None
    NoEntry = NoEntry
    InitLeader = n1
    MaxTerm = 0
    MaxLog = 2
    MaxChan = 2
    MaxSubmits = 2
    MaxWalFaults = 0
    MaxLost = 0
SPECIFICATION Spec
SYMMETRY FollowerSymmetry
INVARIANT SessionCommittedOnce
CHECK_DEADLOCK FALSE
