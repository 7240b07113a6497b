\* After a failover a follower applies, at a committed index, an entry other than the committed one.
CONSTANTS
    n1 = n1  n2 = n2  n3 = n3  n4 = n4  n5 = n5  s1 = s1  s2 = s2
    Node <- MCNode3
    Session <- MCSession2
    None = None
    NoEntry = NoEntry
    InitLeader = n1
    MaxTerm = 1
    MaxLog = 2
    MaxChan = 1
    MaxSubmits = 2
    MaxWalFaults = 0
    MaxLost = 0
SPECIFICATION Spec
INVARIANT AppliedIsCommitted
CHECK_DEADLOCK FALSE
