\* n1 starts as leader of term 0 and may be demoted while its leader-mode scheduler keeps running; one election up to term 1.
CONSTANTS
    n1 = n1  n2 = n2  n3 = n3  n4 = n4  n5 = n5  s1 = s1  s2 = s2
    Node <- MCNode3
    Session <- MCSession1
    None = None
    NoEntry = NoEntry
    InitLeader = n1
    MaxTerm = 1
    MaxLog = 2
    MaxChan = 1
    MaxSubmits = 3
    MaxWalFaults = 0
    MaxLost = 0
SPECIFICATION Spec
INVARIANT LeaderHoldsCommitted
CHECK_DEADLOCK FALSE
