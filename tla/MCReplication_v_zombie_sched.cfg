\* A leader demoted by a higher-term AppendEntriesRPC keeps its leader-mode scheduler.
CONSTANTS
    n1 = n1  n2 = n2  n3 = n3  n4 = n4  n5 = n5  s1 = s1  s2 = s2
    Node <- MCNode3
    Session <- MCSession1
    None = None
    NoEntry = NoEntry
    InitLeader = n1
    MaxTerm = 1
    MaxLog = 1
    MaxChan = 1
    MaxSubmits = 0
    MaxWalFaults = 0
    MaxLost = 0
SPECIFICATION Spec
INVARIANT SchedulerFollowsRole
CHECK_DEADLOCK FALSE
