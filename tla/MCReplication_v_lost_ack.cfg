\* One leader for the whole run, two sessions, one failed WAL write and one lost message; weak fairness on every actor step.
CONSTANTS
    n1 = n1  n2 = n2  n3 = n3  n4 = n4  n5 = n5  s1 = s1  s2 = s2
    Node <- MCNode3
    Session <- MCSession2
    None = None
    NoEntry = NoEntry
    InitLeader = n1
    MaxTerm = 0
    MaxLog = 2
    MaxChan = 2
    MaxSubmits = 2
    MaxWalFaults = 1
    MaxLost = 1
SPECIFICATION FairSpec
PROPERTY WriteEventuallyAnswered
CHECK_DEADLOCK FALSE
