\* hwm is raised by one per commit, not to the committed index.
CONSTANTS
    n1 = n1  n2 = n2  n3 = n3  n4 = n4  n5 = n5  s1 = s1  s2 = s2
    Node <- MCNode3
    Session <- MCSession2
    None = None
    NoEntry = NoEntry
    InitLeader = n1
    MaxTerm = 0
    MaxLog = 2
    MaxChan = 2
    MaxSubmits = 2
    MaxWalFaults = 1
    MaxLost = 0
SPECIFICATION Spec
SYMMETRY FollowerSymmetry
PROPERTY CallbackAfterHwm
CHECK_DEADLOCK FALSE
