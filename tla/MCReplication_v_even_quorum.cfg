\* Four peers: a write commits on the ack of a single replica (RequiredVotes(3) = 1).
CONSTANTS
    n1 = n1  n2 = n2  n3 = n3  n4 = n4  n5 = n5  s1 = s1  s2 = s2
    Node <- MCNode4
    Session <- MCSession1
    None = None
    NoEntry = NoEntry
    InitLeader = n1
    MaxTerm = 0
    MaxLog = 1
    MaxChan = 1
    MaxSubmits = 1
    MaxWalFaults = 0
    MaxLost = 0
SPECIFICATION Spec
INVARIANT CommittedOnMajority
CHECK_DEADLOCK FALSE
