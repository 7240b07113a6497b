\* A candidate counts a vote granted for its previous term, and two peers lead term 2.
CONSTANTS
    n1 = n1  n2 = n2  n3 = n3  n4 = n4  n5 = n5  s1 = s1  s2 = s2
    Node <- MCNode3
    Session <- MCSession1
    None = None
    NoEntry = NoEntry
    InitLeader = None
    MaxTerm = 2
    MaxLog = 1
    MaxChan = 2
    MaxSubmits = 0
    MaxWalFaults = 0
    MaxLost = 0
SPECIFICATION Spec
SYMMETRY PeerSymmetry3
INVARIANT ElectionSafety
CHECK_DEADLOCK FALSE
