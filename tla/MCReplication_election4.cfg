\* Four interchangeable peers start without a leader; a candidate needs two votes (ElectionRequired(3) = 2); one client write may be submitted and one message may be lost.
CONSTANTS
    n1 = n1  n2 = n2  n3 = n3  n4 = n4  n5 = n5  s1 = s1  s2 = s2
    Node <- MCNode4
    Session <- MCSession1
    None = None
    NoEntry = NoEntry
    InitLeader = None
    MaxTerm = 1
    MaxLog = 1
    MaxChan = 2
    MaxSubmits = 1
    MaxWalFaults = 0
    MaxLost = 1
SPECIFICATION Spec
INVARIANT TypeOK
INVARIANT ElectionSafety
INVARIANT ElectedByMajority
CHECK_DEADLOCK FALSE
SYMMETRY PeerSymmetry4
