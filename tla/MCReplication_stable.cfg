\* One leader for the whole run: client writes, acks, one failed WAL write, resends by the leader-mode scheduler; weak fairness on every actor step for the liveness property. Followers must eventually apply what the leader answered.
CONSTANTS
    n1 = n1  n2 = n2  n3 = n3  n4 = n4  n5 = n5  s1 = s1  s2 = s2
    Node <- MCNode3
    Session <- MCSession2
    None = None
    NoEntry = NoEntry
    InitLeader = n1
    MaxTerm = 0
    MaxLog = 2
    MaxChan = 2
    MaxSubmits = 2
    MaxWalFaults = 1
    MaxLost = 0
SPECIFICATION FairSpec
INVARIANT AppliedOnlyCommitted
INVARIANT MatchIndexSound
INVARIANT CommittedOnMajority
PROPERTY WriteEventuallyAnswered
PROPERTY CommittedEventuallyApplied
CHECK_DEADLOCK FALSE
