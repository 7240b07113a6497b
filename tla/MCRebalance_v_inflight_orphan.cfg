\* A client writes k3, which moves from B to A, at B before B has blocked
\* writes; the write commits after start_rebalance read B's keys.
CONSTANTS
    A = A  B = B  k1 = k1  k2 = k2  k3 = k3  w1 = w1  w2 = w2
    Null = Null  None = None
    Grp <- MCGrp
    Key <- MCKey
    Write <- MCWrite
    Held <- MCHeld
    NewRing <- MCNewRing
    Initiator = A
    Coordinator = B
    WriteKey <- MCWriteKeyK3
    BatchCap = 0
    Entry <- MCEntryB
SPECIFICATION FairSpec

INVARIANT KeyAtOwnerOnly
CHECK_DEADLOCK FALSE
