\* A sends two keys to B in two batches of one key (BatchCap 0); no client
\* writes.  The first batch's TryUnblockWriteReqs can reach A before the
\* second batch is scheduled.
CONSTANTS
    A = A  B = B  k1 = k1  k2 = k2  k3 = k3  w1 = w1  w2 = w2
    Null = Null  None = None
    Grp <- MCGrp
    Key <- MCKey
    Write <- MCWrite
    Held <- MCHeld
    NewRing <- MCNewRingTwo
    Initiator = A
    Coordinator = B
    WriteKey <- MCWriteKeyNone
    BatchCap = 0
    Entry <- MCEntryNone
SPECIFICATION FairSpec

INVARIANT KeyAtOwnerOnly
CHECK_DEADLOCK FALSE
