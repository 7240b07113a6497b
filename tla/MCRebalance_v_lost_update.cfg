\* Keys move both ways; a client writes k2, which moves from B to A, at A.
\* A reopens its gate once its own batch is acked, before B's batch of k2
\* arrives.
CONSTANTS
    A = A  B = B  k1 = k1  k2 = k2  k3 = k3  w1 = w1  w2 = w2
    Null = Null  None = None
    Grp <- MCGrp
    Key <- MCKey
    Write <- MCWrite
    Held <- MCHeld
    NewRing <- MCNewRing
    Initiator = A
    Coordinator = B
    WriteKey <- MCWriteKeyMoving
    BatchCap = 0
    Entry <- MCEntryA
SPECIFICATION FairSpec

INVARIANT AckedWritesDurable
CHECK_DEADLOCK FALSE
