\* Two groups exchange keys both ways (k1 A->B, k2 B->A) while two clients
\* write k3, which stays at A; batches of one key.  The system stops once the
\* rebalance is done, so deadlock is not checked.
CONSTANTS
    A = A  B = B  k1 = k1  k2 = k2  k3 = k3  w1 = w1  w2 = w2
    Null = Null  None = None
    Grp <- MCGrp
    Key <- MCKey
    Write <- MCWrite
    Held <- MCHeld
    NewRing <- MCNewRing
    Initiator = A
    Coordinator = B
    WriteKey <- MCWriteKeyStay
    BatchCap = 0
    Entry <- MCEntryA
SPECIFICATION FairSpec

INVARIANTS TypeOK KeyAtOwnerOnly AckedWritesDurable
PROPERTIES GateRefinement WriteEventuallyAnswered
CHECK_DEADLOCK FALSE
