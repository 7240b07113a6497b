\* A holds every key and B none, as when an empty leader joins: B, the
\* coordinator, blocks writes in start_rebalance but has nothing to migrate,
\* so no TryUnblockWriteReqs ever reaches it.  A client writes to B.
CONSTANTS
    A = A  B = B  k1 = k1  k2 = k2  k3 = k3  w1 = w1  w2 = w2
    Null = Null  None = None
    Grp <- MCGrp
    Key <- MCKey
    Write <- MCWrite
    Held <- MCHeldCoordEmpty
    NewRing <- MCNewRing
    Initiator = A
    Coordinator = B
    WriteKey <- MCWriteKeyMoving
    BatchCap = 0
    Entry <- MCEntryB
SPECIFICATION FairSpec

PROPERTY WriteEventuallyAnswered
CHECK_DEADLOCK FALSE
