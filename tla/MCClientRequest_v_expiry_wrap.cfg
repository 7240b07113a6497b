\* SET ... PX with a negative expiry: the stored expires_at.
CONSTANTS
    Word <- MCWord
    NumVal <- MCNumVal
    Now = 10
    DateBound = 100
    U64Mod = 2048
    MaxArgs = 4
SPECIFICATION Spec


CHECK_DEADLOCK FALSE
INVARIANT ExpiryIsRequestedInstant
