\* SET ... PX with an expiry beyond the range of a date.
CONSTANTS
    Word <- MCWord
    NumVal <- MCNumVal
    Now = 10
    DateBound = 100
    U64Mod = 2048
    MaxArgs = 4
SPECIFICATION Spec


CHECK_DEADLOCK FALSE
INVARIANT ParseNeverPanics
