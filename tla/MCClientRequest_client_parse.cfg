\* Every command with up to four arguments: parsing and the write conversion.
CONSTANTS
    Word <- MCWord
    NumVal <- MCNumVal
    Now = 10
    DateBound = 100
    U64Mod = 2048
    MaxArgs = 4
SPECIFICATION Spec
INVARIANT TypeOK
INVARIANT WritesReachConsensus
CHECK_DEADLOCK FALSE
