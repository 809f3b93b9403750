SPECIFICATION FairSpec
CONSTANTS
    Devices <- MCDevices
    FreeNames = {1, 2}
    MaxLost = 2
    MaxCycles = 1
INVARIANTS TypeOK UniqueAtRest HighestKeepsName
PROPERTIES FoundIsFree ComesToRest
CHECK_DEADLOCK FALSE
