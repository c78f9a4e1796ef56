SPECIFICATION Spec
CONSTANTS
    SlotCount = 2
    Patient = FALSE
    WritesNow = TRUE
    MaxConnects = 2
    MaxWrites = 2
    MaxCloses = 1
    MaxSettings = 0
INVARIANTS
    TypeOK
    WriteAccounted
    WritesInOrder
    OneWriteInFlight
    IdleHoldsNoWrites
CHECK_DEADLOCK FALSE
