SPECIFICATION Spec
CONSTANTS
    SlotCount = 1
    Patient = FALSE
    WritesNow = TRUE
    MaxConnects = 2
    MaxWrites = 0
    MaxCloses = 0
    MaxSettings = 0
INVARIANTS
    HostOfAttempt
CHECK_DEADLOCK FALSE
