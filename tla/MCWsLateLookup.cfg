SPECIFICATION Spec
CONSTANTS
    SlotCount = 1
    Patient = FALSE
    WritesNow = TRUE
    MaxConnects = 2
    MaxWrites = 0
    MaxCloses = 1
    MaxSettings = 0
PROPERTIES
    ClosedAttemptSilent
CHECK_DEADLOCK FALSE
