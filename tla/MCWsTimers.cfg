SPECIFICATION Spec
CONSTANTS
    SlotCount = 1
    Patient = FALSE
    WritesNow = TRUE
    MaxConnects = 1
    MaxWrites = 1
    MaxCloses = 1
    MaxSettings = 2
INVARIANTS
    PingKeepsRunning
PROPERTIES
    SilenceDetected
CHECK_DEADLOCK FALSE
