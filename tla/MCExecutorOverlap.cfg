SPECIFICATION Spec
CONSTANTS
    Producers = {p1}
    Controllers = {}
    Tasks = {t1}
    StopTasks = {t1}
    HasDoorbell = TRUE
    HandlerMayStop = TRUE
    SerialStop = FALSE
    Budget = 1
    MaxPushes = 1
    MaxStops = 2
INVARIANTS
    WorkReleasedOnce
CHECK_DEADLOCK FALSE
