SPECIFICATION Spec
CONSTANTS
    Producers = {p1, p2}
    Controllers = {c1}
    Tasks = {t1}
    StopTasks = {t1}
    HasDoorbell = TRUE
    HandlerMayStop = TRUE
    SerialStop = TRUE
    Budget = 1
    MaxPushes = 2
    MaxStops = 2
INVARIANTS
    HandlePublished
PROPERTIES
    RingServed
    StopCompletes
CHECK_DEADLOCK FALSE
