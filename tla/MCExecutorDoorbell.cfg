SPECIFICATION Spec
CONSTANTS
    Producers = {p1, p2}
    Controllers = {}
    Tasks = {t1, t2}
    StopTasks = {t2}
    HasDoorbell = TRUE
    HandlerMayStop = TRUE
    SerialStop = TRUE
    Budget = 1
    MaxPushes = 3
    MaxStops = 2
SYMMETRY Symmetry
INVARIANTS
    TypeOK
    NoLostWakeup
    DoorbellListening
    EventfdBounded
    GracefulStopDrains
PROPERTIES
    NoHandlerAfterStop
    RunAgainAfterOthers
CHECK_DEADLOCK FALSE
