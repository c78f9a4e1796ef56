SPECIFICATION RcSpec
CONSTANTS
    SlotCount = 1
    Patient = TRUE
    WritesNow = FALSE
    MaxConnects = 4
    MaxWrites = 0
    MaxCloses = 1
    MaxSettings = 1
    InitialDelay = 1
    MaxDelay = 3
    Delays = {2}
    MaxOpens = 2
    MaxRetries = 1
INVARIANTS
    RcTypeOK
    LayersAgree
    OneAttemptUnderWay
    ChainBelongsToAttempt
    BackoffBounded
    OneReadInFlight
    HostOfAttempt
PROPERTIES
    ClosedForGood
    ClosedAttemptSilent
    KeepsTrying
CHECK_DEADLOCK FALSE
