SPECIFICATION Spec
CONSTANTS
    MaxRequests = 2
    MaxCancels = 1
    MaxSockets = 3
    MaxFds = 1
    MaxWaits = 2
    MaxQueue = 2
    Unlimited = {2}
INVARIANTS
    TypeOK
    TableMatchesCurl
    SocketsMatchCurl
    InterestWatched
    TimerKept
PROPERTIES
    AnswersRequests
CHECK_DEADLOCK FALSE
