SPECIFICATION Spec
CONSTANTS
    MaxRequests = 1
    MaxCancels = 0
    MaxSockets = 1
    MaxFds = 1
    MaxWaits = 2
    MaxQueue = 2
    Unlimited = {}
INVARIANT OneWaitPerDirection
CHECK_DEADLOCK FALSE
