SPECIFICATION Spec
CONSTANTS
    MaxRequests = 3
    MaxCancels = 2
    Unlimited = {2}
INVARIANTS
    TypeOK
    RequestAccounted
    OneOperation
    ResponseOfRequest
PROPERTIES
    AnswersRequests
CHECK_DEADLOCK FALSE
