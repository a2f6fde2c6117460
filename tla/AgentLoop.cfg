SPECIFICATION Spec
CONSTANTS
    MaxTurns = 2
    MaxCalls = 2
    MaxSent = 2
    MaxOps = 1
    MaxRestarts = 1
    Usage = {FALSE}
INVARIANTS
    RequestIsValid
    ResultsInCallOrder
    DeliveredOnce
PROPERTIES
    AbortStartsNothing
CHECK_DEADLOCK FALSE
