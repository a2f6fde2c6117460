SPECIFICATION FairSpec
CONSTANTS
    MaxTurns = 1
    MaxCalls = 1
    MaxSent = 2
    MaxOps = 1
    MaxRestarts = 1
    Usage = {FALSE,TRUE}
INVARIANTS
    ContextKeepsUsers
PROPERTIES
    AbortSettles
    RunSettles
CHECK_DEADLOCK FALSE
