SPECIFICATION Spec
CONSTANTS
    Settings = {"model", "title"}
    MaxLog = 6
    MaxCalls = 2
INVARIANTS
    ContextIsValid
    RewindRestores
    ForkKeepsState
    CompactionCoversAll
    SummaryAgrees
CHECK_DEADLOCK FALSE
