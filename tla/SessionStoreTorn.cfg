SPECIFICATION Spec
CONSTANTS
    MaxChunk = 1
    DeletesRace = FALSE
    TornWrites = TRUE
    SlowSummaries = FALSE
    MaxEvents = 3
    MaxObjects = 3
INVARIANT ToldIsStored
CHECK_DEADLOCK FALSE
