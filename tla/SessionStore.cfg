SPECIFICATION Spec
CONSTANTS
    MaxChunk = 2
    DeletesRace = FALSE
    TornWrites = FALSE
    SlowSummaries = FALSE
    MaxEvents = 6
    MaxObjects = 5
INVARIANTS
    OneObject
    FileIsLog
    ClientInSync
    ToldIsStored
PROPERTIES
    KeepsHistory
CHECK_DEADLOCK FALSE
