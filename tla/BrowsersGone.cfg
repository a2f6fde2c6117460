SPECIFICATION Spec
CONSTANTS
  Agents = {1, 2}
  Persistent = TRUE
  MaxObjects = 3
  MaxProcs = 3
  MaxCalls = 2
  Races = {}
INVARIANT FreshBrowserStarts
CHECK_DEADLOCK FALSE
