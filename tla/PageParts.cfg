SPECIFICATION PartsSpec
CONSTANTS
  Items = {"m1", "m2", "m3"}
  MaxPrompts = 2
  MaxAborts = 2
  MaxFailures = 1
  Races = {}
  Saved = {"s1"}
  Models = {"a", "b"}
  NoModel = "host"
  MaxConnects = 2
  MaxWarm = 1
  MaxPicks = 2
  MaxSends = 1
  MaxOps = 3
  TaskRaces = {"slow stop"}
INVARIANTS TaskIsTrue ScreenIsTrue QueueIsServed
PROPERTIES WorkIsKept NothingLost
CHECK_DEADLOCK FALSE
