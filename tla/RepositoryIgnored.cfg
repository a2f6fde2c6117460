CONSTANTS
  MaxVersion = 2
  MaxEdits = 2
  MaxOps = 4
  Races = {"rules"}
SPECIFICATION Spec
CHECK_DEADLOCK FALSE
INVARIANT IgnoredStay
