SPECIFICATION PartsSpec
CONSTANTS
  Writers = {1, 2}
  Delays <- TwoDelays
  Window = 6
  MaxTime = 9
  WritersOverlap = FALSE
INVARIANTS SettingsAgree RestartsAreLimited DoesAsAsked ShowsWhatIs
PROPERTIES EditsAreKept
CHECK_DEADLOCK FALSE
