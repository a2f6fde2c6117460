SPECIFICATION PartsSpec
CONSTANTS
  Tasks = {t1, t2}
  MaxConcurrent = 2
  MaxCrashes = 2
  DiesWhileWriting = TRUE
  TearsLines = FALSE
INVARIANTS ServesWhatIsThere OccurrencesRunOnce
PROPERTIES KeepsWorking
CHECK_DEADLOCK FALSE
