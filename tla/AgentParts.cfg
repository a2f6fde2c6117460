SPECIFICATION PartsSpec
CONSTANTS
  edit = edit
  shell = shell
  CallIds = {edit, shell}
  CallFor <- EditAndShell
  Rules <- ShellAllowed
  MaxReloads = 1
  MaxModes = 1
  N = 2
  Slots = 2
  MaxTools = 1
  Races = {}
  Runtimes = {r1}
  Sessions = {s1}
  NoRuntime = NoRuntime
INVARIANTS QuestionsHaveCallers ClientsCanFollow RunsOnGround DelegationIsTrue RepliesAreWhole
PROPERTIES NothingHangs
CHECK_DEADLOCK FALSE
