SPECIFICATION Spec
CONSTANTS
  Runtimes = {r1, r2}
  Sessions = {s1, s2}
  None = None
  MaxSeq = 2
  MaxCrashes = 1
  MaxLag = 2
  SharedSession = FALSE
  StartsOffline = FALSE
  DiesInResume = FALSE
  RetriesOnline = FALSE
INVARIANTS NoGap CaughtUp LostIsNoticed
SYMMETRY Symmetry
