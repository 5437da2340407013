SPECIFICATION Spec
CONSTANTS
  None = None
  Procs = {p1, p2}
  MaxFacts = 3
  MaxCrashes = 0
  MaxLosses = 0
  MaxStarts = 3
INVARIANT Recoverable
CHECK_DEADLOCK FALSE
