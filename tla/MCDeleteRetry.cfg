SPECIFICATION Spec
CONSTANTS
  None = None
  Procs = {p1}
  MaxFacts = 3
  MaxCrashes = 1
  MaxLosses = 1
  MaxStarts = 3
INVARIANT AnsweredDeleteIsFinal
CHECK_DEADLOCK FALSE
