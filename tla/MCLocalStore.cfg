SPECIFICATION MCSpec
CONSTANTS
  None = None
  Procs = {p1}
  MaxFacts = 3
  MaxCrashes = 1
  MaxLosses = 1
  MaxStarts = 3
  Domain = "chat"
  TreeFacts <- MCFacts
  MaxEntries = 5
  MaxFailures = 1
  SessionIds = {1, 2, 3, 4}
  Times = {1, 2}
  Projects = {1, 2}
  Seeds <- MCSeeds
  Limits = {1}
  MaxChanges = 2
INVARIANTS
  RowInv
  ListsInv
  ConfirmedDeleteIsFinal
  TreeInv
PROPERTIES
  FlushSettles
  AppendsExtend
  ActsAsMemory
CHECK_DEADLOCK FALSE
