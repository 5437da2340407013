SPECIFICATION Spec
CONSTANTS
  None = None
  Projects = {1, 2}
  Known = {1, 2}
  Sessions = {1, 2, 3}
  Origin <- MCOrigin
  Kept = {1, 3}
  PageSize = 2
  MaxCommands = 6
  MaxFaults = 0
INVARIANT OpenIsShown
CHECK_DEADLOCK FALSE
