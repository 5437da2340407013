SPECIFICATION Spec
CONSTANTS
  None = None
  MaxFailures = 1
  Texts = {"a"}
  Models = {m}
  Outcomes = {"completed", "cancelled"}
  Workers = {w1, w2}
  MaxSubmits = 2
  MaxDeletes = 1
INVARIANT NoTurnIdReused
CHECK_DEADLOCK FALSE
