SPECIFICATION MCSpec
CONSTANTS
  None = None
  MaxFailures = 2
  Texts = {"a", "b"}
  Models = {m}
  Outcomes = {"completed", "cancelled"}
  Workers = {w1, w2, w3}
  MaxSubmits = 2
  MaxDeletes = 2
  Selections = {m, n}
  MaxTurns = 3
  MaxStops = 2
INVARIANTS TurnsHold NoStrandedTurn SealedTurnsEnded
PROPERTIES DeletedStaysDeleted ShutdownDrains
CHECK_DEADLOCK FALSE
