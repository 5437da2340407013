SPECIFICATION MCSpec
CONSTANTS
  Desired = {a, b}
  None = None
  MaxRev = 3
  MaxEffects = 2
  Providers = {p, q}
  Consumers = {c1, c2}
  MaxInstances = 3
INVARIANTS MountsOwned QuietDisposal
PROPERTIES LifoUndo OncePerRevision AnswersHold ClosesClean CallsReturn
CHECK_DEADLOCK FALSE
