SPECIFICATION MCSpec
CONSTANTS
  None = None
  MaxScopes = 3
  MaxEffects = 2
  MaxInstalls = 2
  MaxOwn = 2
  MaxMarkdown = 2
  Callers = {c1, c2, c3}
  Scopes = {0, 1, 2}
  Ids = {1, 2}
  Orders = {0, 1}
  MaxRevision = 5
  Subscribers = {s1, s2}
  Guards = {g1}
  MaxPublished = 4
  Mutators = {m1}
  Flushers = {f1}
  Tasks = {k1}
  Readers = {r1}
  Shutters = {t1, t2}
  Capabilities = {a}
  Providers = {p, q}
  MaxGeneration = 3
  MaxHandles = 4
  MaxChanges = 2
  MaxRuns = 2
INVARIANTS RuntimeOwned BarrierHolds SavedStays
PROPERTIES UndoneInOrder WaitersServed
CHECK_DEADLOCK FALSE
