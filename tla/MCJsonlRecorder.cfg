SPECIFICATION Spec
CONSTANTS
  MaxEntries = 3
  MaxBatch = 2
  MaxCrashes = 1
  MaxForeign = 1
INVARIANTS
  TypeOK
  SourceLoads
  OneChain
  PendingReported
PROPERTIES
  PendingKept
  ImplementsDurableLog
