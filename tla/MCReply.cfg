SPECIFICATION MCSpec
CONSTANTS
  None = None
  Slots = {0, 1}
  ToolIds = {"x", "y"}
  Protocols = {"chat", "responses"}
  MaxFrames <- MCFrames
  Chunks <- MCChunks
  Items <- MCItems
  Deltas <- MCDeltas
  MaxDeltas = 4
  MaxEntries = 3
  DirectFollow = 2
  MinVisible = 1
  MaxVisible = 3
  TargetFrames = 2
  Blank = Blank
  Queries = {"a", "b"}
  Hits <- MCHits
  MaxSearches = 3
  MaxReads = 2
  MaxWrites = 1
  Loggers = {l1}
  QueueCapacity = 2
  BatchSize = 2
  MaxBytes = 2
  Backups = 2
  MaxDisplayLines = 4
  Earlier = 3
  MaxRecords = 9
  MaxProcesses = 2
INVARIANTS OutcomesTold TranscriptInv NothingLost ComposerInv
PROPERTIES EverythingShown
