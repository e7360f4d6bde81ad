SPECIFICATION Spec
CONSTANTS
  Colocated = FALSE
  Scorer = "none"
  Window = 0
  Batch = 2
  Chunk = 1
  ScoreBatch = 1
  ColdWindows = 0
  Running = 2
  KeepWeights = 3
  Prompts = 4
  Drops = 0
CHECK_DEADLOCK FALSE
INVARIANTS RestoredBeforeGate
