SPECIFICATION Spec
CONSTANTS
  Colocated = TRUE
  Scorer = "critic"
  Window = 2
  Batch = 1
  Chunk = 1
  ScoreBatch = 1
  ColdWindows = 0
  Running = 0
  KeepWeights = 3
  Prompts = 3
  Drops = 0
CHECK_DEADLOCK FALSE
INVARIANTS LabelIsLowerBound
