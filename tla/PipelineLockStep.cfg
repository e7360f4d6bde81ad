SPECIFICATION Spec
CONSTANTS
  Colocated = TRUE
  Scorer = "teacher"
  Window = 1
  Batch = 2
  Chunk = 2
  ScoreBatch = 1
  ColdWindows = 0
  Running = 0
  KeepWeights = 2
  Prompts = 6
  Drops = 1
CHECK_DEADLOCK FALSE
INVARIANTS LockStepOnPolicy PayloadOnDisk LabelIsLowerBound
