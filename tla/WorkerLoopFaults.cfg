SPECIFICATION FairSpec
CONSTANTS
  Cold = 1
  Batch = 2
  Fetch = 1
  MaxRetries = 1
  ProcessRetries = 0
  Windows = 3
  Faults = 3
INVARIANTS
  TrainedAddsUp
  ClearedOnlyWhenUsed
  PulseStream
PROPERTIES
  EveryRowTrained
