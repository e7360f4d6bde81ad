SPECIFICATION FairSpec
CONSTANTS
  Units = 2
  Crashes = 2
  World = 3
  HandOffs = 2
  Gpu <- MCGpu
  Infer <- MCInfer
  Shared <- MCShared
  Place <- MCPlace
  Deps <- MCDeps
  Cpu <- MCCpu
INVARIANTS
  ConnectsToWholeCluster
  GenesisAfterHandoff
  MasterCardsExclusive
  RecipesRun
PROPERTIES
  ComesUpOrFails
