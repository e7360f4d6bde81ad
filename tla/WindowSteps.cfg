SPECIFICATION FairSpec
CONSTANTS
  Windows <- MCWindows
  AllRanks <- MCRanks
  NoCritic = NoCritic
  NoValues = NoValues
INVARIANTS
  EveryRowTrainedOnce
  ValuesInPlace
PROPERTIES
  StepCompletes
CHECK_DEADLOCK FALSE
