SPECIFICATION FairSpec
CONSTANTS
  NoVal = NoVal
  NoThread = NoThread
  NumCores = 1
  QueueSize = 1
  OverflowFactor = 1
  HotBudget = 1
  NumFibers = 6
  FibersSpawn = TRUE
  MayDestroy = FALSE
PROPERTIES BlockingReturns
