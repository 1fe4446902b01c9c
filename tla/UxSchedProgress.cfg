SPECIFICATION FairSpec
CONSTANTS
  NoVal = NoVal
  NoThread = NoThread
  NumCores = 1
  QueueSize = 1
  OverflowFactor = 1
  HotBudget = 1
  NumFibers = 5
  FibersSpawn = FALSE
  MayDestroy = TRUE
INVARIANTS OnePlace
PROPERTIES BlockingReturns LocalServed Drains
