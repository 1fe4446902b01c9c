SPECIFICATION Spec
CONSTANTS
  NoVal = NoVal
  NoThread = NoThread
  NumCores = 1
  QueueSize = 1
  OverflowFactor = 1
  HotBudget = 2
  NumFibers = 2
  FibersSpawn = FALSE
  MayDestroy = TRUE
INVARIANTS Delivered
