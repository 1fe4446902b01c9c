SPECIFICATION Spec
CONSTANTS
  NoVal = NoVal
  NoThread = NoThread
  NumCores = 2
  QueueSize = 1
  OverflowFactor = 1
  HotBudget = 2
  NumFibers = 3
  FibersSpawn = TRUE
  MayDestroy = TRUE
INVARIANTS OnePlace YieldedStaysHome SafepointFindsSelf NoFiberLeaked SchedInv
PROPERTIES ReleasesEnded
