SPECIFICATION AllSpec
CONSTANTS
  MaxLoads = 4
  NumQ = 2
  Capacity = 2
  NoVal = NoVal
  NoThread = NoThread
  Threads = {t1, t2}
  Items = {f1, f2, f3, f4, f5}
  Stalled = {0}
INVARIANTS PacketsExact NullOnlyFirst LoadEnqueues LoadInv BoundedTypeOK ItemOnce
PROPERTIES LoadReturns CloseReturns LoadFindsRoom
