SPECIFICATION Spec
CONSTANTS
  Acquirers = {main}
  Releasers = {main, r1, r2}
  Prewarm = 2
  MaxFibers = 4
INVARIANTS HandsOutFreeFiber NoneLeaked ListEnds FreeListInv
PROPERTY ImplementsPool
