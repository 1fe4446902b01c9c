SPECIFICATION Spec
CONSTANTS
  Acquirers = {main, spawner}
  Releasers = {main, spawner}
  Prewarm = 3
  MaxFibers = 4
INVARIANTS HandsOutFreeFiber
