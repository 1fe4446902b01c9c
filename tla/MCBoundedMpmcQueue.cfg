SPECIFICATION Spec
CONSTANTS
  Threads = {t1, t2, t3}
  Stalled = {}
  Values = {a, b}
  NoVal = NoVal
  NoThread = NoThread
  Capacity = 2
  MaxPos = 4
SYMMETRY Symmetry
INVARIANTS CellExclusive PositionsInLap RingInv CellsAttended
PROPERTY ImplementsContract
