SPECIFICATION BothSpec
CONSTANTS
  Producers = {p1, p2}
  Consumers = {c1}
  Items = {a, b, c}
  NumNodes = 4
  RingThreads = {t1, t2, t3}
  Stalled = {t3}
  RingValues = {a}
  NoVal = NoVal
  Capacity = 2
  MaxPos = 3
INVARIANTS NoUseAfterFree FifoOrder ListInv
PROPERTY LockFree
