SPECIFICATION Spec
CONSTANTS
  Producers = {p1}
  Consumers = {c1, c2}
  Items = {a, b}
  NumNodes = 3
INVARIANTS NoUseAfterFree
