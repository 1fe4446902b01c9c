SPECIFICATION BenchmarkSpec
CONSTANTS
  Workers = {w1, w2, w3}
  NumTasks = 4
INVARIANTS NoLostWakeup AllExecuted NothingLeft BenchInv
PROPERTIES Terminates
