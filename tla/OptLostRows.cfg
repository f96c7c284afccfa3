SPECIFICATION Spec
CONSTANTS
  MaxGenerations = 3
  Interval = 2
  InitialBatch = 1
  MaxBatch = 2
  MemoryBatch = 2
  NBranches = 1
  Configs = {"a"}
  Hashed = TRUE
  MaxScore = 2
  MaxRuns = 3
  MaxFaults = 2
INVARIANTS
  ResultsComplete
CHECK_DEADLOCK FALSE
