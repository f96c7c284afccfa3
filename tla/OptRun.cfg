SPECIFICATION FairSpec
CONSTANTS
  MaxGenerations = 3
  Interval = 2
  InitialBatch = 1
  MaxBatch = 2
  MemoryBatch = 2
  NBranches = 2
  Configs = {"a", "b"}
  Hashed = TRUE
  MaxScore = 1
  MaxRuns = 3
  MaxFaults = 2
INVARIANTS
  RunConsistent
PROPERTIES
  NeverGoesBack
  Completes
CHECK_DEADLOCK FALSE
