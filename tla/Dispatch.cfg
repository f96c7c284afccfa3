SPECIFICATION PartsSpec
CONSTANTS
  Groups = {"g1", "g2", "g3", "g4"}
  SignalOf <- MCSignalOf
  Exits = {"x", "y"}
  Batches <- MCBatches
  Folds = {1, 2}
  Survivors <- MCSurvivors
  LimitsSet <- MCLimits
  MaxGeneration = 1
  MaxCalls = 2
  MaxFaults = 1
  Keys = {"a", "b", "c"}
  SizeOf <- MCSizeOf
  Budgets = {2, 4}
  DefaultBudget = 3
INVARIANTS
  OwnScores
  ScoredWhenItFits
  MemoryBounded
  FreshData
PROPERTIES
  DispatchEnds
CHECK_DEADLOCK FALSE
