SPECIFICATION Spec
CONSTANTS
  Procs = {p1}
  Commands = {"run_backtest", "accept", "refine"}
  Categories = {"resource_pressure", "data_logic", "external_failure"}
  MaxAttempts = 1
  MaxFaults = 3
INVARIANTS BacktestedBeforeReview
CHECK_DEADLOCK FALSE
