SPECIFICATION Spec
CONSTANTS
  Procs = {p1, p2}
  Commands = {"run_backtest", "resume_pipeline", "accept", "refine"}
  Categories = {"data_logic"}
  MaxAttempts = 1
  MaxFaults = 1
INVARIANTS
  GateNotBypassed
SYMMETRY Symmetry
VIEW WithoutHistory
CHECK_DEADLOCK FALSE
