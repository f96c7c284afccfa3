SPECIFICATION OperatorSpec
CONSTANTS
  Procs = {p1}
  Commands = {"run_backtest", "resume_pipeline", "accept", "reject", "refine"}
  Categories = {"resource_pressure", "data_logic", "external_failure"}
  MaxAttempts = 2
  MaxFaults = 5
INVARIANTS
  DecisionsDurable
  ReviewWithoutRefine
PROPERTIES
  ImplementsApprovedPipeline
  FatalErrorSticks
  CommandsSettle
CHECK_DEADLOCK FALSE
