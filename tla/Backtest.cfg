SPECIFICATION PartsSpec
CONSTANTS
  MaxVersions = 8
  MaxJobs = 3
  MaxTrades = 2
  MaxFailures = 2
  Bars <- MCBars
  Strategies <- MCStrategies
  Candidates <- MCCandidates
  Costs <- MCCosts
  EmbargoBars = 1
  Length = 4
  CheckpointInterval = 2
  MaxResumes = 1
INVARIANTS
  ResultsAreWhole
  BooksBalance
  EnginesAgree
PROPERTIES
  ReviewReached
  LevelsOnlyTighten
CHECK_DEADLOCK FALSE
