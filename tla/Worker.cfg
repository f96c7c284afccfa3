SPECIFICATION UseSpec
CONSTANTS
  Calls = {c1, c2}
  Preloaded = TRUE
  MaxProcs = 7
  MaxFaults = 2
INVARIANTS
  AnswersAreOwn
  SoundUnlessShared
PROPERTIES
  CallsReturn
CHECK_DEADLOCK FALSE
