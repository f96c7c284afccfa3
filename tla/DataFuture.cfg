SPECIFICATION PartsSpec
CONSTANTS
  Years = {1, 2}
  Configs = {c1, c2}
  NoConfig = NoConfig
  NoVersion = NoVersion
  NoFile = NoFile
  Torn = Torn
  MaxRuns = 2
  MaxFaults = 1
  Downloads <- MCDownloads
  GapThreshold = 4
  StaleConsecutive = 1
  SpreadMultiplier = 3
  FridayEvening = {4, 6}
  WeekOpening = {12, 14}
  Period <- MCPeriod
  Offset <- MCOffset
  Day = 16
  Schedule <- MCSchedule
  Splits <- MCSplits
INVARIANTS
  NoFutureInTrain
CHECK_DEADLOCK FALSE
