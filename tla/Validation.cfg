SPECIFICATION PartsSpec
CONSTANTS
  Params = {"sound", "overfit", "plain"}
  Overfit = {"overfit"}
  Lists <- OneList
  ManifestKeys = {"total_trials"}
  MaxRuns = 3
  MaxFaults = 2
  NoManifest = NoManifest
  Ids <- MCIds
  Results <- MCResults
  Tables <- MCTables
  Configs <- MCConfigs
  Sources = {"none", "aggregate", "manifests"}
  MaxAttempts = 3
  MaxKills = 1
  Jobs <- MCJobs
  Sharpes <- MCSharpes
INVARIANTS
  TypeOK
  EveryStageRan
  NoLookahead
  TestedOnce
  CpcvIsSound
  NoFailedGateSelected
  SelectionIsDiverse
PROPERTIES
  FreshRunAppliesGate
  GauntletCompletes
CHECK_DEADLOCK FALSE
