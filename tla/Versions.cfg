SPECIFICATION PartsSpec
CONSTANTS
  Commands = {c1, c2}
  Profiles = {p, q, thin}
  BadProfiles = {thin}
  MaxVersion = 3
  MaxKills = 1
  Writers = {c1, c2}
  Contents = {a, b, bad}
  Invalid = {bad}
  NoModel = NoModel
  NoSpec = NoSpec
  NoManifest = NoManifest
INVARIANTS
  ApprovedModelLoads
  ManifestsTellTheTruth
PROPERTIES
  VersionsKept
CONSTRAINT OverlapsStaySmall
CHECK_DEADLOCK FALSE
