\* Two upgrades with their recoveries, two failures anywhere, one crash; two
\* requests about plans and one change of the evidence between any two steps.
CONSTANTS
  MaxVersion = 2
  Recoveries = {r1, r2}
  NoRecovery = noRecovery
  JarsAreStamped = TRUE
  MaxFailures = 2
  MaxCrashes = 1
  MaxSwaps = 1
  Kinds = {"extension_update", "extension_install", "settings_change", "world_files", "server_upgrade"}
  Backups = {b1, b2}
  NoBackup = nobackup
  Loadouts = {l1, l2}
  NoExtensions = l1
  Paper = TRUE
  LastRelease = 2
  Artifacts = {j1, j2}
  NoArtifact = nojar
  MaxMoves = 1
  MaxReviews = 2
SPECIFICATION MCSpec
SYMMETRY Interchangeable
INVARIANTS
  JarInUseSurvives
  VersionNamesTheJar
  OneFailureIsRepaired
  OfferedIsRestorable
  ActedAsReviewed
