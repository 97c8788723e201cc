\* Nothing fails, nobody interferes: a jar that does not carry its version.
CONSTANTS
  MaxVersion = 2
  Recoveries = {r1}
  NoRecovery = noRecovery
  JarsAreStamped = FALSE
  MaxFailures = 0
  MaxCrashes = 0
  MaxSwaps = 0
  Kinds = {}
  Backups = {b1}
  NoBackup = nobackup
  Loadouts = {l1}
  NoExtensions = l1
  Paper = FALSE
  LastRelease = 1
  Artifacts = {j1}
  NoArtifact = nojar
  MaxMoves = 0
  MaxReviews = 0
SPECIFICATION MCSpec
PROPERTY
  ListingTellsTheTruth
