\* Two tasks, a profile, two records, two launches, one failure, one crash.
CONSTANTS
  Profiles = {p1}
  NoProfile = noProfile
  Tasks = {t1, t2}
  MaxBackups = 2
  MaxLaunches = 2
  MaxFailures = 1
  MaxCrashes = 1
SPECIFICATION Spec
CHECK_DEADLOCK FALSE
SYMMETRY Interchangeable
INVARIANTS
  SavingComesBack
  KnownGoodSurvives
  StopIsProtected
  RestoreIsGuarded
  OwnerBackupEnds
