\* Nothing fails and nothing crashes.
CONSTANTS
  Profiles = {p1}
  NoProfile = noProfile
  Tasks = {t1, t2}
  MaxBackups = 2
  MaxLaunches = 2
  MaxFailures = 0
  MaxCrashes = 0
SPECIFICATION Spec
CHECK_DEADLOCK FALSE
INVARIANT OperationsDoNotConflict
