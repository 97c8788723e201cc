\* Two pairings, one lost answer, socket or service, one switch.
CONSTANTS
  Profiles = {p1}
  Channels = {ch1}
  Callers = {c1}
  MaxPairings = 2
  MaxFaults = 1
  MaxUpdates = 1
  NoProfile = noProfile
  NoChannel = noChannel
  NoRow = noRow
SPECIFICATION FairSpec
CHECK_DEADLOCK FALSE
INVARIANTS
  KnownUntilRevoked
PROPERTIES
  RecordsReconcile
