\* Two promotions after the installed commit; one crash of the service at any
\* step, one power cut, writes that fail and a stop that takes too long.
SPECIFICATION FairSpec
CONSTANTS
  MaxCommit = 3
  MaxCrashes = 1
  MaxPowerCuts = 1
  StopMayTimeOut = TRUE
  WritesMayFail = TRUE
INVARIANTS
  HandoffIsVisible
  UpdateHasTheFloor
  ResumeWaitsForTheHelper
  OwedIsRemembered
PROPERTIES
  EveryUpdateEnds
  EmptyServerComesBack
