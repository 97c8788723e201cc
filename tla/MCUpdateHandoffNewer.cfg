\* The channel moves twice; nothing fails and nothing crashes.
SPECIFICATION FairSpec
CONSTANTS
  MaxCommit = 3
  MaxCrashes = 0
  MaxPowerCuts = 0
  StopMayTimeOut = FALSE
  WritesMayFail = FALSE
PROPERTY
  StoppedServerStartsAgain
