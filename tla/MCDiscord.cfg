\* Two replacement secrets and two faults; two changes of the status or its
\* sharing and one fault.
CONSTANTS
  MaxFaults = 2
  NoSecret = noSecret
  MaxSecret = 2
  States = {running, offline}
  Attempts = 2
  MaxChanges = 2
  StatusFaults = 1
  Nothing = nothing
SPECIFICATION MCFairSpec
CHECK_DEADLOCK FALSE
INVARIANTS
  NeverLockedOut
  OwnerToldTheTruth
  AddressNeedsConsent
PROPERTIES
  StartReconnects
  StatusIsShown
