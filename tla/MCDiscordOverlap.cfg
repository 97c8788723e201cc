\* One rotation and one crash; nothing else fails.  The status rests.
CONSTANTS
  MaxFaults = 1
  NoSecret = noSecret
  MaxSecret = 1
  States = {running}
  Attempts = 1
  MaxChanges = 0
  StatusFaults = 0
  Nothing = nothing
SPECIFICATION MCSpec
CHECK_DEADLOCK FALSE
INVARIANT
  InterruptedHostGetsIn
