\* One alert, one request about alerts, one change and one fault; two one-time
\* events and a plan for the same minute, one change and one fault.
CONSTANTS
  Reports = {b1}
  Crashes = {c1}
  NoReport = none
  Current = current
  MaxAttempts = 2
  Webhooks = {w1}
  MaxHappened = 1
  MaxRequests = 1
  MaxChanges = 1
  MaxFaults = 1
  Profiles = {p1}
  Events = {e1, e2}
  MaxClock = 3
  Times = {2}
  Archives = {TRUE}
  MaxAsked = 1
  MaxMishaps = 1
SPECIFICATION MCFairSpec
CHECK_DEADLOCK FALSE
INVARIANTS
  HistoryIsTrue
  OnceAndRecorded
PROPERTIES
  AlertsReachAnEnd
  DueEventsEnd
