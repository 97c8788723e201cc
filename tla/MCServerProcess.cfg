\* Two callers, two launches for either of two profiles, fair scheduling; and one
\* caller, two launches, with a child of the server that may keep its output pipe
\* open after the server has exited.
CONSTANTS
  Profiles = {pA, pB}
  Callers = {c1, c2}
  Closer = lifespan
  Runs = {r1, r2}
  NoProfile = noProfile
  NoTask = noTask
  NoRun = noRun
  PipeMayLinger = FALSE
  Caller = c1
  LingeringProfiles = {pA}
SPECIFICATION MCFairSpec
INVARIANTS
  OneLiveServer
  NothingSurvivesClose
  OutputIsDrained
PROPERTIES
  KeepsPromise
  EveryCallReturns
  DeathIsNoticed
CHECK_DEADLOCK FALSE
