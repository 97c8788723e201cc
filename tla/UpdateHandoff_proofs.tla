------------------------- MODULE UpdateHandoff_proofs -------------------------
(***************************************************************************)
(* What the update handoff keeps true for every number of promotions,      *)
(* crashes and power cuts.  The argument: update_lock is held by one       *)
(* operation, an operation begins only when nothing is being installed,    *)
(* and the helper's note is written before its request disappears.         *)
(***************************************************************************)
EXTENDS UpdateHandoff, TLAPS

Busy == helper.at # "idle" \/ req # NoRequest

\* Whoever holds update_lock works alone: the helper has nothing to do.
LockExcludesHelper == op # "free" => ~Busy

\* A working helper's note says so.
NoteIsLive == helper.at # "idle" => status.state = "active" /\ status.fresh

\* The flag in memory covers the steps before the request is visible.
HandoffRaised == op \in {"ask", "stop", "stopped", "request"} => handoff

\* While a server waits to be brought back, the record keeps the attempt.
AnswerAwaited == Busy /\ st.resume => st.requested # "no"

CommitKnown ==
  op \in {"players", "ask", "stop", "stopped", "record", "request"}
    => latest \in Commits

JustRecorded ==
  op = "request" => mine.attempt \in Attempts /\ st.requested = "fresh"

Core ==
  /\ TypeOK
  /\ LockExcludesHelper
  /\ NoteIsLive
  /\ HandoffRaised
  /\ AnswerAwaited
  /\ CommitKnown
  /\ JustRecorded

USE BoundsAreNumbers DEF Commits, Attempts, None

\* The bounds are numbers.
LEMMA BoundsTyped == MaxCrashes \in Nat /\ MaxPowerCuts \in Nat
BY BoundsAreNumbers

\* There is always an attempt identifier that nothing remembers.
LEMMA AttemptsSuffice == NewAttempt \in Attempts
<1> DEFINE Remembered == {st.attempt, req.attempt, status.attempt, helper.attempt}
<1>1. \E a \in Attempts : a \notin Remembered
  OBVIOUS
<1> QED
  BY <1>1 DEF NewAttempt

\* While the helper works or its request is visible, the question "is an update
\* being installed?" is answered yes.
LEMMA BusyIsVisible == Core => HandoffIsVisible
BY DEF Core, HandoffIsVisible, install_in_progress, NoteIsLive, HandoffRaised

\* While the helper has something to do, no server is resumed.
LEMMA BusyDelaysResume == Core /\ Busy => ~Resumable
BY DEF Core, Busy, NoteIsLive, AnswerAwaited, Resumable, status_completes_request

\* Forgetting an attempt, and settling what is owed, leave a well-formed record.
LEMMA RecordsKept ==
  /\ CleanState \in Records
  /\ \A s \in Records : Forget(s) \in Records /\ Settle(s) \in Records
BY DEF CleanState, Records, Forget, Settle

\* The strengthened invariant holds when Blockstead is first started.
LEMMA CoreInit == Init => Core
<1> SUFFICES ASSUME Init PROVE Core
  OBVIOUS
<1>1. TypeOK
  <2>1. st \in Records /\ mine \in Records
    BY RecordsKept DEF Init
  <2>2. status \in Notes
    BY DEF Init, Notes, NoStatus
  <2>3. crashes \in 0..MaxCrashes /\ cuts \in 0..MaxPowerCuts
    BY BoundsTyped DEF Init
  <2>4. build \in Commits /\ booted \in Commits /\ channel \in Commits
    BY DEF Init
  <2> QED
    BY <2>1, <2>2, <2>3, <2>4 DEF Init, TypeOK, Requests, Helpers, Steps
<1> QED
  BY <1>1 DEF Init, Core, LockExcludesHelper, NoteIsLive, HandoffRaised,
    AnswerAwaited, CommitKnown, JustRecorded, Busy, CleanState, NoHelper

\* Every step, crash and power cut keeps the files and the memory well formed.
LEMMA TypeStep == Core /\ [Next]_vars => TypeOK'
<1> SUFFICES ASSUME Core, [Next]_vars PROVE TypeOK'
  OBVIOUS
<1> USE DEF Core, TypeOK, CommitKnown, disk, service, bounds, Steps
<1>1. CASE CheckBegin
  BY <1>1 DEF CheckBegin
<1>2. CASE FetchFails
  BY RecordsKept, <1>2 DEF FetchFails, Released
<1>3. CASE FetchReturns
  BY RecordsKept, <1>3 DEF FetchReturns, Released
<1>4. CASE PlayersOnline
  BY RecordsKept, <1>4 DEF PlayersOnline, Released
<1>5. CASE NobodyOnline
  BY RecordsKept, <1>5 DEF NobodyOnline, Records
<1>6. CASE AskServer
  BY <1>6 DEF AskServer
<1>7. CASE ServerStopped
  BY <1>7 DEF ServerStopped
<1>8. CASE StopTimesOut
  BY <1>8 DEF StopTimesOut
<1>9. CASE StopRefused
  BY ZenonT(40), RecordsKept, <1>9 DEF StopRefused, Released, Records
<1>10. CASE InstallNow
  BY <1>10 DEF InstallNow
<1>11. CASE RecordRequest
  BY AttemptsSuffice, <1>11 DEF RecordRequest, Queued, Records, ForNewerCommit
<1>12. CASE MakeRequest
  BY RecordsKept, <1>12 DEF MakeRequest, Released, Requests, JustRecorded
<1>13. CASE QueueFails
  <2>1. op = "record" => Queued \in Records
    BY AttemptsSuffice DEF Queued, Records
  <2>2. st' \in Records /\ mine' \in Records
    BY RecordsKept, <2>1, <1>13 DEF QueueFails, Released
  <2> QED
    BY <2>2, <1>13 DEF QueueFails, Released, ForNewerCommit
<1>14. CASE ResumeMoot
  BY RecordsKept, <1>14 DEF ResumeMoot, MayResume
<1>15. CASE ResumeBegin
  BY RecordsKept, <1>15 DEF ResumeBegin, MayResume
<1>16. CASE ResumeEnds
  BY RecordsKept, <1>16 DEF ResumeEnds, Released
<1>17. CASE Acknowledge
  BY RecordsKept, <1>17 DEF Acknowledge
<1>18. CASE StartServer
  BY <1>18 DEF StartServer
<1>19. CASE StartUnguarded
  BY <1>19 DEF StartUnguarded
<1>20. CASE StopServer
  BY <1>20 DEF StopServer
<1>21. CASE begin_critical_update_operation
  BY <1>21 DEF begin_critical_update_operation
<1>22. CASE end_critical_update_operation
  BY <1>22 DEF end_critical_update_operation
<1>23. CASE Claim
  BY <1>23 DEF Claim, Requests, NoRequest, Helpers, Places, Notes
<1>24. CASE Consume
  BY <1>24 DEF Consume, Requests, HelperAt, Helpers, Places, NoHelper
<1>25. CASE GiveUp
  <2>1. helper.attempt \in Attempts /\ helper.commit \in Commits
    BY <1>25 DEF GiveUp, Helpers, NoHelper
  <2>2. status' \in Notes
    <3>1. CASE Report("failed", "later")
      BY <2>1, <3>1 DEF Report, Notes
    <3>2. CASE Report("failed", "never")
      BY <2>1, <3>2 DEF Report, Notes
    <3>3. CASE Report("succeeded", "never")
      BY <2>1, <3>3 DEF Report, Notes
    <3> QED
      BY <3>1, <3>2, <3>3, <1>25 DEF GiveUp
  <2> QED
    BY <2>2, <1>25 DEF GiveUp, Helpers
<1>26. CASE Authorize
  BY <1>26 DEF Authorize, HelperAt, Helpers, Places, NoHelper
<1>27. CASE ServerFound
  BY <1>27 DEF ServerFound, Report, Notes, Helpers, NoHelper
<1>28. CASE NoServerFound
  BY <1>28 DEF NoServerFound, HelperAt, Helpers, Places, NoHelper
<1>29. CASE StopService
  <2>1. helper' \in Helpers /\ build' \in Commits
    BY <1>29 DEF StopService, HelperAt, Helpers, Places, NoHelper
  <2>2. mine' \in Records
    BY RecordsKept, <1>29 DEF StopService, ServiceGone, Released
  <2> QED
    BY <2>1, <2>2, <1>29 DEF StopService, ServiceGone, Released
<1>30. CASE Deploy
  BY <1>30 DEF Deploy, HelperAt, Helpers, Places, NoHelper, Requests
<1>31. CASE StartService
  BY RecordsKept, <1>31 DEF StartService, HelperAt, Helpers, Places, NoHelper, ServiceStarts
<1>32. CASE Succeed
  BY <1>32 DEF Succeed, Report, Notes, Helpers, NoHelper
<1>33. CASE Rollback
  <2>1. helper' \in Helpers /\ build' \in Commits
    BY <1>33 DEF Rollback, HelperAt, Helpers, Places, NoHelper
  <2>2. mine' \in Records
    BY RecordsKept, <1>33 DEF Rollback, ServiceGone, Released
  <2> QED
    BY <2>1, <2>2, <1>33 DEF Rollback, ServiceGone, Released, Requests
<1>34. CASE RollbackStarts
  BY RecordsKept, <1>34 DEF RollbackStarts, HelperAt, Helpers, Places, NoHelper, ServiceStarts
<1>35. CASE RolledBack
  BY <1>35 DEF RolledBack, Report, Notes, Helpers, NoHelper
<1>36. CASE ServerGoes
  BY <1>36 DEF ServerGoes
<1>37. CASE ServiceCrashes
  <2>1. mine' \in Records
    BY RecordsKept, <1>37 DEF ServiceCrashes, ServiceGone, Released
  <2>2. crashes' \in 0..MaxCrashes
    BY BoundsTyped, <1>37 DEF ServiceCrashes
  <2> QED
    BY <2>1, <2>2, <1>37 DEF ServiceCrashes, ServiceGone, Released
<1>38. CASE ServiceRestarts
  BY RecordsKept, <1>38 DEF ServiceRestarts, ServiceStarts
<1>39. CASE PowerCut
  <2>1. mine' \in Records
    BY RecordsKept, <1>39 DEF PowerCut, ServiceGone, Released
  <2>2. cuts' \in 0..MaxPowerCuts
    BY BoundsTyped, <1>39 DEF PowerCut
  <2> QED
    BY <2>1, <2>2, <1>39 DEF PowerCut, ServiceGone, Released, Helpers
<1>40. CASE HourPasses
  <2>1. st' \in Records
    BY <1>40 DEF HourPasses, Records
  <2>2. status' \in Notes
    BY <1>40 DEF HourPasses, Notes
  <2> QED
    BY <2>1, <2>2, <1>40 DEF HourPasses
<1>41. CASE Promote
  BY <1>41 DEF Promote
<1>42. CASE UNCHANGED vars
  BY <1>42 DEF vars
<1> QED
  BY <1>1, <1>2, <1>3, <1>4, <1>5, <1>6, <1>7, <1>8, <1>9, <1>10, <1>11, <1>12, <1>13,
     <1>14, <1>15, <1>16, <1>17, <1>18, <1>19, <1>20, <1>21, <1>22, <1>23, <1>24,
     <1>25, <1>26, <1>27, <1>28, <1>29, <1>30, <1>31, <1>32, <1>33, <1>34, <1>35,
     <1>36, <1>37, <1>38, <1>39, <1>40, <1>41, <1>42
  DEF Next, Updater, Owner, Helper, World

\* Every step keeps the strengthened invariant: an operation takes the lock only
\* when nothing is visible, and everything the helper does keeps its note alive.
LEMMA CoreStep == Core /\ [Next]_vars => Core'
<1> SUFFICES ASSUME Core, [Next]_vars PROVE Core'
  OBVIOUS
<1>0. TypeOK'
  BY TypeStep
<1> SUFFICES (LockExcludesHelper /\ NoteIsLive /\ HandoffRaised
             /\ AnswerAwaited /\ CommitKnown /\ JustRecorded)'
  BY <1>0 DEF Core
<1> USE DEF Core, TypeOK, LockExcludesHelper, NoteIsLive, HandoffRaised,
    AnswerAwaited, CommitKnown, JustRecorded, Busy, disk, service, bounds
<1>1. CASE CheckBegin
  BY BusyIsVisible, <1>1 DEF CheckBegin, HandoffIsVisible
<1>2. CASE FetchFails
  BY <1>2 DEF FetchFails, Released
<1>3. CASE FetchReturns
  BY <1>3 DEF FetchReturns, Released
<1>4. CASE PlayersOnline
  BY <1>4 DEF PlayersOnline, Released
<1>5. CASE NobodyOnline
  BY <1>5 DEF NobodyOnline
<1>6. CASE AskServer
  BY <1>6 DEF AskServer
<1>7. CASE ServerStopped
  BY <1>7 DEF ServerStopped
<1>8. CASE StopTimesOut
  BY <1>8 DEF StopTimesOut
<1>9. CASE StopRefused
  BY <1>9 DEF StopRefused, Released
<1>10. CASE InstallNow
  BY BusyIsVisible, <1>10 DEF InstallNow, HandoffIsVisible
<1>11. CASE RecordRequest
  BY AttemptsSuffice, <1>11 DEF RecordRequest, Queued, NoHelper
<1>12. CASE MakeRequest
  BY <1>12 DEF MakeRequest, Released
<1>13. CASE QueueFails
  BY <1>13 DEF QueueFails, Released
<1>14. CASE ResumeMoot
  BY <1>14 DEF ResumeMoot, MayResume, Resumable, status_completes_request, Settle, Forget, Records
<1>15. CASE ResumeBegin
  BY <1>15 DEF ResumeBegin, MayResume, Resumable, status_completes_request, Settle, Forget, Records
<1>16. CASE ResumeEnds
  BY <1>16 DEF ResumeEnds, Released
<1>17. CASE Acknowledge
  BY <1>17 DEF Acknowledge, Forget
<1>18. CASE StartServer
  BY <1>18 DEF StartServer
<1>19. CASE StartUnguarded
  BY <1>19 DEF StartUnguarded
<1>20. CASE StopServer
  BY <1>20 DEF StopServer
<1>21. CASE begin_critical_update_operation
  BY <1>21 DEF begin_critical_update_operation
<1>22. CASE end_critical_update_operation
  BY <1>22 DEF end_critical_update_operation
<1>23. CASE Claim
  BY <1>23 DEF Claim, NoRequest
<1>24. CASE Consume
  BY <1>24 DEF Consume, HelperAt, Helpers, NoHelper
<1>25. CASE GiveUp
  BY <1>25 DEF GiveUp, Report, NoHelper
<1>26. CASE Authorize
  BY <1>26 DEF Authorize, HelperAt, Helpers, NoHelper
<1>27. CASE ServerFound
  BY <1>27 DEF ServerFound, Report, NoHelper
<1>28. CASE NoServerFound
  BY <1>28 DEF NoServerFound, HelperAt, Helpers, NoHelper
<1>29. CASE StopService
  BY <1>29 DEF StopService, Released, HelperAt, Helpers, NoHelper, ServiceGone
<1>30. CASE Deploy
  BY <1>30 DEF Deploy, HelperAt, Helpers, NoHelper
<1>31. CASE StartService
  BY BusyDelaysResume, <1>31 DEF StartService, HelperAt, Helpers, NoHelper, ServiceStarts
<1>32. CASE Succeed
  BY <1>32 DEF Succeed, Report, NoHelper
<1>33. CASE Rollback
  BY <1>33 DEF Rollback, Released, HelperAt, Helpers, NoHelper, ServiceGone
<1>34. CASE RollbackStarts
  BY BusyDelaysResume, <1>34 DEF RollbackStarts, HelperAt, Helpers, NoHelper, ServiceStarts
<1>35. CASE RolledBack
  BY <1>35 DEF RolledBack, Report, NoHelper
<1>36. CASE ServerGoes
  BY <1>36 DEF ServerGoes
<1>37. CASE ServiceCrashes
  BY <1>37 DEF ServiceCrashes, Released, ServiceGone
<1>38. CASE ServiceRestarts
  BY BusyDelaysResume, <1>38 DEF ServiceRestarts, ServiceStarts, Resumable
<1>39. CASE PowerCut
  BY <1>39 DEF PowerCut, Released, ServiceGone, NoHelper
<1>40. CASE HourPasses
  BY <1>40 DEF HourPasses, Records, Notes
<1>41. CASE Promote
  BY <1>41 DEF Promote
<1>42. CASE UNCHANGED vars
  BY <1>42 DEF vars
<1> QED
  BY <1>1, <1>2, <1>3, <1>4, <1>5, <1>6, <1>7, <1>8, <1>9, <1>10, <1>11, <1>12, <1>13,
     <1>14, <1>15, <1>16, <1>17, <1>18, <1>19, <1>20, <1>21, <1>22, <1>23, <1>24,
     <1>25, <1>26, <1>27, <1>28, <1>29, <1>30, <1>31, <1>32, <1>33, <1>34, <1>35,
     <1>36, <1>37, <1>38, <1>39, <1>40, <1>41, <1>42
  DEF Next, Updater, Owner, Helper, World

\* The strengthened invariant holds in every state.
LEMMA CoreAlways == Spec => []Core
<1>1. Core /\ [Next]_vars => Core'
  BY CoreStep
<1> QED
  BY CoreInit, <1>1, PTL DEF Spec

\* The files and the memory stay well formed.
THEOREM TypeCorrect == Spec => []TypeOK
<1>1. Core => TypeOK
  BY DEF Core
<1> QED
  BY CoreAlways, <1>1, PTL

\* However often the service crashes and the power fails, whoever asks whether
\* an update is being installed is told so from the request to the last note.
THEOREM AlwaysVisible == Spec => []HandoffIsVisible
BY CoreAlways, BusyIsVisible, PTL

\* The server is never started again under a helper that is still working.
THEOREM ResumeIsPatient == Spec => []ResumeWaitsForTheHelper
<1>1. Core => ResumeWaitsForTheHelper
  BY DEF Core, LockExcludesHelper, Busy, ResumeWaitsForTheHelper
<1> QED
  BY CoreAlways, <1>1, PTL

-----------------------------------------------------------------------------
(* No server and no backup under the installer, but for starts that do not  *)
(* ask.                                                                     *)

\* An operation past its checks has found, or made, the server stopped.
ServerSettled ==
  op \in {"stopped", "record", "request"} => server = "down" \/ cause = "unasked"

\* An operation that may end in a request began with no critical work, and its
\* lock keeps critical work out.
NothingCritical == op \notin {"free", "resume"} => ~critical

Floor == ServerSettled /\ NothingCritical /\ UpdateHasTheFloor

\* Nothing is being installed when Blockstead is first started.
LEMMA FloorInit == Init => Floor
BY DEF Init, Floor, ServerSettled, NothingCritical, UpdateHasTheFloor, NoRequest,
       NoHelper

\* No step starts a server or a backup under the installer, nor makes a request
\* while one of them runs.
LEMMA FloorStep == Core /\ Floor /\ [Next]_vars => Floor'
<1> SUFFICES ASSUME Core, Floor, [Next]_vars PROVE Floor'
  OBVIOUS
<1> USE DEF Core, TypeOK, LockExcludesHelper, Busy, Floor, ServerSettled,
    NothingCritical, UpdateHasTheFloor, disk, service, bounds
<1>1. CASE CheckBegin
  BY BusyIsVisible, <1>1 DEF CheckBegin, HandoffIsVisible
<1>2. CASE FetchFails
  BY <1>2 DEF FetchFails, Released
<1>3. CASE FetchReturns
  BY <1>3 DEF FetchReturns, Released
<1>4. CASE PlayersOnline
  BY <1>4 DEF PlayersOnline, Released
<1>5. CASE NobodyOnline
  BY <1>5 DEF NobodyOnline
<1>6. CASE AskServer
  BY <1>6 DEF AskServer
<1>7. CASE ServerStopped
  BY <1>7 DEF ServerStopped
<1>8. CASE StopTimesOut
  BY <1>8 DEF StopTimesOut
<1>9. CASE StopRefused
  BY <1>9 DEF StopRefused, Released
<1>10. CASE InstallNow
  BY BusyIsVisible, <1>10 DEF InstallNow, HandoffIsVisible
<1>11. CASE RecordRequest
  BY <1>11 DEF RecordRequest, ForNewerCommit
<1>12. CASE MakeRequest
  BY <1>12 DEF MakeRequest, Released
<1>13. CASE QueueFails
  BY <1>13 DEF QueueFails, Released, ForNewerCommit
<1>14. CASE ResumeMoot
  BY <1>14 DEF ResumeMoot, MayResume
<1>15. CASE ResumeBegin
  BY <1>15 DEF ResumeBegin, MayResume
<1>16. CASE ResumeEnds
  BY <1>16 DEF ResumeEnds, Released
<1>17. CASE Acknowledge
  BY <1>17 DEF Acknowledge
<1>18. CASE StartServer
  BY BusyIsVisible, <1>18 DEF StartServer, HandoffIsVisible
<1>19. CASE StartUnguarded
  BY <1>19 DEF StartUnguarded
<1>20. CASE StopServer
  BY <1>20 DEF StopServer
<1>21. CASE begin_critical_update_operation
  BY BusyIsVisible, <1>21 DEF begin_critical_update_operation, HandoffIsVisible
<1>22. CASE end_critical_update_operation
  BY <1>22 DEF end_critical_update_operation
<1>23. CASE Claim
  BY <1>23 DEF Claim, NoRequest
<1>24. CASE Consume
  BY <1>24 DEF Consume, HelperAt, Helpers, NoHelper, NoRequest
<1>25. CASE GiveUp
  BY <1>25 DEF GiveUp, NoHelper
<1>26. CASE Authorize
  BY <1>26 DEF Authorize, HelperAt, Helpers, NoHelper
<1>27. CASE ServerFound
  BY <1>27 DEF ServerFound, NoHelper
<1>28. CASE NoServerFound
  BY <1>28 DEF NoServerFound, HelperAt, Helpers, NoHelper
<1>29. CASE StopService
  BY <1>29 DEF StopService, Released, ServiceGone, HelperAt, Helpers, NoHelper
<1>30. CASE Deploy
  BY <1>30 DEF Deploy, HelperAt, Helpers, NoHelper
<1>31. CASE StartService
  BY BusyDelaysResume, <1>31 DEF StartService, ServiceStarts, HelperAt, Helpers, NoHelper
<1>32. CASE Succeed
  BY <1>32 DEF Succeed, NoHelper
<1>33. CASE Rollback
  BY <1>33 DEF Rollback, Released, ServiceGone, HelperAt, Helpers, NoHelper
<1>34. CASE RollbackStarts
  BY BusyDelaysResume, <1>34 DEF RollbackStarts, ServiceStarts, HelperAt, Helpers, NoHelper
<1>35. CASE RolledBack
  BY <1>35 DEF RolledBack, NoHelper
<1>36. CASE ServerGoes
  BY <1>36 DEF ServerGoes
<1>37. CASE ServiceCrashes
  BY <1>37 DEF ServiceCrashes, Released, ServiceGone
<1>38. CASE ServiceRestarts
  BY <1>38 DEF ServiceRestarts, ServiceStarts
<1>39. CASE PowerCut
  BY <1>39 DEF PowerCut, Released, ServiceGone, NoHelper
<1>40. CASE HourPasses
  BY <1>40 DEF HourPasses
<1>41. CASE Promote
  BY <1>41 DEF Promote
<1>42. CASE UNCHANGED vars
  BY <1>42 DEF vars
<1> QED
  BY <1>1, <1>2, <1>3, <1>4, <1>5, <1>6, <1>7, <1>8, <1>9, <1>10, <1>11, <1>12, <1>13,
     <1>14, <1>15, <1>16, <1>17, <1>18, <1>19, <1>20, <1>21, <1>22, <1>23, <1>24,
     <1>25, <1>26, <1>27, <1>28, <1>29, <1>30, <1>31, <1>32, <1>33, <1>34, <1>35,
     <1>36, <1>37, <1>38, <1>39, <1>40, <1>41, <1>42
  DEF Next, Updater, Owner, Helper, World

\* No server runs that was started by someone who asks, and no backup or restore
\* is under way, while an update is requested or installed.
THEOREM UpdateIsAlone == Spec => []UpdateHasTheFloor
<1>1. Core /\ Floor /\ [Next]_vars => Floor'
  BY FloorStep
<1>2. Floor => UpdateHasTheFloor
  BY DEF Floor
<1> QED
  BY CoreAlways, FloorInit, <1>1, <1>2, PTL DEF Spec

-----------------------------------------------------------------------------
(* The server that the updater stopped is remembered.                      *)

\* Whoever holds update_lock has an exact copy of the record on disk: nobody
\* writes it meanwhile.  (A resume holds what it will write.)
CopyIsExact == op \notin {"free", "resume"} => mine = st

\* The intent is on disk before the server is asked to stop.
IntentFirst == op \in {"ask", "stop"} => st.resume

\* A server is the updater's to bring back only from its stop on.
NotYetOwed == op \in {"players", "ask"} => cause # "updater"

\* Until it is down, the operation that stops it is still there.
StillStopping ==
  cause = "updater" => st.resume /\ (server = "down" \/ op \in {"stop", "refused"})

Owed == CopyIsExact /\ IntentFirst /\ NotYetOwed /\ StillStopping

\* Nothing is owed when Blockstead is first started.
LEMMA OwedInit == Init => Owed
BY DEF Init, Owed, CopyIsExact, IntentFirst, NotYetOwed, StillStopping

\* No step forgets an intent that is not given up on purpose.
LEMMA OwedStep == Core /\ Owed /\ [Next]_vars => Owed'
<1> SUFFICES ASSUME Core, Owed, [Next]_vars PROVE Owed'
  OBVIOUS
<1> USE DEF Core, TypeOK, Owed, CopyIsExact, IntentFirst, NotYetOwed, StillStopping,
    disk, service, bounds
<1>1. CASE CheckBegin
  BY <1>1 DEF CheckBegin
<1>2. CASE FetchFails
  BY <1>2 DEF FetchFails, Released
<1>3. CASE FetchReturns
  BY <1>3 DEF FetchReturns, Released
<1>4. CASE PlayersOnline
  BY <1>4 DEF PlayersOnline, Released
<1>5. CASE NobodyOnline
  BY <1>5 DEF NobodyOnline, Forget, Records
<1>6. CASE AskServer
  BY <1>6 DEF AskServer
<1>7. CASE ServerStopped
  BY <1>7 DEF ServerStopped
<1>8. CASE StopTimesOut
  BY <1>8 DEF StopTimesOut
<1>9. CASE StopRefused
  BY <1>9 DEF StopRefused, Released
<1>10. CASE InstallNow
  BY <1>10 DEF InstallNow
<1>11. CASE RecordRequest
  BY <1>11 DEF RecordRequest, ForNewerCommit, Queued
<1>12. CASE MakeRequest
  BY <1>12 DEF MakeRequest, Released
<1>13. CASE QueueFails
  BY <1>13 DEF QueueFails, Released, ForNewerCommit, Queued, Forget, Records
<1>14. CASE ResumeMoot
  BY <1>14 DEF ResumeMoot, MayResume, Settle, Forget, Records
<1>15. CASE ResumeBegin
  BY <1>15 DEF ResumeBegin, MayResume
<1>16. CASE ResumeEnds
  BY <1>16 DEF ResumeEnds, Released
<1>17. CASE Acknowledge
  BY <1>17 DEF Acknowledge, Forget
<1>18. CASE StartServer
  BY <1>18 DEF StartServer
<1>19. CASE StartUnguarded
  BY <1>19 DEF StartUnguarded
<1>20. CASE StopServer
  BY <1>20 DEF StopServer
<1>21. CASE begin_critical_update_operation
  BY <1>21 DEF begin_critical_update_operation
<1>22. CASE end_critical_update_operation
  BY <1>22 DEF end_critical_update_operation
<1>23. CASE Claim
  BY <1>23 DEF Claim
<1>24. CASE Consume
  BY <1>24 DEF Consume, HelperAt
<1>25. CASE GiveUp
  BY <1>25 DEF GiveUp
<1>26. CASE Authorize
  BY <1>26 DEF Authorize, HelperAt
<1>27. CASE ServerFound
  BY <1>27 DEF ServerFound
<1>28. CASE NoServerFound
  BY <1>28 DEF NoServerFound, HelperAt
<1>29. CASE StopService
  BY <1>29 DEF StopService, Released, ServiceGone, HelperAt
<1>30. CASE Deploy
  BY <1>30 DEF Deploy, HelperAt
<1>31. CASE StartService
  BY <1>31 DEF StartService, ServiceStarts, LockExcludesHelper, Busy
<1>32. CASE Succeed
  BY <1>32 DEF Succeed
<1>33. CASE Rollback
  BY <1>33 DEF Rollback, Released, ServiceGone
<1>34. CASE RollbackStarts
  BY <1>34 DEF RollbackStarts, ServiceStarts, LockExcludesHelper, Busy
<1>35. CASE RolledBack
  BY <1>35 DEF RolledBack
<1>36. CASE ServerGoes
  BY <1>36 DEF ServerGoes
<1>37. CASE ServiceCrashes
  BY <1>37 DEF ServiceCrashes, Released, ServiceGone
<1>38. CASE ServiceRestarts
  BY <1>38 DEF ServiceRestarts, ServiceStarts
<1>39. CASE PowerCut
  BY <1>39 DEF PowerCut, Released, ServiceGone
<1>40. CASE HourPasses
  BY <1>40 DEF HourPasses, Records
<1>41. CASE Promote
  BY <1>41 DEF Promote
<1>42. CASE UNCHANGED vars
  BY <1>42 DEF vars
<1> QED
  BY <1>1, <1>2, <1>3, <1>4, <1>5, <1>6, <1>7, <1>8, <1>9, <1>10, <1>11, <1>12, <1>13,
     <1>14, <1>15, <1>16, <1>17, <1>18, <1>19, <1>20, <1>21, <1>22, <1>23, <1>24,
     <1>25, <1>26, <1>27, <1>28, <1>29, <1>30, <1>31, <1>32, <1>33, <1>34, <1>35,
     <1>36, <1>37, <1>38, <1>39, <1>40, <1>41, <1>42
  DEF Next, Updater, Owner, Helper, World

\* Unless its stop took too long or a newer commit was queued, the server that is
\* down because the updater stopped it stands in the record on disk: however
\* often the service and the machine die, writes fail and the channel moves.
THEOREM NobodyForgetsTheServer == Spec => []OwedIsRemembered
<1>1. Core /\ Owed /\ [Next]_vars => Owed'
  BY OwedStep
<1>2. Owed => OwedIsRemembered
  BY DEF Owed, StillStopping, OwedIsRemembered
<1> QED
  BY CoreAlways, OwedInit, <1>1, <1>2, PTL DEF Spec

=============================================================================
