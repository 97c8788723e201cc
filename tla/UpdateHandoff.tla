---------------------------- MODULE UpdateHandoff ----------------------------
(***************************************************************************)
(* How Blockstead updates itself: the dashboard's updater (app.py and      *)
(* updates.py) decides, stops an empty server and leaves a request file; a *)
(* root-owned helper (packaging/blockstead-update and the installer it     *)
(* runs) claims the file, stops the service, replaces the build, and       *)
(* starts it again; the updater then brings the server back.               *)
(*                                                                         *)
(* The two halves share nothing but files: the updater's state record, the *)
(* request, the helper's status and the installed BUILD.  They survive a   *)
(* crash of the service; everything else in memory does not.  Every        *)
(* updater operation holds update_lock, so one program counter serves for  *)
(* whichever of them is running.  Only the automatic helper is modelled:   *)
(* the owner's manual update command is not.                               *)
(***************************************************************************)
EXTENDS Naturals

CONSTANTS
  MaxCommit,        \* how often the channel may move
  MaxCrashes,       \* how often the service may crash
  MaxPowerCuts,     \* how often the whole machine may lose power
  StopMayTimeOut,   \* may the server outlast the updater's graceful stop?
  WritesMayFail     \* may a write of the state or the request raise OSError?

ASSUME BoundsAreNumbers ==
  /\ MaxCommit \in Nat \ {0}
  /\ {MaxCrashes, MaxPowerCuts} \subseteq Nat
  /\ {StopMayTimeOut, WritesMayFail} \subseteq BOOLEAN

Commits == 1..MaxCommit
Attempts == 1..5         \* four places remember an attempt
None == 0                \* no commit, no attempt

\* Where an operation that holds update_lock stands.
Steps == {"free", "fetch", "players", "ask", "stop", "stopped", "refused",
          "record", "request", "resume"}

VARIABLES
  \* on disk
  st,        \* update-state.json: requested_at and its attempt, resume intent
  req,       \* update-request.json
  status,    \* the helper's status.json
  build,     \* the commit stamped in BUILD
  \* in the service
  up,        \* is the service running?
  booted,    \* installed_build, read when the service started
  latest,    \* app.state.latest_commit
  handoff,   \* app.state.update_handoff_active
  critical,  \* is a backup or a restore under way?
  op,        \* where the operation that holds update_lock stands
  mine,      \* its copy of the state record
  \* around it
  server,    \* the managed Minecraft server
  helper,    \* where the helper stands, and on which attempt and commits
  channel,   \* the promoted commit
  crashes, cuts,
  cause      \* who made the server what it is: its owner, a start that did
             \* not ask about updates ("unasked"), the updater ("updater"), or
             \* the updater, which no longer means to start it ("forgone")

disk    == <<st, req, status, build>>
service == <<up, booted, latest, handoff, critical, op, mine>>
bounds  == <<channel, crashes, cuts>>
vars == <<disk, service, server, helper, bounds, cause>>

NoRequest == [attempt |-> None, commit |-> None]
NoStatus == [state |-> "none", attempt |-> None, commit |-> None,
             retry |-> "never", fresh |-> FALSE]
NoHelper == [at |-> "idle", attempt |-> None, commit |-> None, old |-> None]
CleanState == [requested |-> "no", attempt |-> None, resume |-> FALSE,
               resume_commit |-> None]

Init ==
  /\ st = CleanState /\ mine = CleanState
  /\ req = NoRequest
  /\ status = NoStatus
  /\ build = 1 /\ booted = 1
  /\ up = TRUE
  /\ latest = None
  /\ handoff = FALSE
  /\ critical = FALSE
  /\ op = "free"
  /\ server = "down"
  /\ helper = NoHelper
  /\ channel = 1
  /\ crashes = 0 /\ cuts = 0
  /\ cause = "owner"

-----------------------------------------------------------------------------
(* What the files say (updates.py).                                        *)

\* Final status notes carry the attempt they answer.
CompletesOnSuccess ==            \* mutant: a failure completes nothing
  /\ req = NoRequest
  /\ status.state = "succeeded"
  /\ st.requested # "no"
  /\ status.attempt = st.attempt

status_completes_request ==
  /\ req = NoRequest
  /\ status.state \in {"succeeded", "failed"}
  /\ st.requested # "no"
  /\ status.attempt = st.attempt

InProgressForever ==             \* mutant: no age limit on the helper's note
  \/ handoff
  \/ req # NoRequest
  \/ status.state = "active"
  \/ st.requested = "fresh" /\ ~status_completes_request

install_in_progress ==
  \/ handoff
  \/ req # NoRequest
  \/ status.state = "active" /\ status.fresh
  \/ st.requested = "fresh" /\ ~status_completes_request

failed_commit_suppressed(commit) ==
  /\ status.state = "failed"
  /\ status.commit = commit
  /\ status.retry # "now"

Forget(s) == [s EXCEPT !.requested = "no", !.attempt = None]
Settle(s) == [Forget(s) EXCEPT !.resume = FALSE, !.resume_commit = None]

Released == op' = "free" /\ mine' = CleanState

-----------------------------------------------------------------------------
(* _check_for_update(): one await for the channel, one for the players, one *)
(* for the stop.                                                            *)

CheckBegin ==
  /\ up /\ op = "free"
  /\ ~install_in_progress
  /\ ~critical
  /\ op' = "fetch"
  /\ mine' = st
  /\ UNCHANGED <<disk, up, booted, latest, handoff, critical, server, helper,
                 bounds, cause>>

FetchFails ==
  /\ op = "fetch"
  /\ st' = mine
  /\ Released
  /\ UNCHANGED <<req, status, build, up, booted, latest, handoff, critical,
                 server, helper, bounds, cause>>

Installable(commit) == booted # commit /\ ~failed_commit_suppressed(commit)

FetchReturns ==
  /\ op = "fetch"
  /\ latest' = channel
  /\ \/ /\ ~Installable(channel)
        /\ st' = mine
        /\ Released
     \/ /\ Installable(channel)
        /\ op' = IF server = "down" THEN "record" ELSE "players"
        /\ UNCHANGED <<st, mine>>
  /\ UNCHANGED <<req, status, build, up, booted, handoff, critical, server,
                 helper, bounds, cause>>

\* Somebody is playing, or the count is unknown.
PlayersOnline ==
  /\ op = "players"
  /\ st' = mine
  /\ Released
  /\ UNCHANGED <<req, status, build, up, booted, latest, handoff, critical,
                 server, helper, bounds, cause>>

NobodyOnlineLater ==             \* mutant: the intent is saved by queue_update()
  /\ op = "players"
  /\ mine' = [Forget(mine) EXCEPT !.resume = TRUE, !.resume_commit = latest]
  /\ handoff' = TRUE
  /\ op' = "ask"
  /\ UNCHANGED <<disk, up, booted, latest, critical, server, helper, bounds,
                 cause>>

\* The recovery intent is durable before Java is asked to stop.
NobodyOnline ==
  /\ op = "players"
  /\ mine' = [Forget(mine) EXCEPT !.resume = TRUE, !.resume_commit = latest]
  /\ st' = mine'
  /\ handoff' = TRUE
  /\ op' = "ask"
  /\ UNCHANGED <<req, status, build, up, booted, latest, critical, server,
                 helper, bounds, cause>>

AskServer ==
  /\ op = "ask"
  /\ IF server = "up"
       THEN /\ server' = "stopping"
            /\ cause' = "updater"
            /\ op' = "stop"
       ELSE /\ op' = "refused"          \* manager.stop raised InvalidTransition
            /\ UNCHANGED <<server, cause>>
  /\ UNCHANGED <<disk, up, booted, latest, handoff, critical, mine, helper,
                 bounds>>

ServerStopped ==
  /\ op = "stopped"
  /\ op' = "record"
  /\ UNCHANGED <<disk, up, booted, latest, handoff, critical, mine, server,
                 helper, bounds, cause>>

StopTimesOut ==
  /\ StopMayTimeOut
  /\ op = "stop"
  /\ op' = "refused"
  /\ UNCHANGED <<disk, up, booted, latest, handoff, critical, mine, server,
                 helper, bounds, cause>>

\* "The Minecraft server did not stop, so the update waits."
StopRefused ==
  /\ op = "refused"
  /\ handoff' = FALSE
  /\ st' = [mine EXCEPT !.resume = FALSE, !.resume_commit = None]
  /\ cause' = IF cause = "updater" THEN "forgone" ELSE cause
  /\ Released
  /\ UNCHANGED <<req, status, build, up, booted, latest, critical, server,
                 helper, bounds>>

-----------------------------------------------------------------------------
(* updates_install(): the administrator's explicit retry.                  *)

InstallNowUnchecked ==           \* mutant: without "has not checked yet"
  /\ up /\ op = "free"
  /\ ~install_in_progress
  /\ ~critical
  /\ latest # booted
  /\ server = "down"
  /\ op' = "record"
  /\ mine' = st
  /\ UNCHANGED <<disk, up, booted, latest, handoff, critical, server, helper,
                 bounds, cause>>

InstallNow ==
  /\ up /\ op = "free"
  /\ ~install_in_progress
  /\ ~critical
  /\ latest \notin {None, booted}
  /\ server = "down"
  /\ op' = "record"
  /\ mine' = st
  /\ UNCHANGED <<disk, up, booted, latest, handoff, critical, server, helper,
                 bounds, cause>>

(* queue_update(): the state record first, the request second.             *)

\* A random identifier: any that no file and no process still remembers.
NewAttempt ==
  CHOOSE a \in Attempts :
    a \notin {st.attempt, req.attempt, status.attempt, helper.attempt}

Queued ==
  LET resume == mine.resume /\ mine.resume_commit = latest IN
  [requested |-> "fresh", attempt |-> NewAttempt, resume |-> resume,
   resume_commit |-> IF resume THEN latest ELSE None]

\* The intent to start the server again belongs to one commit.
ForNewerCommit ==
  cause' = IF cause = "updater" /\ mine.resume_commit # latest THEN "forgone" ELSE cause

RecordRequest ==
  /\ op = "record"
  /\ mine' = Queued
  /\ st' = Queued
  /\ ForNewerCommit
  /\ handoff' = TRUE
  /\ op' = "request"
  /\ UNCHANGED <<req, status, build, up, booted, latest, critical, server,
                 helper, bounds>>

MakeRequest ==
  /\ op = "request"
  /\ req' = [attempt |-> mine.attempt, commit |-> latest]
  /\ handoff' = FALSE
  /\ Released
  /\ UNCHANGED <<st, status, build, up, booted, latest, critical, server,
                 helper, bounds, cause>>

\* OSError from either write: the attempt is marked as never handed off,
\* unless that write fails too.
QueueFails ==
  /\ WritesMayFail
  /\ op \in {"record", "request"}
  /\ \/ st' = st /\ UNCHANGED cause
     \/ op = "record" /\ st' = Forget(Queued) /\ ForNewerCommit
     \/ op = "request" /\ st' = Forget(mine) /\ UNCHANGED cause
  /\ handoff' = FALSE
  /\ Released
  /\ UNCHANGED <<req, status, build, up, booted, latest, critical, server,
                 helper, bounds>>

-----------------------------------------------------------------------------
(* resume_server_after_update().                                           *)

Resumable ==
  /\ st.resume
  /\ req = NoRequest
  /\ (st.requested = "no" \/ status_completes_request)

MayResume == up /\ op = "free" /\ Resumable

\* The owner already started a server.
ResumeMoot ==
  /\ MayResume
  /\ server # "down"
  /\ st' = Settle(st)
  /\ UNCHANGED <<req, status, build, service, server, helper, bounds, cause>>

ResumeBegin ==
  /\ MayResume
  /\ server = "down"
  /\ op' = "resume"
  /\ mine' = Settle(st)
  /\ UNCHANGED <<disk, up, booted, latest, handoff, critical, server, helper,
                 bounds, cause>>

\* The launch succeeded, or failed with a message for the owner.
ResumeEnds ==
  /\ op = "resume"
  /\ server' \in {"up", "down"}
  /\ st' = mine
  /\ cause' = "owner"
  /\ Released
  /\ UNCHANGED <<req, status, build, up, booted, latest, handoff, critical,
                 helper, bounds>>

-----------------------------------------------------------------------------
(* The other users of update_lock, and the server itself.                  *)

AcknowledgeForgets ==            \* mutant: the attempt goes with the notice
  /\ up /\ op = "free"
  /\ st' = Forget(st)
  /\ UNCHANGED <<req, status, build, service, server, helper, bounds, cause>>

Acknowledge ==
  /\ up /\ op = "free"
  /\ st' = IF st.resume THEN st ELSE Forget(st)
  /\ UNCHANGED <<req, status, build, service, server, helper, bounds, cause>>

\* process_start, process_restart and scheduled_start.
StartServer ==
  /\ up /\ op = "free"
  /\ ~install_in_progress
  /\ server = "down"
  /\ server' = "up"
  /\ cause' = "owner"
  /\ UNCHANGED <<disk, service, helper, bounds>>

\* saved_switch takes update_lock and loadout_test_start does not; neither asks
\* whether an update is being installed.
StartUnguarded ==
  /\ up /\ op # "resume"
  /\ server = "down"
  /\ server' = "up"
  /\ cause' = "unasked"
  /\ UNCHANGED <<disk, service, helper, bounds>>

\* process_stop and scheduled stops do not take update_lock.
StopServer ==
  /\ up
  /\ server = "up"
  /\ server' = "stopping"
  /\ UNCHANGED <<disk, service, helper, bounds, cause>>

ServerGoes ==
  /\ server # "down"
  /\ server' = "down"
  /\ op' = IF op = "stop" THEN "stopped" ELSE op
  /\ UNCHANGED <<disk, up, booted, latest, handoff, critical, mine, helper,
                 bounds, cause>>

BeginCriticalUnasked ==          \* mutant: a backup starts at any time
  /\ up /\ op = "free"
  /\ critical' = TRUE
  /\ UNCHANGED <<disk, up, booted, latest, handoff, op, mine, server, helper,
                 bounds, cause>>

begin_critical_update_operation ==
  /\ up /\ op = "free"
  /\ ~install_in_progress
  /\ critical' = TRUE
  /\ UNCHANGED <<disk, up, booted, latest, handoff, op, mine, server, helper,
                 bounds, cause>>

end_critical_update_operation ==
  /\ critical
  /\ critical' = FALSE
  /\ UNCHANGED <<disk, up, booted, latest, handoff, op, mine, server, helper,
                 bounds, cause>>

-----------------------------------------------------------------------------
(* The helper.                                                             *)

Report(state, retry) ==
  status' = [state |-> state, attempt |-> helper.attempt,
             commit |-> helper.commit, retry |-> retry, fresh |-> TRUE]

HelperAt(place) == helper' = [helper EXCEPT !.at = place]

ClaimUnreported ==               \* mutant: reported when something is known
  /\ helper.at = "idle"
  /\ req # NoRequest
  /\ helper' = [at |-> "claim", attempt |-> req.attempt, commit |-> req.commit,
                old |-> build]
  /\ UNCHANGED <<disk, service, server, bounds, cause>>

\* "Status precedes removal of the watched request."
Claim ==
  /\ helper.at = "idle"
  /\ req # NoRequest
  /\ helper' = [at |-> "claim", attempt |-> req.attempt, commit |-> req.commit,
                old |-> build]
  /\ status' = [state |-> "active", attempt |-> req.attempt,
                commit |-> req.commit, retry |-> "never", fresh |-> TRUE]
  /\ UNCHANGED <<st, req, build, service, server, bounds, cause>>

Consume ==
  /\ helper.at = "claim"
  /\ req' = NoRequest
  /\ HelperAt("work")
  /\ UNCHANGED <<st, status, build, service, server, bounds, cause>>

\* Nothing was changed: no network, a commit that is no longer approved, a
\* build that is already there, a dashboard that does not build.
GiveUp ==
  /\ helper.at = "work"
  /\ \/ Report("failed", "later")
     \/ Report("failed", "never")
     \/ build = helper.commit /\ Report("succeeded", "never")
  /\ helper' = NoHelper
  /\ UNCHANGED <<st, req, build, service, server, bounds, cause>>

Authorize ==
  /\ helper.at = "work"
  /\ helper.commit = channel
  /\ HelperAt("check")
  /\ UNCHANGED <<disk, service, server, bounds, cause>>

\* "A managed Minecraft process still appears to be running."
ServerFound ==
  /\ helper.at = "check"
  /\ server # "down"
  /\ Report("failed", "never")
  /\ helper' = NoHelper
  /\ UNCHANGED <<st, req, build, service, server, bounds, cause>>

\* The service is active: one that is between a crash and its restart at this
\* very moment is left out.
NoServerFound ==
  /\ helper.at = "check"
  /\ up
  /\ server = "down"
  /\ HelperAt("stop")
  /\ UNCHANGED <<disk, service, server, bounds, cause>>

\* What is lost with the process: every value the service held in memory.
ServiceGone ==
  /\ up' = FALSE
  /\ latest' = None
  /\ handoff' = FALSE
  /\ critical' = FALSE
  /\ Released
  /\ server' = "down"
  /\ UNCHANGED booted

\* A server that can be resumed is, before anything else is served.
ServiceStarts ==
  /\ up' = TRUE /\ booted' = build
  /\ IF Resumable THEN op' = "resume" /\ mine' = Settle(st) ELSE UNCHANGED <<op, mine>>

StopService ==
  /\ helper.at = "stop"
  /\ ServiceGone
  /\ HelperAt("stopped")
  /\ UNCHANGED <<disk, bounds, cause>>

Deploy ==
  /\ helper.at = "stopped"
  /\ build' = helper.commit
  /\ req' = NoRequest           \* "a request left over" is quarantined
  /\ HelperAt("deployed")
  /\ UNCHANGED <<st, status, service, server, bounds, cause>>

StartService ==
  /\ helper.at = "deployed"
  /\ ServiceStarts
  /\ HelperAt("health")
  /\ UNCHANGED <<disk, latest, handoff, critical, server, bounds, cause>>

Succeed ==
  /\ helper.at = "health"
  /\ up
  /\ Report("succeeded", "never")
  /\ helper' = NoHelper
  /\ UNCHANGED <<st, req, build, service, server, bounds, cause>>

\* The transaction guard: anything that goes wrong once the service has been
\* stopped stops it again and restores the previous tree.
Rollback ==
  /\ helper.at \in {"stopped", "deployed", "health"}
  /\ ServiceGone
  /\ build' = helper.old
  /\ req' = IF helper.at = "stopped" THEN req ELSE NoRequest
  /\ HelperAt("restored")
  /\ UNCHANGED <<st, status, bounds, cause>>

RollbackStarts ==
  /\ helper.at = "restored"
  /\ ServiceStarts
  /\ HelperAt("verify")
  /\ UNCHANGED <<disk, latest, handoff, critical, server, bounds, cause>>

RolledBack ==
  /\ helper.at = "verify"
  /\ Report("failed", "never")
  /\ helper' = NoHelper
  /\ UNCHANGED <<st, req, build, service, server, bounds, cause>>

-----------------------------------------------------------------------------
(* Crashes, time and the channel.                                          *)

ServiceCrashes ==
  /\ up
  /\ crashes < MaxCrashes
  /\ crashes' = crashes + 1
  /\ ServiceGone
  /\ UNCHANGED <<disk, helper, channel, cuts, cause>>

\* Restart=on-failure; a service the installer stopped stays stopped.
ServiceRestarts ==
  /\ ~up
  /\ helper.at \notin {"stopped", "deployed", "restored"}
  /\ ServiceStarts
  /\ UNCHANGED <<disk, latest, handoff, critical, server, helper, bounds, cause>>

PowerCut ==
  /\ cuts < MaxPowerCuts
  /\ cuts' = cuts + 1
  /\ ServiceGone
  /\ helper' = NoHelper
  /\ UNCHANGED <<disk, channel, crashes, cause>>

\* update_status_max_age_minutes pass.  systemd ends a helper that has run
\* for an hour, so the note of a working one is never that old.
HourPasses ==
  /\ st' = IF st.requested = "fresh" THEN [st EXCEPT !.requested = "stale"] ELSE st
  /\ status' =
       [status EXCEPT
          !.fresh = @ /\ helper.at # "idle",
          !.retry = IF @ = "later" THEN "now" ELSE @]
  /\ <<st', status'>> # <<st, status>>
  /\ op = "free"      \* an operation that holds the lock is minutes long
  /\ UNCHANGED <<req, build, service, server, helper, bounds, cause>>

Promote ==
  /\ channel < MaxCommit
  /\ channel' = channel + 1
  /\ UNCHANGED <<disk, service, server, helper, crashes, cuts, cause>>

-----------------------------------------------------------------------------
Updater ==
  \/ CheckBegin \/ FetchFails \/ FetchReturns \/ PlayersOnline \/ NobodyOnline
  \/ AskServer \/ ServerStopped \/ StopTimesOut \/ StopRefused
  \/ InstallNow \/ RecordRequest \/ MakeRequest \/ QueueFails
  \/ ResumeMoot \/ ResumeBegin \/ ResumeEnds

Owner ==
  \/ Acknowledge \/ StartServer \/ StartUnguarded \/ StopServer
  \/ begin_critical_update_operation \/ end_critical_update_operation

Helper ==
  \/ Claim \/ Consume \/ GiveUp \/ Authorize \/ ServerFound \/ NoServerFound
  \/ StopService \/ Deploy \/ StartService \/ Succeed
  \/ Rollback \/ RollbackStarts \/ RolledBack

World ==
  \/ ServerGoes \/ ServiceCrashes \/ ServiceRestarts \/ PowerCut
  \/ HourPasses \/ Promote

Next == Updater \/ Owner \/ Helper \/ World

Spec == Init /\ [][Next]_vars

\* An operation that has begun goes on; update_loop() comes round again, and
\* waits in line for update_lock; systemd starts the helper and the service;
\* the network answers some day; a server told to stop does; time passes.
Fairness ==
  /\ WF_vars(NobodyOnline \/ PlayersOnline) /\ WF_vars(AskServer)
  /\ WF_vars(ServerStopped) /\ WF_vars(StopRefused)
  /\ WF_vars(RecordRequest) /\ WF_vars(MakeRequest) /\ WF_vars(ResumeEnds)
  /\ SF_vars(FetchReturns) /\ SF_vars(CheckBegin)
  /\ SF_vars(ResumeMoot \/ ResumeBegin)
  /\ WF_vars(server = "stopping" /\ ServerGoes)
  /\ WF_vars(end_critical_update_operation)
  /\ WF_vars(Helper)
  /\ WF_vars(ServiceRestarts)
  /\ SF_vars(HourPasses)

FairSpec == Spec /\ Fairness

-----------------------------------------------------------------------------
(* Properties.                                                             *)

Places == {"idle", "claim", "work", "check", "stop", "stopped", "deployed",
           "health", "restored", "verify"}
Records ==
  [requested : {"no", "fresh", "stale"}, attempt : Attempts \cup {None},
   resume : BOOLEAN, resume_commit : Commits \cup {None}]
Requests == [attempt : Attempts, commit : Commits] \cup {NoRequest}
Notes ==
  [state : {"none", "active", "succeeded", "failed"},
   attempt : Attempts \cup {None}, commit : Commits \cup {None},
   retry : {"never", "later", "now"}, fresh : BOOLEAN]
Helpers ==
  [at : Places \ {"idle"}, attempt : Attempts, commit : Commits, old : Commits]
    \cup {NoHelper}

\* The files hold what their readers expect, a request always names a commit
\* and an attempt, and memory is empty while the service is down.
TypeOK ==
  /\ st \in Records /\ mine \in Records
  /\ req \in Requests /\ status \in Notes /\ helper \in Helpers
  /\ build \in Commits /\ booted \in Commits /\ channel \in Commits
  /\ latest \in Commits \cup {None}
  /\ up \in BOOLEAN /\ handoff \in BOOLEAN /\ critical \in BOOLEAN
  /\ cause \in {"owner", "unasked", "updater", "forgone"}
  /\ op \in Steps
  /\ server \in {"down", "up", "stopping"}
  /\ ~up => /\ op = "free" /\ latest = None
            /\ server = "down" /\ ~handoff /\ ~critical
  /\ crashes \in 0..MaxCrashes /\ cuts \in 0..MaxPowerCuts

\* From the moment the request is visible until the helper has written its last
\* note, and while the updater stops an empty server, everything that asks
\* whether an update is being installed is told that one is: at whatever point
\* the service crashes, the power fails or an hour goes by.
HandoffIsVisible ==
  (helper.at # "idle" \/ req # NoRequest \/ op \in {"ask", "stop", "stopped", "request"})
    => install_in_progress

\* A request is made, and the helper works, only while no backup or restore is
\* under way and no server runs that was started by someone who asks ("Blockstead
\* is being updated. Start the server after it finishes."): the installer stops
\* the service under it.  A switch of setups and a validation start do not ask.
UpdateHasTheFloor ==
  (helper.at # "idle" \/ req # NoRequest) => (server = "down" \/ cause = "unasked") /\ ~critical

\* The stopped server is not started again while the helper may still stop the
\* service: no note of an earlier attempt passes for the answer to this one.
ResumeWaitsForTheHelper ==
  op = "resume" => helper.at = "idle" /\ req = NoRequest

\* Whenever the server is down only because the updater stopped it, the record
\* on disk says so, whatever crashes, fails or is retried: unless its stop took
\* too long, or a newer commit was queued meanwhile.
OwedIsRemembered == cause = "updater" /\ server = "down" => st.resume

\* The record names a request that was never made, or a helper that has died.
Stranded ==
  /\ st.requested # "no" /\ req = NoRequest /\ helper.at = "idle" /\ op # "request"
  /\ ~(status.state \in {"succeeded", "failed"} /\ status.attempt = st.attempt)

\* A server that was stopped for an update is brought back, whether the update
\* succeeds, fails or is rolled back, unless its owner starts one first, the
\* intent is given up, or the service or the machine dies on the way to an answer.
EmptyServerComesBack == cause = "updater" ~> cause # "updater" \/ Stranded

\* Nothing stays refused for ever because "Blockstead is being updated".
EveryUpdateEnds == install_in_progress ~> ~install_in_progress

=============================================================================
