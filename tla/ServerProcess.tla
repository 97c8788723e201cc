---------------------------- MODULE ServerProcess ----------------------------
(***************************************************************************)
(* ProcessManager (backend/src/blockstead/process.py): the one object that *)
(* launches, watches and ends the managed Minecraft server.                *)
(*                                                                         *)
(* The program is one asyncio loop, so an action is the code a coroutine   *)
(* runs from one suspension point to the next.  Several coroutines are in  *)
(* flight at once: any number of callers of start(), stop() and            *)
(* force_stop(), one reader task per launched process (_read_output), and, *)
(* at shutdown, close().  The operating system adds its own steps: a       *)
(* process exits, and its output pipe reaches end of file, which is a      *)
(* separate event because the process's own children inherit the pipe.    *)
(***************************************************************************)
EXTENDS FiniteSets

CONSTANTS
  Profiles,       \* server profiles a start may be for
  Callers,        \* coroutines that may call the manager
  Closer,         \* the lifespan coroutine that runs close() at shutdown
  Runs,           \* identities of launched processes; each is used once
  NoProfile, NoTask, NoRun,
  PipeMayLinger   \* may a child of the server hold its output pipe open
                  \* after the server itself has exited?

Tasks == Callers \union {Closer}

ASSUME NamesAreDistinct ==
  /\ Closer \notin Callers
  /\ NoTask \notin Tasks
  /\ NoRun \notin Runs
  /\ NoProfile \notin Profiles
  /\ PipeMayLinger \in BOOLEAN

VARIABLES
  state,            \* ProcessManager.state
  process,          \* ._process, whose reader task is ._reader
  force_requested,  \* ._force_requested
  owner,            \* ._owner
  lock,             \* the task that holds ._lock
  os,               \* the operating system's view of each run
  asked,            \* runs that were sent the "stop" line
  sig,              \* the strongest signal sent to each run
  eof,              \* runs whose output pipe has no writer left
  ready,            \* each run's "Done (" line
  reader,           \* each run's _read_output task
  spawnedFor,       \* the profile each run was launched for
  lines,            \* published LogEvents, as <<run, profile_id>>
  pc, target,       \* where each task is suspended, and on which run
  closing           \* has the service begun to shut down?

manager == <<state, process, force_requested, owner>>
system  == <<os, asked, sig, eof, ready>>
tasks   == <<pc, target>>
vars == <<manager, lock, system, reader, spawnedFor, lines, tasks, closing>>

ProcessState == {"STOPPED", "STARTING", "RUNNING", "STOPPING", "CRASHED",
                 "DEGRADED", "UNKNOWN"}

TRANSITIONS ==
  [s \in ProcessState |->
    CASE s = "STOPPED"  -> {"STARTING"}
      [] s = "STARTING" -> {"RUNNING", "CRASHED", "DEGRADED", "STOPPING"}
      [] s = "RUNNING"  -> {"STOPPING", "CRASHED", "DEGRADED"}
      [] s = "STOPPING" -> {"STOPPED", "CRASHED"}
      [] s = "CRASHED"  -> {"STARTING", "STOPPED"}
      [] s = "DEGRADED" -> {"RUNNING", "STOPPING", "CRASHED", "STARTING"}
      [] s = "UNKNOWN"  -> {"STOPPED", "CRASHED"}]

\* A refused transition raises InvalidTransition and changes nothing.
transition(s) == state' = IF s \in TRANSITIONS[state] THEN s ELSE state

Startable == {"STOPPED", "CRASHED", "DEGRADED"}
Stoppable == {"RUNNING", "STARTING", "DEGRADED"}
Alive == {r \in Runs : os[r] = "alive"}

\* A pending process.wait() returns once the process is gone and its pipes
\* have closed; one called after the exit returns at once.
Drained(r) == os[r] = "exited" /\ r \in eof

Goto(t, label, r) ==
  /\ pc' = [pc EXCEPT ![t] = label]
  /\ target' = [target EXCEPT ![t] = r]

\* Where a task goes when the manager call it made returns.
Return(t) == Goto(t, IF t = Closer THEN "gather" ELSE "idle", NoRun)

Init ==
  /\ state = "STOPPED"
  /\ process = NoRun
  /\ force_requested = FALSE
  /\ owner = NoProfile
  /\ lock = NoTask
  /\ os = [r \in Runs |-> "unborn"]
  /\ asked = {}
  /\ sig = [r \in Runs |-> "none"]
  /\ eof = {}
  /\ ready = [r \in Runs |-> "no"]
  /\ reader = [r \in Runs |-> "none"]
  /\ spawnedFor = [r \in Runs |-> NoProfile]
  /\ lines = {}
  /\ pc = [t \in Tasks |-> "idle"]
  /\ target = [t \in Tasks |-> NoRun]
  /\ closing = FALSE

-----------------------------------------------------------------------------
(* start(): under the lock from the state check until the spawn returns.   *)

\* The end of the output resumes the reader together with every task that
\* waits for that process, before the loop serves a new start().
OldOutputDrained == \A r \in Runs : Drained(r) => reader[r] # "reading"

\* Mutant: the owner is recorded before the state is checked.
StartOwnsFirst(c, p) ==
  /\ pc[c] = "idle"
  /\ lock = NoTask
  /\ OldOutputDrained
  /\ owner' = p
  /\ IF state \in Startable
       THEN /\ transition("STARTING")
            /\ force_requested' = FALSE
            /\ lock' = c
            /\ Goto(c, "spawning", NoRun)
       ELSE UNCHANGED <<state, force_requested, lock, tasks>>
  /\ UNCHANGED <<process, system, reader, spawnedFor, lines, closing>>

StartBegin(c, p) ==
  /\ pc[c] = "idle"
  /\ lock = NoTask
  /\ state \in Startable
  /\ OldOutputDrained
  /\ transition("STARTING")
  /\ force_requested' = FALSE
  /\ owner' = p
  /\ lock' = c
  /\ Goto(c, "spawning", NoRun)
  /\ UNCHANGED <<process, system, reader, spawnedFor, lines, closing>>

\* create_subprocess_exec raises OSError or ValueError.
SpawnFails(c) ==
  /\ pc[c] = "spawning"
  /\ transition("CRASHED")
  /\ lock' = NoTask
  /\ Return(c)
  /\ UNCHANGED <<process, force_requested, owner, system, reader, spawnedFor,
                 lines, closing>>

\* The child exists before create_subprocess_exec returns its handle.
Fork(c, r) ==
  /\ pc[c] = "spawning"
  /\ os[r] = "unborn"
  /\ os' = [os EXCEPT ![r] = "alive"]
  /\ spawnedFor' = [spawnedFor EXCEPT ![r] = owner]
  /\ Goto(c, "spawned", r)
  /\ UNCHANGED <<manager, lock, asked, sig, eof, ready, reader, lines, closing>>

\* Mutant: the reader task is never created.
SpawnReturnsUnread(c) ==
  /\ pc[c] = "spawned"
  /\ process' = target[c]
  /\ lock' = NoTask
  /\ Return(c)
  /\ UNCHANGED <<state, force_requested, owner, system, reader, spawnedFor,
                 lines, closing>>

\* asyncio resumes the waiters of an exited process before a spawn that is
\* still connecting its pipes can return.
SpawnReturns(c) ==
  /\ pc[c] = "spawned"
  /\ \A t \in Tasks : pc[t] = "stop_wait" => ~Drained(target[t])
  /\ process' = target[c]
  /\ reader' = [reader EXCEPT ![target[c]] = "reading"]
  /\ lock' = NoTask
  /\ Return(c)
  /\ UNCHANGED <<state, force_requested, owner, system, spawnedFor, lines, closing>>

-----------------------------------------------------------------------------
(* _read_output() of run r, and _publish().  The task keeps its own handle *)
(* of the process but reads and writes the manager's current fields.       *)

Publish(r) == lines' = lines \union {<<r, owner>>}

\* Mutant: readiness is believed in any state.
ReadDoneAnyState(r) ==
  /\ reader[r] = "reading"
  /\ ready[r] = "unread"
  /\ ready' = [ready EXCEPT ![r] = "read"]
  /\ Publish(r)
  /\ state' = "RUNNING"
  /\ UNCHANGED <<process, force_requested, owner, lock, os, asked, sig, eof,
                 reader, spawnedFor, tasks, closing>>

\* The line that contains "Done (".
ReadDone(r) ==
  /\ reader[r] = "reading"
  /\ ready[r] = "unread"
  /\ ready' = [ready EXCEPT ![r] = "read"]
  /\ Publish(r)
  /\ IF state = "STARTING" THEN transition("RUNNING") ELSE UNCHANGED state
  /\ UNCHANGED <<process, force_requested, owner, lock, os, asked, sig, eof,
                 reader, spawnedFor, tasks, closing>>

ReadLine(r) ==
  /\ reader[r] = "reading"
  /\ Publish(r)
  /\ UNCHANGED <<manager, lock, system, reader, spawnedFor, tasks, closing>>

\* Mutant: an exit while RUNNING is not treated as a crash.
ExitVerdictMissesRunning(code) ==
  IF state = "STOPPING" /\ (code = 0 \/ force_requested)
    THEN transition("STOPPED")
    ELSE IF state \in {"STARTING", "STOPPING"}
      THEN transition("CRASHED")
      ELSE UNCHANGED state

\* What the reader makes of the exit code once the output ends.
ExitVerdict(code) ==
  IF state = "STOPPING" /\ (code = 0 \/ force_requested)
    THEN transition("STOPPED")
    ELSE IF state \in {"STARTING", "RUNNING", "STOPPING"}
      THEN transition("CRASHED")
      ELSE UNCHANGED state

ReaderEnds(r) ==
  /\ reader[r] = "reading"
  /\ ready[r] # "unread"
  /\ Drained(r)
  /\ reader' = [reader EXCEPT ![r] = "done"]
  /\ \E code \in {0, 1} : ExitVerdict(code)
  /\ UNCHANGED <<process, force_requested, owner, lock, system, spawnedFor,
                 lines, tasks, closing>>

-----------------------------------------------------------------------------
(* stop(): the lock covers the state change and the "stop" line, not the   *)
(* wait that follows.                                                      *)

AskToStop(t) ==
  /\ state \in Stoppable
  /\ transition("STOPPING")
  /\ asked' = asked \union {process}
  /\ Goto(t, IF os[process] = "exited" THEN "stop_reader" ELSE "stop_wait", process)
  /\ UNCHANGED <<process, force_requested, owner, lock, os, sig, eof, ready,
                 reader, spawnedFor, lines>>

\* Mutant: stop() does not take the lock.
StopUnlocked(c) ==
  /\ pc[c] = "idle"
  /\ process # NoRun
  /\ AskToStop(c)
  /\ UNCHANGED closing

\* Mutant: stop() trusts that a handle exists.
StopWithoutHandle(c) ==
  /\ pc[c] = "idle"
  /\ lock = NoTask
  /\ state \in Stoppable
  /\ transition("STOPPING")
  /\ asked' = asked \union {process}
  /\ Goto(c, "stop_wait", process)
  /\ UNCHANGED <<process, force_requested, owner, lock, os, sig, eof, ready,
                 reader, spawnedFor, lines, closing>>

StopBegin(c) ==
  /\ pc[c] = "idle"
  /\ lock = NoTask
  /\ UNCHANGED closing
  /\ \/ process # NoRun /\ AskToStop(c)
     \/ /\ process = NoRun          \* "Process handle was unavailable"
        /\ state \in Stoppable
        /\ state' = "CRASHED"
        /\ UNCHANGED <<process, force_requested, owner, lock, system, reader,
                       spawnedFor, lines, tasks>>

\* process.wait() returned; `await self._reader` is on the current reader.
StopExited(t) ==
  /\ pc[t] = "stop_wait"
  /\ Drained(target[t])
  /\ Goto(t, "stop_reader", process)
  /\ UNCHANGED <<manager, lock, system, reader, spawnedFor, lines, closing>>

StopReturns(t) ==
  /\ pc[t] = "stop_reader"
  /\ reader[target[t]] = "done"
  /\ Return(t)
  /\ UNCHANGED <<manager, lock, system, reader, spawnedFor, lines, closing>>

\* Mutant: a stop that times out is reported as done.
StopTimeoutGivesUp(c) ==
  /\ c # Closer
  /\ pc[c] = "stop_wait"
  /\ ~Drained(target[c])
  /\ transition("STOPPED")
  /\ Return(c)
  /\ UNCHANGED <<process, force_requested, owner, lock, system, reader,
                 spawnedFor, lines, closing>>

\* The graceful timeout: the call returns False and the state stays STOPPING.
StopTimeout(c) ==
  /\ c # Closer
  /\ pc[c] = "stop_wait"
  /\ ~Drained(target[c])
  /\ Return(c)
  /\ UNCHANGED <<manager, lock, system, reader, spawnedFor, lines, closing>>

-----------------------------------------------------------------------------
(* force_stop(): holds the lock until the process is gone.                 *)

\* Mutant: a forced stop needs no stop in progress.
ForceAnyTime ==
  /\ lock = NoTask
  /\ process # NoRun
  /\ os[process] # "exited"

ForceAllowed ==
  /\ lock = NoTask
  /\ state = "STOPPING"
  /\ process # NoRun
  /\ os[process] # "exited"

SendTerm(t) ==
  /\ ForceAllowed
  /\ force_requested' = TRUE
  /\ sig' = [sig EXCEPT ![process] = "term"]
  /\ lock' = t
  /\ Goto(t, "term_wait", process)
  /\ UNCHANGED <<state, process, owner, os, asked, eof, ready, reader,
                 spawnedFor, lines>>

ForceBegin(c) ==
  /\ pc[c] = "idle"
  /\ SendTerm(c)
  /\ UNCHANGED closing

ForceEnds(t) ==
  /\ IF state = "STOPPING" THEN transition("STOPPED") ELSE UNCHANGED state
  /\ lock' = NoTask
  /\ Return(t)
  /\ UNCHANGED <<process, force_requested, owner, system, reader, spawnedFor,
                 lines, closing>>

\* Mutant: SIGTERM is not followed by SIGKILL.
ForceNeverKills(t) ==
  /\ pc[t] = "term_wait"
  /\ ~Drained(target[t])
  /\ Goto(t, "kill_wait", target[t])
  /\ UNCHANGED <<manager, lock, system, reader, spawnedFor, lines, closing>>

\* Two seconds later; the second wait() need not wait for the pipes of a
\* process that has exited by then.
ForceEscalates(t) ==
  /\ pc[t] = "term_wait"
  /\ ~Drained(target[t])
  /\ \/ os[target[t]] = "exited" /\ ForceEnds(t)
     \/ /\ os[target[t]] = "alive"
        /\ sig' = [sig EXCEPT ![target[t]] = "kill"]
        /\ Goto(t, "kill_wait", target[t])
        /\ UNCHANGED <<manager, lock, os, asked, eof, ready, reader, spawnedFor,
                       lines, closing>>

\* Mutant: the forced stop does not wait for the process to be gone.
ForceReturnsEarly(t) ==
  /\ pc[t] \in {"term_wait", "kill_wait"}
  /\ ForceEnds(t)

ForceReturns(t) ==
  /\ pc[t] \in {"term_wait", "kill_wait"}
  /\ Drained(target[t])
  /\ ForceEnds(t)

-----------------------------------------------------------------------------
(* Shutdown: the lifespan cancels the background tasks one by one, then    *)
(* runs close().                                                           *)

BeginShutdown ==
  /\ ~closing
  /\ closing' = TRUE
  /\ UNCHANGED <<manager, lock, system, reader, spawnedFor, lines, tasks>>

\* Cancelling a spawn kills and reaps the half-started child; cancelling a
\* task that awaits the reader cancels the reader with it.  force_stop() is
\* only called by requests, which are served before the lifespan ends.
Cancel(c) ==
  /\ closing
  /\ pc[c] \in {"idle", "spawning", "spawned", "stop_wait", "stop_reader"}
  /\ Goto(c, "gone", NoRun)
  /\ lock' = IF lock = c THEN NoTask ELSE lock
  /\ IF pc[c] = "spawned"
       THEN /\ os' = [os EXCEPT ![target[c]] = "exited"]
            /\ eof' = eof \union {target[c]}
       ELSE UNCHANGED <<os, eof>>
  /\ reader' = IF pc[c] = "stop_reader"
                 THEN [reader EXCEPT ![target[c]] = "done"] ELSE reader
  /\ UNCHANGED <<manager, asked, sig, ready, spawnedFor, lines, closing>>

HandleAlive == process # NoRun /\ os[process] # "exited"

CloseBegin ==
  /\ closing
  /\ pc[Closer] = "idle"
  /\ \A c \in Callers : pc[c] = "gone"
  /\ UNCHANGED closing
  /\ \/ HandleAlive /\ AskToStop(Closer)
     \/ /\ HandleAlive
        /\ state = "STOPPING"
        /\ Goto(Closer, "close_wait", process)
        /\ UNCHANGED <<manager, lock, system, reader, spawnedFor, lines>>
     \/ /\ HandleAlive
        /\ state \notin Stoppable \union {"STOPPING"}
        /\ sig' = [sig EXCEPT ![process] = "kill"]
        /\ Goto(Closer, "close_kill", process)
        /\ UNCHANGED <<manager, lock, os, asked, eof, ready, reader,
                       spawnedFor, lines>>
     \/ /\ ~HandleAlive
        /\ Return(Closer)
        /\ UNCHANGED <<manager, lock, system, reader, spawnedFor, lines>>

\* Mutant: close() does not force a server that ignores "stop".
CloseGivesUp ==
  /\ pc[Closer] \in {"stop_wait", "close_wait"}
  /\ ~Drained(target[Closer])
  /\ Goto(Closer, "closed", NoRun)
  /\ UNCHANGED <<manager, lock, system, reader, spawnedFor, lines, closing>>

\* A force_stop() that refuses ends close() with its exception.
CloseTimeout ==
  /\ pc[Closer] \in {"stop_wait", "close_wait"}
  /\ ~Drained(target[Closer])
  /\ UNCHANGED closing
  /\ \/ SendTerm(Closer)
     \/ /\ ~ForceAllowed
        /\ Goto(Closer, "closed", NoRun)
        /\ UNCHANGED <<manager, lock, system, reader, spawnedFor, lines>>

CloseSeesExit ==
  /\ pc[Closer] \in {"close_wait", "close_kill"}
  /\ Drained(target[Closer])
  /\ Return(Closer)
  /\ UNCHANGED <<manager, lock, system, reader, spawnedFor, lines, closing>>

\* `await asyncio.gather(self._reader, ...)`
CloseReturns ==
  /\ pc[Closer] = "gather"
  /\ process # NoRun => reader[process] = "done"
  /\ Goto(Closer, "closed", NoRun)
  /\ UNCHANGED <<manager, lock, system, reader, spawnedFor, lines, closing>>

-----------------------------------------------------------------------------
(* The operating system and the server.                                    *)

ServerReady(r) ==
  /\ os[r] = "alive"
  /\ ready[r] = "no"
  /\ ready' = [ready EXCEPT ![r] = "unread"]
  /\ UNCHANGED <<manager, lock, os, asked, sig, eof, reader, spawnedFor,
                 lines, tasks, closing>>

\* A crash, an operator's /stop in the game, the "stop" line or a signal.
Exit(r) ==
  /\ os[r] = "alive"
  /\ os' = [os EXCEPT ![r] = "exited"]
  /\ \/ eof' = eof \union {r}
     \/ PipeMayLinger /\ UNCHANGED eof
  /\ UNCHANGED <<manager, lock, asked, sig, ready, reader, spawnedFor, lines,
                 tasks, closing>>

PipeCloses(r) ==
  /\ os[r] = "exited"
  /\ r \notin eof
  /\ eof' = eof \union {r}
  /\ UNCHANGED <<manager, lock, os, asked, sig, ready, reader, spawnedFor,
                 lines, tasks, closing>>

-----------------------------------------------------------------------------
CallerStep(c) ==
  \/ \E p \in Profiles : StartBegin(c, p)
  \/ SpawnFails(c)
  \/ \E r \in Runs : Fork(c, r)
  \/ SpawnReturns(c)
  \/ StopBegin(c)
  \/ StopTimeout(c)
  \/ ForceBegin(c)
  \/ Cancel(c)

TaskStep(t) ==
  \/ StopExited(t)
  \/ StopReturns(t)
  \/ ForceEscalates(t)
  \/ ForceReturns(t)

RunStep(r) ==
  \/ ReadDone(r)
  \/ ReadLine(r)
  \/ ReaderEnds(r)
  \/ ServerReady(r)
  \/ Exit(r)
  \/ PipeCloses(r)

CloserStep == CloseBegin \/ CloseTimeout \/ CloseSeesExit \/ CloseReturns

Next ==
  \/ \E c \in Callers : CallerStep(c)
  \/ \E t \in Tasks : TaskStep(t)
  \/ \E r \in Runs : RunStep(r)
  \/ BeginShutdown
  \/ CloserStep

Spec == Init /\ [][Next]_vars

-----------------------------------------------------------------------------
(* Correctness.                                                            *)

Busy == {"spawning", "spawned", "stop_wait", "stop_reader", "term_wait",
         "kill_wait"}

\* Every variable has the shape the code gives it.
TypeOK ==
  /\ state \in ProcessState
  /\ process \in Runs \union {NoRun}
  /\ force_requested \in BOOLEAN
  /\ owner \in Profiles \union {NoProfile}
  /\ lock \in Tasks \union {NoTask}
  /\ os \in [Runs -> {"unborn", "alive", "exited"}]
  /\ asked \subseteq Runs
  /\ sig \in [Runs -> {"none", "term", "kill"}]
  /\ eof \subseteq Runs
  /\ ready \in [Runs -> {"no", "unread", "read"}]
  /\ reader \in [Runs -> {"none", "reading", "done"}]
  /\ spawnedFor \in [Runs -> Profiles \union {NoProfile}]
  /\ lines \subseteq Runs \X (Profiles \union {NoProfile})
  /\ pc \in [Tasks -> Busy \union {"idle", "gone", "close_wait", "close_kill",
                                   "gather", "closed"}]
  /\ target \in [Tasks -> Runs \union {NoRun}]
  /\ closing \in BOOLEAN

\* Two servers never run at once: duplicate starts, retries and schedules may
\* race, yet the world, the port and the memory have one user.
OneLiveServer == \A r, q \in Alive : r = q

\* A state that permits a new start is only shown once no server is left.
ShownDownIsDown == state \in Startable => Alive = {}

\* The dashboard never shows a stop in progress for a server that was not
\* told to stop: the "stop" line went to the very process that is alive.
StopReachesTheLiveServer ==
  state = "STOPPING" => Alive \subseteq asked

\* A server is only signalled after it was asked to stop politely.
ForceOnlyAfterAsking == [][\A r \in Runs : sig'[r] # sig[r] => r \in asked]_vars

\* Every live server is reachable: by the handle and the reader the manager
\* holds, or by the start() still spawning it.
NoOrphanServer ==
  \A r \in Alive :
    \/ process = r /\ reader[r] = "reading"
    \/ \E c \in Callers : pc[c] = "spawned" /\ target[c] = r

\* Until shutdown somebody reads every live server's output, even one the
\* manager lost track of: a full pipe would block the server on its next line.
ConsoleIsDrained ==
  \A r \in Alive :
    \/ closing
    \/ reader[r] = "reading"
    \/ \E c \in Callers : pc[c] = "spawned" /\ target[c] = r

\* A published console line carries the profile of the server that wrote it.
LinesNameTheirProfile == \A l \in lines : l[2] = spawnedFor[l[1]]

\* Once close() has returned, nothing the manager launched is left running.
NothingSurvivesClose == pc[Closer] = "closed" => Alive = {}

\* The manager implements ServerPromise: what its callers rely on.
Phase ==
  [s \in ProcessState |->
    CASE s = "STARTING" -> "starting"
      [] s = "RUNNING"  -> "running"
      [] s = "STOPPING" -> "stopping"
      [] OTHER          -> "down"]

Promise ==
  INSTANCE ServerPromise WITH
    phase <- Phase[state],
    live  <- Alive,
    used  <- {r \in Runs : os[r] # "unborn"}

KeepsPromise == Promise!Spec

-----------------------------------------------------------------------------
(* Fairness: the event loop runs every coroutine whose await is satisfied, *)
(* timers fire, the kernel ends a killed process, and a pipe closes after  *)
(* its last writer.  Nothing forces a server to become ready or to obey    *)
(* "stop", or a caller to call.                                            *)

Fairness ==
  /\ \A c \in Callers :
       /\ WF_vars(SpawnFails(c) \/ \E r \in Runs : Fork(c, r))
       /\ WF_vars(SpawnReturns(c))
       /\ WF_vars(StopTimeout(c))
       /\ WF_vars(Cancel(c))
  /\ \A t \in Tasks :
       /\ WF_vars(StopExited(t))
       /\ WF_vars(StopReturns(t))
       /\ WF_vars(ForceEscalates(t) \/ ForceReturns(t))
  /\ \A r \in Runs :
       /\ WF_vars(ReadDone(r))
       /\ WF_vars(ReaderEnds(r))
       /\ WF_vars(PipeCloses(r))
       /\ WF_vars(sig[r] = "kill" /\ Exit(r))
  /\ WF_vars(CloserStep)

FairSpec == Spec /\ Fairness

\* Every call to the manager ends: a stop returns or times out, a forced stop
\* gets its process, a start learns whether it spawned, and the shutdown's
\* close() ends however stubborn the server.
EveryCallReturns ==
  /\ \A c \in Callers : pc[c] \in Busy ~> pc[c] \notin Busy
  /\ closing ~> pc[Closer] = "closed"

\* A server that died by itself does not stay displayed as coming up or
\* running, unless the service is going down with it.
DeathIsNoticed ==
  \A r \in Runs :
    (process = r /\ os[r] = "exited")
      ~> (state \notin {"STARTING", "RUNNING"} \/ process # r \/ closing)

=============================================================================
