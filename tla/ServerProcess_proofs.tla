------------------------ MODULE ServerProcess_proofs ------------------------
(***************************************************************************)
(* Proofs about ServerProcess, for any number of callers, profiles and     *)
(* launches.                                                               *)
(***************************************************************************)
EXTENDS ServerProcess, TLAPS

(* What a transition the code asks for amounts to in the state it asks it in. *)

\* A transition that the table allows is taken.
LEMMA TransitionTakes ==
  ASSUME state \in ProcessState
  PROVE  /\ transition("STARTING") /\ state \in Startable => state' = "STARTING"
         /\ transition("RUNNING") /\ state = "STARTING" => state' = "RUNNING"
         /\ transition("STOPPING") /\ state \in Stoppable => state' = "STOPPING"
         /\ transition("STOPPED") /\ state = "STOPPING" => state' = "STOPPED"
         /\ transition("CRASHED") /\ state \in {"STARTING", "RUNNING", "STOPPING"}
              => state' = "CRASHED"
  BY DEF transition, TRANSITIONS, Startable, Stoppable, ProcessState

\* transition() leaves the state inside the enumeration.
LEMMA TransitionTyped ==
  ASSUME state \in ProcessState, NEW s \in ProcessState, transition(s)
  PROVE  state' \in ProcessState
  BY DEF transition

-----------------------------------------------------------------------------
\* What the handles a waiting task keeps refer to.
TargetsAreRuns ==
  /\ \A t \in Tasks :
       pc[t] \in {"spawned", "stop_wait", "term_wait", "kill_wait",
                  "close_wait", "close_kill"}
         => target[t] \in Runs
  /\ \A r \in Runs : reader[r] = "reading" => process \in Runs
  /\ \A t \in Tasks : pc[t] = "stop_wait" => process \in Runs

Typed == TypeOK /\ TargetsAreRuns

\* Every step keeps the manager's fields, the tasks and the runs well formed.
LEMMA TypeStep == Typed /\ [Next]_vars => Typed'
<1> SUFFICES ASSUME Typed, [Next]_vars PROVE Typed'
  OBVIOUS
<1> USE NamesAreDistinct DEF Typed, TypeOK, TargetsAreRuns, Tasks, ProcessState, Busy,
    tasks,
      manager, system, Goto, Return
<1>t. ASSUME NEW s \in ProcessState, transition(s) PROVE state' \in ProcessState
  BY <1>t, TransitionTyped
<1>1. ASSUME NEW c \in Callers, NEW p \in Profiles, StartBegin(c, p) PROVE Typed'
  BY <1>1, <1>t DEF StartBegin
<1>2. ASSUME NEW c \in Callers, SpawnFails(c) PROVE Typed'
  BY <1>2, <1>t DEF SpawnFails
<1>3. ASSUME NEW c \in Callers, NEW r \in Runs, Fork(c, r) PROVE Typed'
  BY <1>3 DEF Fork
<1>4. ASSUME NEW c \in Callers, SpawnReturns(c) PROVE Typed'
  BY <1>4 DEF SpawnReturns
<1>5. ASSUME NEW c \in Callers, StopBegin(c) PROVE Typed'
  <2>1. CASE process # NoRun /\ AskToStop(c)
    <3>1. pc' = [pc EXCEPT ![c] = "stop_reader"] \/ pc' = [pc EXCEPT ![c] = "stop_wait"]
      BY <2>1 DEF AskToStop
    <3> QED
      BY <1>5, <2>1, <1>t, <3>1 DEF StopBegin, AskToStop
  <2>2. CASE process = NoRun
    BY <1>5, <2>2, <1>t DEF StopBegin
  <2> QED
    BY <1>5, <2>1, <2>2 DEF StopBegin
<1>6. ASSUME NEW c \in Callers, StopTimeout(c) PROVE Typed'
  BY <1>6 DEF StopTimeout
<1>7. ASSUME NEW c \in Callers, ForceBegin(c) PROVE Typed'
  BY <1>7 DEF ForceBegin, SendTerm, ForceAllowed
<1>8. ASSUME NEW c \in Callers, Cancel(c) PROVE Typed'
  <2>1. reader' \in [Runs -> {"none", "reading", "done"}]
    BY <1>8 DEF Cancel
  <2>3. /\ os' \in [Runs -> {"unborn", "alive", "exited"}]
        /\ eof' \subseteq Runs
    <3>1. CASE pc[c] = "spawned"
      BY <1>8, <3>1 DEF Cancel
    <3>2. CASE pc[c] # "spawned"
      BY <1>8, <3>2 DEF Cancel
    <3> QED BY <3>1, <3>2
  <2>2. \A r \in Runs : reader'[r] = "reading" => reader[r] = "reading"
    BY <1>8 DEF Cancel
  <2> QED
    BY <1>8, <2>1, <2>2, <2>3 DEF Cancel
<1>9. ASSUME NEW t \in Tasks, StopExited(t) PROVE Typed'
  BY <1>9 DEF StopExited
<1>10. ASSUME NEW t \in Tasks, StopReturns(t) PROVE Typed'
  BY <1>10 DEF StopReturns
<1>11. ASSUME NEW t \in Tasks, ForceEscalates(t) PROVE Typed'
  BY <1>11, <1>t DEF ForceEscalates, ForceEnds
<1>12. ASSUME NEW t \in Tasks, ForceReturns(t) PROVE Typed'
  BY <1>12, <1>t DEF ForceReturns, ForceEnds
<1>13. ASSUME NEW r \in Runs, ReadDone(r) PROVE Typed'
  BY <1>13, <1>t DEF ReadDone, Publish
<1>14. ASSUME NEW r \in Runs, ReadLine(r) PROVE Typed'
  BY <1>14 DEF ReadLine, Publish
<1>15. ASSUME NEW r \in Runs, ReaderEnds(r) PROVE Typed'
  BY <1>15, <1>t DEF ReaderEnds, ExitVerdict
<1>16. ASSUME NEW r \in Runs, ServerReady(r) \/ Exit(r) \/ PipeCloses(r) PROVE Typed'
  BY <1>16 DEF ServerReady, Exit, PipeCloses
<1>17. CASE BeginShutdown
  BY <1>17 DEF BeginShutdown
<1>18. CASE CloseBegin
  <2>1. CASE HandleAlive /\ AskToStop(Closer)
    <3>1. pc' = [pc EXCEPT ![Closer] = "stop_reader"] \/ pc' = [pc EXCEPT ![Closer] = "stop_wait"]
      BY <2>1 DEF AskToStop
    <3> QED
      BY <1>18, <2>1, <1>t, <3>1 DEF CloseBegin, HandleAlive, AskToStop
  <2>2. CASE HandleAlive /\ Goto(Closer, "close_wait", process) /\ UNCHANGED sig
    BY <1>18, <2>2 DEF CloseBegin, HandleAlive, AskToStop
  <2>3. CASE /\ HandleAlive
             /\ sig' = [sig EXCEPT ![process] = "kill"]
             /\ Goto(Closer, "close_kill", process)
    BY <1>18, <2>3 DEF CloseBegin, HandleAlive, AskToStop
  <2>4. CASE Return(Closer) /\ UNCHANGED sig
    BY <1>18, <2>4 DEF CloseBegin, AskToStop
  <2> QED
    BY <1>18, <2>1, <2>2, <2>3, <2>4 DEF CloseBegin
<1>19. CASE CloseTimeout
  <2>1. CASE SendTerm(Closer)
    BY <1>19, <2>1 DEF CloseTimeout, SendTerm, ForceAllowed
  <2>2. CASE Goto(Closer, "closed", NoRun) /\ UNCHANGED sig
    BY <1>19, <2>2 DEF CloseTimeout, SendTerm
  <2> QED
    BY <1>19, <2>1, <2>2 DEF CloseTimeout
<1>20. CASE CloseSeesExit \/ CloseReturns
  BY <1>20 DEF CloseSeesExit, CloseReturns
<1>21. CASE UNCHANGED vars
  BY <1>21 DEF vars
<1> QED
  BY <1>1, <1>2, <1>3, <1>4, <1>5, <1>6, <1>7, <1>8, <1>9, <1>10, <1>11,
     <1>12, <1>13, <1>14, <1>15, <1>16, <1>17, <1>18, <1>19, <1>20, <1>21
  DEF Next, CallerStep, TaskStep, RunStep, CloserStep

\* The service starts with no process, no task and a free lock.
LEMMA TypeInit == Init => Typed
<1>1. Init => TypeOK
  <2> SUFFICES ASSUME Init PROVE TypeOK
    OBVIOUS
  <2>1. pc \in [Tasks -> Busy \union {"idle", "gone", "close_wait", "close_kill", "gather", "closed"}]
    BY DEF Init
  <2>2. target \in [Tasks -> Runs \union {NoRun}]
    BY DEF Init
  <2> QED BY <2>1, <2>2 DEF Init, TypeOK, ProcessState
<1>2. Init => TargetsAreRuns
  BY DEF Init, TargetsAreRuns
<1> QED BY <1>1, <1>2 DEF Typed

\* Every variable keeps its type.
THEOREM TypeCorrect == Spec => []TypeOK
<1>1. Init => Typed
  BY TypeInit
<1> QED
  BY <1>1, TypeStep, PTL DEF Spec, Typed
-----------------------------------------------------------------------------
(* The output of every live server has a reader until shutdown begins; this *)
(* does not need pipes to end with their process.                           *)

\* Every step keeps every live server's output in somebody's hands.
LEMMA ConsoleStep == Typed /\ ConsoleIsDrained /\ [Next]_vars => ConsoleIsDrained'
<1> SUFFICES ASSUME Typed, ConsoleIsDrained, [Next]_vars PROVE ConsoleIsDrained'
  OBVIOUS
<1> USE NamesAreDistinct DEF Typed, TypeOK, ConsoleIsDrained, Alive, Tasks, Drained,
    tasks, manager, system, Goto, Return
<1>1. ASSUME NEW c \in Callers, NEW p \in Profiles, StartBegin(c, p) PROVE ConsoleIsDrained'
  BY <1>1 DEF StartBegin
<1>2. ASSUME NEW c \in Callers, SpawnFails(c) PROVE ConsoleIsDrained'
  BY <1>2 DEF SpawnFails
<1>3. ASSUME NEW c \in Callers, NEW q \in Runs, Fork(c, q) PROVE ConsoleIsDrained'
  BY <1>3 DEF Fork
<1>4. ASSUME NEW c \in Callers, SpawnReturns(c) PROVE ConsoleIsDrained'
  BY <1>4 DEF SpawnReturns
<1>5. ASSUME NEW c \in Callers, StopBegin(c) PROVE ConsoleIsDrained'
  BY <1>5 DEF StopBegin, AskToStop
<1>6. ASSUME NEW c \in Callers, StopTimeout(c) PROVE ConsoleIsDrained'
  BY <1>6 DEF StopTimeout
<1>7. ASSUME NEW c \in Callers, ForceBegin(c) PROVE ConsoleIsDrained'
  BY <1>7 DEF ForceBegin, SendTerm
<1>8. ASSUME NEW c \in Callers, Cancel(c) PROVE ConsoleIsDrained'
  BY <1>8 DEF Cancel
<1>9. ASSUME NEW t \in Tasks, StopExited(t) \/ StopReturns(t) PROVE ConsoleIsDrained'
  BY <1>9 DEF StopExited, StopReturns
<1>10. ASSUME NEW t \in Tasks, ForceEscalates(t) PROVE ConsoleIsDrained'
  BY <1>10 DEF ForceEscalates, ForceEnds
<1>11. ASSUME NEW t \in Tasks, ForceReturns(t) PROVE ConsoleIsDrained'
  BY <1>11 DEF ForceReturns, ForceEnds
<1>12. ASSUME NEW q \in Runs, ReadDone(q) \/ ReadLine(q) PROVE ConsoleIsDrained'
  BY <1>12 DEF ReadDone, ReadLine, Publish
<1>13. ASSUME NEW q \in Runs, ReaderEnds(q) PROVE ConsoleIsDrained'
  BY <1>13 DEF ReaderEnds
<1>14. ASSUME NEW q \in Runs, ServerReady(q) \/ Exit(q) \/ PipeCloses(q)
       PROVE  ConsoleIsDrained'
  BY <1>14 DEF ServerReady, Exit, PipeCloses
<1>15. ASSUME BeginShutdown PROVE ConsoleIsDrained'
  BY <1>15 DEF BeginShutdown
<1>16. ASSUME CloseBegin PROVE ConsoleIsDrained'
  BY <1>16 DEF CloseBegin
<1>17. ASSUME CloseTimeout PROVE ConsoleIsDrained'
  BY <1>17 DEF CloseTimeout, SendTerm
<1>18. ASSUME CloseSeesExit \/ CloseReturns PROVE ConsoleIsDrained'
  BY <1>18 DEF CloseSeesExit, CloseReturns
<1>19. ASSUME UNCHANGED vars PROVE ConsoleIsDrained'
  BY <1>19 DEF vars
<1> QED
  BY <1>1, <1>2, <1>3, <1>4, <1>5, <1>6, <1>7, <1>8, <1>9, <1>10, <1>11, <1>12,
     <1>13, <1>14, <1>15, <1>16, <1>17, <1>18, <1>19
  DEF Next, CallerStep, TaskStep, RunStep, CloserStep

\* No server's output pipe fills up unread before shutdown, even when a child
\* of an earlier server keeps that server's pipe open.
THEOREM OutputIsRead == Spec => []ConsoleIsDrained
<1>1. Init => Typed /\ ConsoleIsDrained
  BY TypeInit DEF Init, ConsoleIsDrained, Alive
<1> QED
  BY <1>1, TypeStep, ConsoleStep, PTL DEF Spec

-----------------------------------------------------------------------------
(* The inductive invariant.  The promise "down means gone" cannot be shown  *)
(* from itself: a reader that ends may only speak for the process the       *)
(* manager holds, and no reader may be left over when the next server is    *)
(* spawned.  That is what the parts below say, and it needs every output    *)
(* pipe to end with its process.                                            *)

Locked == {"spawning", "spawned", "term_wait", "kill_wait"}
Spawning == {"spawning", "spawned"}

\* The lock is held exactly by the task that spawns or forces.
LockHeld == \A t \in Tasks : pc[t] \in Locked <=> lock = t

\* No code path degrades a server or forgets its state.
StateIsSet == state \notin {"DEGRADED", "UNKNOWN"}

\* An exited process has left no writer on its pipe.
OutputEnds == \A r \in Runs : os[r] = "exited" => r \in eof

\* Only the process the manager holds is being read.
ReaderIsCurrent ==
  \A r \in Runs : reader[r] = "reading" => r = process /\ os[r] # "unborn"

\* While a spawn is under way the state is STARTING and nobody else reads.
SpawnIsAlone ==
  \A t \in Tasks : pc[t] \in Spawning =>
    /\ t \in Callers
    /\ state = "STARTING"
    /\ \A r \in Runs : reader[r] # "reading"

SpawnedIsBorn == \A t \in Tasks : pc[t] = "spawned" => os[target[t]] # "unborn"

\* A forced stop works on the process the manager holds.
ForceIsCurrent ==
  \A t \in Tasks : pc[t] \in {"term_wait", "kill_wait"} => target[t] = process

HandleIsBorn == process \in Runs => os[process] # "unborn"

\* stop() waits for the process the manager holds, then for the reader of a
\* process that has exited: cancelling it never silences a live server.
StopIsCurrent ==
  \A t \in Tasks :
    /\ pc[t] = "stop_wait" => target[t] = process
    /\ pc[t] = "stop_reader" => target[t] \in Runs /\ os[target[t]] = "exited"

Inv ==
  /\ TypeOK /\ TargetsAreRuns
  /\ LockHeld /\ StateIsSet /\ OutputEnds
  /\ ReaderIsCurrent /\ SpawnIsAlone /\ SpawnedIsBorn /\ ForceIsCurrent
  /\ HandleIsBorn /\ StopIsCurrent
  /\ NoOrphanServer /\ ShownDownIsDown

\* Every step keeps the invariant: the lock admits one spawn or one forced stop,
\* and the state follows the run whose handle the manager holds.
LEMMA InvStep ==
  ASSUME PipeMayLinger = FALSE, Inv, [Next]_vars
  PROVE  Inv'
<1> Typed'
  BY TypeStep DEF Inv, Typed
<1> USE TransitionTakes, NamesAreDistinct
    DEF Inv, Typed, TypeOK, TargetsAreRuns, LockHeld, StateIsSet, OutputEnds,
        ReaderIsCurrent,
        SpawnIsAlone, SpawnedIsBorn, ForceIsCurrent, HandleIsBorn,
        StopIsCurrent, NoOrphanServer, ShownDownIsDown,
        Locked, Spawning, Drained,
        Tasks, ProcessState, Busy, tasks, manager, system, Goto, Return, Alive,
        Startable, Stoppable
<1>1. ASSUME NEW c \in Callers, NEW p \in Profiles, StartBegin(c, p) PROVE Inv'
  BY <1>1 DEF StartBegin, OldOutputDrained, Drained, Startable, Alive
<1>2. ASSUME NEW c \in Callers, SpawnFails(c) PROVE Inv'
  BY <1>2 DEF SpawnFails
<1>3. ASSUME NEW c \in Callers, NEW q \in Runs, Fork(c, q) PROVE Inv'
  BY <1>3 DEF Fork
<1>4. ASSUME NEW c \in Callers, SpawnReturns(c) PROVE Inv'
  BY <1>4 DEF SpawnReturns
<1>5. ASSUME NEW c \in Callers, StopBegin(c) PROVE Inv'
  BY <1>5 DEF StopBegin, AskToStop
<1>6. ASSUME NEW c \in Callers, StopTimeout(c) PROVE Inv'
  BY <1>6 DEF StopTimeout
<1>7. ASSUME NEW c \in Callers, ForceBegin(c) PROVE Inv'
  BY <1>7 DEF ForceBegin, SendTerm, ForceAllowed
<1>8. ASSUME NEW c \in Callers, Cancel(c) PROVE Inv'
  <2>1. CASE pc[c] \in Spawning
    BY <1>8, <2>1 DEF Cancel
  <2>2. CASE pc[c] = "stop_reader"
    BY <1>8, <2>2 DEF Cancel
  <2>3. CASE pc[c] \in {"idle", "stop_wait"}
    BY <1>8, <2>3 DEF Cancel
  <2> QED
    BY <1>8, <2>1, <2>2, <2>3 DEF Cancel
<1>9. ASSUME NEW t \in Tasks, StopExited(t) PROVE Inv'
  BY <1>9 DEF StopExited
<1>10. ASSUME NEW t \in Tasks, StopReturns(t) PROVE Inv'
  BY <1>10 DEF StopReturns
<1>11. ASSUME NEW t \in Tasks, ForceEscalates(t) PROVE Inv'
  BY <1>11 DEF ForceEscalates, ForceEnds
<1>12. ASSUME NEW t \in Tasks, ForceReturns(t) PROVE Inv'
  BY <1>12 DEF ForceReturns, ForceEnds, Drained
<1>13. ASSUME NEW q \in Runs, ReadDone(q) PROVE Inv'
  BY <1>13 DEF ReadDone, Publish
<1>14. ASSUME NEW q \in Runs, ReadLine(q) PROVE Inv'
  BY <1>14 DEF ReadLine, Publish
<1>15. ASSUME NEW q \in Runs, ReaderEnds(q) PROVE Inv'
  BY <1>15 DEF ReaderEnds, ExitVerdict, Drained
<1>16. ASSUME NEW q \in Runs, ServerReady(q) PROVE Inv'
  BY <1>16 DEF ServerReady
<1>17. ASSUME NEW q \in Runs, Exit(q) PROVE Inv'
  BY <1>17 DEF Exit
<1>18. ASSUME NEW q \in Runs, PipeCloses(q) PROVE Inv'
  BY <1>18 DEF PipeCloses
<1>19. ASSUME BeginShutdown PROVE Inv'
  BY <1>19 DEF BeginShutdown
<1>20. ASSUME CloseBegin PROVE Inv'
  BY <1>20 DEF CloseBegin, HandleAlive, AskToStop
<1>21. ASSUME CloseTimeout PROVE Inv'
  BY <1>21 DEF CloseTimeout, SendTerm, ForceAllowed
<1>22. ASSUME CloseSeesExit PROVE Inv'
  BY <1>22 DEF CloseSeesExit
<1>23. ASSUME CloseReturns PROVE Inv'
  BY <1>23 DEF CloseReturns
<1>24. ASSUME UNCHANGED vars PROVE Inv'
  BY <1>24 DEF vars
<1> QED
  BY <1>1, <1>2, <1>3, <1>4, <1>5, <1>6, <1>7, <1>8, <1>9, <1>10, <1>11, <1>12, <1>13,
     <1>14, <1>15, <1>16, <1>17, <1>18, <1>19, <1>20, <1>21, <1>22, <1>23, <1>24
  DEF Next, CallerStep, TaskStep, RunStep, CloserStep

\* Where no child holds a pipe open, the invariant holds in every state.
LEMMA InvAlways == ASSUME PipeMayLinger = FALSE PROVE Spec => []Inv
<1>1. Init => Inv
  <2> SUFFICES ASSUME Init PROVE Inv
    OBVIOUS
  <2>1. Typed
    BY TypeInit
  <2>2. Alive = {}
    BY DEF Init, Alive
  <2> QED
    BY <2>1, <2>2, NamesAreDistinct DEF Init, Inv, Typed, LockHeld, StateIsSet,
       OutputEnds,
       ReaderIsCurrent, SpawnIsAlone, SpawnedIsBorn, ForceIsCurrent,
       HandleIsBorn, StopIsCurrent,
       NoOrphanServer,       ShownDownIsDown, Locked, Spawning
<1>2. Inv /\ [Next]_vars => Inv'
  BY InvStep
<1> QED
  BY <1>1, <1>2, PTL DEF Spec

\* With the lock free, a live server is the one the manager holds.
LEMMA HeldOrSpawned ==
  ASSUME Inv
  PROVE  /\ OneLiveServer
         /\ lock = NoTask => Alive \subseteq {process}
         /\ \A t \in Tasks : pc[t] = "spawning" => Alive = {}
         /\ \A t \in Tasks : pc[t] \in {"term_wait", "kill_wait"} => Alive \subseteq {process}
         /\ \A r \in Runs : reader[r] = "reading" => Alive \subseteq {r}
  BY NamesAreDistinct DEF Inv, TypeOK, OneLiveServer, NoOrphanServer, LockHeld,
     SpawnIsAlone, ReaderIsCurrent, Locked,
     Spawning, Alive, Tasks

\* No race of starts, stops, retries and schedules ever runs two servers.
THEOREM AtMostOneServer == ASSUME PipeMayLinger = FALSE PROVE Spec => []OneLiveServer
  BY InvAlways, HeldOrSpawned, PTL

\* A display that permits a new start means that no server is left.
THEOREM DownMeansGone == ASSUME PipeMayLinger = FALSE PROVE Spec => []ShownDownIsDown
<1>1. Inv => ShownDownIsDown
  BY DEF Inv
<1> QED
  BY <1>1, InvAlways, PTL

\* The manager never loses track of a server it launched.
THEOREM EveryServerIsHeld == ASSUME PipeMayLinger = FALSE PROVE Spec => []NoOrphanServer
<1>1. Inv => NoOrphanServer
  BY DEF Inv
<1> QED
  BY <1>1, InvAlways, PTL

-----------------------------------------------------------------------------
(* What was asked of the server before the display says it is stopping, and *)
(* before anything signals it.                                              *)

ForcedWereAsked ==
  \A t \in Tasks : pc[t] = "term_wait" => target[t] \in asked

AskInv == StopReachesTheLiveServer /\ ForcedWereAsked

\* Every step keeps it true that a signal follows a request to stop.
LEMMA AskStep ==
  ASSUME Inv, AskInv, [Next]_vars
  PROVE  AskInv' /\ (\A r \in Runs : sig'[r] # sig[r] => r \in asked)
<1> DEFINE Goal == AskInv' /\ \A r \in Runs : sig'[r] # sig[r] => r \in asked
<1> USE TransitionTakes, HeldOrSpawned, NamesAreDistinct
    DEF Inv, AskInv, TypeOK, TargetsAreRuns, LockHeld, SpawnIsAlone, ForceIsCurrent,
        HandleIsBorn,
        StopReachesTheLiveServer, ForcedWereAsked, ShownDownIsDown, Locked,
        Spawning, Tasks, ProcessState,
        Busy, tasks, manager, system, Goto, Return, Alive, Startable, Stoppable
<1>1. ASSUME NEW c \in Callers, NEW p \in Profiles, StartBegin(c, p) PROVE Goal
  BY <1>1 DEF StartBegin, OldOutputDrained, Drained, Startable, Alive
<1>2. ASSUME NEW c \in Callers, SpawnFails(c) PROVE Goal
  BY <1>2 DEF SpawnFails
<1>3. ASSUME NEW c \in Callers, NEW q \in Runs, Fork(c, q) PROVE Goal
  BY <1>3 DEF Fork
<1>4. ASSUME NEW c \in Callers, SpawnReturns(c) PROVE Goal
  BY <1>4 DEF SpawnReturns
<1>5. ASSUME NEW c \in Callers, StopBegin(c) PROVE Goal
  BY <1>5 DEF StopBegin, AskToStop
<1>6. ASSUME NEW c \in Callers, StopTimeout(c) PROVE Goal
  BY <1>6 DEF StopTimeout
<1>7. ASSUME NEW c \in Callers, ForceBegin(c) PROVE Goal
  BY <1>7 DEF ForceBegin, SendTerm, ForceAllowed
<1>8. ASSUME NEW c \in Callers, Cancel(c) PROVE Goal
  BY <1>8 DEF Cancel
<1>9. ASSUME NEW t \in Tasks, StopExited(t) PROVE Goal
  BY <1>9 DEF StopExited
<1>10. ASSUME NEW t \in Tasks, StopReturns(t) PROVE Goal
  BY <1>10 DEF StopReturns
<1>11. ASSUME NEW t \in Tasks, ForceEscalates(t) PROVE Goal
  BY <1>11 DEF ForceEscalates, ForceEnds
<1>12. ASSUME NEW t \in Tasks, ForceReturns(t) PROVE Goal
  BY <1>12 DEF ForceReturns, ForceEnds, Drained
<1>13. ASSUME NEW q \in Runs, ReadDone(q) PROVE Goal
  BY <1>13 DEF ReadDone, Publish
<1>14. ASSUME NEW q \in Runs, ReadLine(q) PROVE Goal
  BY <1>14 DEF ReadLine, Publish
<1>15. ASSUME NEW q \in Runs, ReaderEnds(q) PROVE Goal
  BY <1>15 DEF ReaderEnds, ExitVerdict, Drained
<1>16. ASSUME NEW q \in Runs, ServerReady(q) PROVE Goal
  BY <1>16 DEF ServerReady
<1>17. ASSUME NEW q \in Runs, Exit(q) PROVE Goal
  BY <1>17 DEF Exit
<1>18. ASSUME NEW q \in Runs, PipeCloses(q) PROVE Goal
  BY <1>18 DEF PipeCloses
<1>19. ASSUME BeginShutdown PROVE Goal
  BY <1>19 DEF BeginShutdown
<1>20. ASSUME CloseBegin PROVE Goal
  <2>1. Alive \subseteq {process}
    <3>1. lock = NoTask
      BY <1>20 DEF CloseBegin
    <3> QED
      BY <3>1
  <2>2. CASE AskToStop(Closer)
    BY <1>20, <2>1, <2>2 DEF CloseBegin, HandleAlive, AskToStop
  <2>3. CASE UNCHANGED <<manager, system>>
    <3>1. \A t \in Tasks : pc'[t] = "term_wait" => pc[t] = "term_wait" /\ target'[t] = target[t]
      BY <1>20, <2>3 DEF CloseBegin, AskToStop
    <3> QED
      BY <2>3, <3>1
  <2>4. ~(HandleAlive /\ state \notin Stoppable \union {"STOPPING"})
    BY DEF HandleAlive, StateIsSet
  <2> QED
    BY <1>20, <2>2, <2>3, <2>4 DEF CloseBegin
<1>21. ASSUME CloseTimeout PROVE Goal
  BY <1>21 DEF CloseTimeout, SendTerm, ForceAllowed
<1>22. ASSUME CloseSeesExit PROVE Goal
  BY <1>22 DEF CloseSeesExit
<1>23. ASSUME CloseReturns PROVE Goal
  BY <1>23 DEF CloseReturns
<1>24. ASSUME UNCHANGED vars PROVE Goal
  BY <1>24 DEF vars
<1> QED
  BY <1>1, <1>2, <1>3, <1>4, <1>5, <1>6, <1>7, <1>8, <1>9, <1>10, <1>11, <1>12,
     <1>13, <1>14, <1>15, <1>16, <1>17, <1>18, <1>19, <1>20, <1>21, <1>22, <1>23, <1>24
  DEF Next, CallerStep, TaskStep, RunStep, CloserStep

\* A signalled run was always asked first.
LEMMA AskAlways == ASSUME PipeMayLinger = FALSE PROVE Spec => []AskInv
<1>1. Init => AskInv
  BY DEF Init, AskInv, StopReachesTheLiveServer, ForcedWereAsked
<1>2. Inv /\ AskInv /\ [Next]_vars => AskInv'
  BY AskStep
<1> QED
  BY <1>1, <1>2, InvAlways, PTL DEF Spec

\* A stop in progress was asked of the very server that is alive.
THEOREM StopIsHeard == ASSUME PipeMayLinger = FALSE PROVE Spec => []StopReachesTheLiveServer
<1>1. AskInv => StopReachesTheLiveServer
  BY DEF AskInv
<1> QED
  BY <1>1, AskAlways, PTL

\* Nothing is terminated or killed that was not told to stop first.
THEOREM ForceIsLastResort == ASSUME PipeMayLinger = FALSE PROVE Spec => ForceOnlyAfterAsking
<1>1. Inv /\ AskInv /\ [Next]_vars => [\A r \in Runs : sig'[r] # sig[r] => r \in asked]_vars
  BY AskStep
<1> QED
  BY <1>1, InvAlways, AskAlways, PTL DEF Spec, ForceOnlyAfterAsking

-----------------------------------------------------------------------------
(* Shutdown: when close() runs the callers are gone, so it works on the     *)
(* last process there will ever be.                                         *)

CloserIsLast ==
  /\ pc[Closer] # "idle" => \A c \in Callers : pc[c] = "gone"
  /\ pc[Closer] \in {"stop_wait", "close_wait", "close_kill"} => target[Closer] = process
  /\ pc[Closer] \in {"stop_wait", "close_wait"} =>
       state = "STOPPING" \/ os[process] = "exited"
  /\ pc[Closer] \in {"stop_reader", "gather", "closed"} => Alive = {}

\* Every step keeps it true that nothing can be launched behind close().
LEMMA CloseStep ==
  ASSUME PipeMayLinger = FALSE, Inv, CloserIsLast, [Next]_vars
  PROVE  CloserIsLast'
<1> USE TransitionTakes, HeldOrSpawned, NamesAreDistinct
    DEF Inv, CloserIsLast, TypeOK, TargetsAreRuns, LockHeld, OutputEnds,
        SpawnIsAlone, ForceIsCurrent,
        HandleIsBorn, StopIsCurrent, ShownDownIsDown, Locked, Spawning, Drained,
        Tasks, ProcessState, Busy, tasks,
        manager, system, Goto, Return, Alive, Startable, Stoppable
<1>1. ASSUME NEW c \in Callers, NEW p \in Profiles, StartBegin(c, p) PROVE CloserIsLast'
  BY <1>1 DEF StartBegin, OldOutputDrained
<1>2. ASSUME NEW c \in Callers, SpawnFails(c) PROVE CloserIsLast'
  BY <1>2 DEF SpawnFails
<1>3. ASSUME NEW c \in Callers, NEW q \in Runs, Fork(c, q) PROVE CloserIsLast'
  BY <1>3 DEF Fork
<1>4. ASSUME NEW c \in Callers, SpawnReturns(c) PROVE CloserIsLast'
  BY <1>4 DEF SpawnReturns
<1>5. ASSUME NEW c \in Callers, StopBegin(c) PROVE CloserIsLast'
  BY <1>5 DEF StopBegin, AskToStop
<1>6. ASSUME NEW c \in Callers, StopTimeout(c) PROVE CloserIsLast'
  BY <1>6 DEF StopTimeout
<1>7. ASSUME NEW c \in Callers, ForceBegin(c) PROVE CloserIsLast'
  BY <1>7 DEF ForceBegin, SendTerm, ForceAllowed
<1>8. ASSUME NEW c \in Callers, Cancel(c) PROVE CloserIsLast'
  BY <1>8 DEF Cancel
<1>9. ASSUME NEW t \in Tasks, StopExited(t) PROVE CloserIsLast'
  BY <1>9 DEF StopExited
<1>10. ASSUME NEW t \in Tasks, StopReturns(t) PROVE CloserIsLast'
  BY <1>10 DEF StopReturns
<1>11. ASSUME NEW t \in Tasks, ForceEscalates(t) PROVE CloserIsLast'
  BY <1>11 DEF ForceEscalates, ForceEnds
<1>12. ASSUME NEW t \in Tasks, ForceReturns(t) PROVE CloserIsLast'
  <2>1. Alive = {}
    BY <1>12 DEF ForceReturns
  <2>2. UNCHANGED os
    BY <1>12 DEF ForceReturns, ForceEnds
  <2>3. CASE t = Closer
    BY <1>12, <2>1, <2>2, <2>3 DEF ForceReturns, ForceEnds
  <2>4. CASE t # Closer
    BY <1>12, <2>4 DEF ForceReturns, ForceEnds
  <2> QED
    BY <2>3, <2>4
<1>13. ASSUME NEW q \in Runs, ReadDone(q) PROVE CloserIsLast'
  BY <1>13 DEF ReadDone, Publish
<1>14. ASSUME NEW q \in Runs, ReadLine(q) PROVE CloserIsLast'
  BY <1>14 DEF ReadLine, Publish
<1>15. ASSUME NEW q \in Runs, ReaderEnds(q) PROVE CloserIsLast'
  <2>1. UNCHANGED <<os, process, pc, target>>
    BY <1>15 DEF ReaderEnds
  <2>2. os[process] = "exited"
    BY <1>15 DEF ReaderEnds, ReaderIsCurrent
  <2> QED
    BY <2>1, <2>2
<1>16. ASSUME NEW q \in Runs, ServerReady(q) PROVE CloserIsLast'
  BY <1>16 DEF ServerReady
<1>17. ASSUME NEW q \in Runs, Exit(q) PROVE CloserIsLast'
  BY <1>17 DEF Exit
<1>18. ASSUME NEW q \in Runs, PipeCloses(q) PROVE CloserIsLast'
  BY <1>18 DEF PipeCloses
<1>19. ASSUME BeginShutdown PROVE CloserIsLast'
  BY <1>19 DEF BeginShutdown
<1>20. ASSUME CloseBegin PROVE CloserIsLast'
  BY <1>20 DEF CloseBegin, HandleAlive, AskToStop
<1>21. ASSUME CloseTimeout PROVE CloserIsLast'
  BY <1>21 DEF CloseTimeout, SendTerm, ForceAllowed
<1>22. ASSUME CloseSeesExit PROVE CloserIsLast'
  BY <1>22 DEF CloseSeesExit
<1>23. ASSUME CloseReturns PROVE CloserIsLast'
  BY <1>23 DEF CloseReturns
<1>24. ASSUME UNCHANGED vars PROVE CloserIsLast'
  BY <1>24 DEF vars
<1> QED
  BY <1>1, <1>2, <1>3, <1>4, <1>5, <1>6, <1>7, <1>8, <1>9, <1>10, <1>11, <1>12,
     <1>13, <1>14, <1>15, <1>16, <1>17, <1>18, <1>19, <1>20, <1>21, <1>22, <1>23, <1>24
  DEF Next, CallerStep, TaskStep, RunStep, CloserStep

\* When close() has returned nothing the manager launched is still running.
THEOREM CloseLeavesNothing ==
  ASSUME PipeMayLinger = FALSE
  PROVE  Spec => []NothingSurvivesClose
<1>1. Init => CloserIsLast
  BY DEF Init, CloserIsLast, Tasks
<1>2. Inv /\ CloserIsLast /\ [Next]_vars => CloserIsLast'
  BY CloseStep
<1>3. CloserIsLast => NothingSurvivesClose
  BY DEF CloserIsLast, NothingSurvivesClose
<1> QED
  BY <1>1, <1>2, <1>3, InvAlways, PTL DEF Spec

-----------------------------------------------------------------------------
(* The profile a line is published under.                                   *)

OwnersMatch ==
  /\ \A r \in Runs : reader[r] = "reading" => spawnedFor[r] = owner
  /\ \A t \in Tasks : pc[t] = "spawned" => spawnedFor[target[t]] = owner
  /\ \A l \in lines : os[l[1]] # "unborn"
  /\ LinesNameTheirProfile

\* Every step files a run's lines under the profile it was launched for.
LEMMA OwnersStep ==
  ASSUME PipeMayLinger = FALSE, Inv, OwnersMatch, [Next]_vars
  PROVE  OwnersMatch'
<1> USE NamesAreDistinct
    DEF Inv, OwnersMatch, LinesNameTheirProfile, TypeOK, TargetsAreRuns, LockHeld,
        OutputEnds, ReaderIsCurrent,
        SpawnIsAlone, SpawnedIsBorn, ShownDownIsDown, Locked, Spawning, Drained,
        Tasks, Busy, tasks, manager,
        system, Goto, Return, Alive, Startable
<1>1. ASSUME NEW c \in Callers, NEW p \in Profiles, StartBegin(c, p) PROVE OwnersMatch'
  BY <1>1 DEF StartBegin, OldOutputDrained
<1>2. ASSUME NEW c \in Callers, SpawnFails(c) PROVE OwnersMatch'
  BY <1>2 DEF SpawnFails
<1>3. ASSUME NEW c \in Callers, NEW q \in Runs, Fork(c, q) PROVE OwnersMatch'
  BY <1>3 DEF Fork
<1>4. ASSUME NEW c \in Callers, SpawnReturns(c) PROVE OwnersMatch'
  BY <1>4 DEF SpawnReturns
<1>5. ASSUME NEW c \in Callers, StopBegin(c) PROVE OwnersMatch'
  BY <1>5 DEF StopBegin, AskToStop
<1>6. ASSUME NEW c \in Callers, StopTimeout(c) PROVE OwnersMatch'
  BY <1>6 DEF StopTimeout
<1>7. ASSUME NEW c \in Callers, ForceBegin(c) PROVE OwnersMatch'
  BY <1>7 DEF ForceBegin, SendTerm, ForceAllowed
<1>8. ASSUME NEW c \in Callers, Cancel(c) PROVE OwnersMatch'
  BY <1>8 DEF Cancel
<1>9. ASSUME NEW t \in Tasks, StopExited(t) PROVE OwnersMatch'
  BY <1>9 DEF StopExited
<1>10. ASSUME NEW t \in Tasks, StopReturns(t) PROVE OwnersMatch'
  BY <1>10 DEF StopReturns
<1>11. ASSUME NEW t \in Tasks, ForceEscalates(t) PROVE OwnersMatch'
  BY <1>11 DEF ForceEscalates, ForceEnds
<1>12. ASSUME NEW t \in Tasks, ForceReturns(t) PROVE OwnersMatch'
  BY <1>12 DEF ForceReturns, ForceEnds
<1>13. ASSUME NEW q \in Runs, ReadDone(q) PROVE OwnersMatch'
  BY <1>13 DEF ReadDone, Publish
<1>14. ASSUME NEW q \in Runs, ReadLine(q) PROVE OwnersMatch'
  BY <1>14 DEF ReadLine, Publish
<1>15. ASSUME NEW q \in Runs, ReaderEnds(q) PROVE OwnersMatch'
  BY <1>15 DEF ReaderEnds, ExitVerdict
<1>16. ASSUME NEW q \in Runs, ServerReady(q) PROVE OwnersMatch'
  BY <1>16 DEF ServerReady
<1>17. ASSUME NEW q \in Runs, Exit(q) PROVE OwnersMatch'
  BY <1>17 DEF Exit
<1>18. ASSUME NEW q \in Runs, PipeCloses(q) PROVE OwnersMatch'
  BY <1>18 DEF PipeCloses
<1>19. ASSUME BeginShutdown PROVE OwnersMatch'
  BY <1>19 DEF BeginShutdown
<1>20. ASSUME CloseBegin PROVE OwnersMatch'
  BY <1>20 DEF CloseBegin, HandleAlive, AskToStop
<1>21. ASSUME CloseTimeout PROVE OwnersMatch'
  BY <1>21 DEF CloseTimeout, SendTerm, ForceAllowed
<1>22. ASSUME CloseSeesExit PROVE OwnersMatch'
  BY <1>22 DEF CloseSeesExit
<1>23. ASSUME CloseReturns PROVE OwnersMatch'
  BY <1>23 DEF CloseReturns
<1>24. ASSUME UNCHANGED vars PROVE OwnersMatch'
  BY <1>24 DEF vars
<1> QED
  BY <1>1, <1>2, <1>3, <1>4, <1>5, <1>6, <1>7, <1>8, <1>9, <1>10, <1>11, <1>12,
     <1>13, <1>14, <1>15, <1>16, <1>17, <1>18, <1>19, <1>20, <1>21, <1>22, <1>23, <1>24
  DEF Next, CallerStep, TaskStep, RunStep, CloserStep

\* A console line is filed under the profile whose server printed it.
THEOREM LinesAreFiledRight ==
  ASSUME PipeMayLinger = FALSE
  PROVE  Spec => []LinesNameTheirProfile
<1>1. Init => OwnersMatch
  BY DEF Init, OwnersMatch, LinesNameTheirProfile
<1>2. Inv /\ OwnersMatch /\ [Next]_vars => OwnersMatch'
  BY OwnersStep
<1>3. OwnersMatch => LinesNameTheirProfile
  BY DEF OwnersMatch
<1> QED
  BY <1>1, <1>2, <1>3, InvAlways, PTL DEF Spec

-----------------------------------------------------------------------------
(* Refinement of ServerPromise.                                             *)

\* Every step of the manager is a step, or a stutter, of ServerPromise.
LEMMA PromiseStep ==
  ASSUME PipeMayLinger = FALSE, Inv, [Next]_vars
  PROVE  [Promise!Next]_(Promise!vars)
<1> USE TransitionTakes, HeldOrSpawned, NamesAreDistinct
    DEF Inv, TypeOK, TargetsAreRuns, LockHeld, StateIsSet, OutputEnds,
        ReaderIsCurrent, SpawnIsAlone,
        SpawnedIsBorn, ForceIsCurrent, HandleIsBorn, StopIsCurrent,
        ShownDownIsDown, OneLiveServer, Locked, Spawning, Drained,
        Tasks, ProcessState, Busy, tasks, manager, system, Goto, Return, Alive,
        Startable, Stoppable,
        Phase, Promise!vars, Promise!Next, Promise!Start, Promise!Launch,
        Promise!Ready, Promise!Stop,
        Promise!Die, Promise!GoDown
<1>1. ASSUME NEW c \in Callers, NEW p \in Profiles, StartBegin(c, p) PROVE [Promise!Next]_(Promise!vars)
  BY <1>1 DEF StartBegin, OldOutputDrained
<1>2. ASSUME NEW c \in Callers, SpawnFails(c) PROVE [Promise!Next]_(Promise!vars)
  BY <1>2 DEF SpawnFails
<1>3. ASSUME NEW c \in Callers, NEW q \in Runs, Fork(c, q) PROVE [Promise!Next]_(Promise!vars)
  BY <1>3 DEF Fork
<1>4. ASSUME NEW c \in Callers, SpawnReturns(c) PROVE [Promise!Next]_(Promise!vars)
  BY <1>4 DEF SpawnReturns
<1>5. ASSUME NEW c \in Callers, StopBegin(c) PROVE [Promise!Next]_(Promise!vars)
  BY <1>5 DEF StopBegin, AskToStop
<1>6. ASSUME NEW c \in Callers, StopTimeout(c) PROVE [Promise!Next]_(Promise!vars)
  BY <1>6 DEF StopTimeout
<1>7. ASSUME NEW c \in Callers, ForceBegin(c) PROVE [Promise!Next]_(Promise!vars)
  BY <1>7 DEF ForceBegin, SendTerm, ForceAllowed
<1>8. ASSUME NEW c \in Callers, Cancel(c) PROVE [Promise!Next]_(Promise!vars)
  BY <1>8 DEF Cancel
<1>9. ASSUME NEW t \in Tasks, StopExited(t) PROVE [Promise!Next]_(Promise!vars)
  BY <1>9 DEF StopExited
<1>10. ASSUME NEW t \in Tasks, StopReturns(t) PROVE [Promise!Next]_(Promise!vars)
  BY <1>10 DEF StopReturns
<1>11. ASSUME NEW t \in Tasks, ForceEscalates(t) PROVE [Promise!Next]_(Promise!vars)
  BY <1>11 DEF ForceEscalates, ForceEnds
<1>12. ASSUME NEW t \in Tasks, ForceReturns(t) PROVE [Promise!Next]_(Promise!vars)
  <2>1. Alive = {}
    BY <1>12 DEF ForceReturns
  <2>2. UNCHANGED os
    BY <1>12 DEF ForceReturns, ForceEnds
  <2>3. \/ state' = state
        \/ state = "STOPPING" /\ state' = "STOPPED"
    BY <1>12 DEF ForceReturns, ForceEnds
  <2> QED
    BY <2>1, <2>2, <2>3
<1>13. ASSUME NEW q \in Runs, ReadDone(q) PROVE [Promise!Next]_(Promise!vars)
  BY <1>13 DEF ReadDone, Publish
<1>14. ASSUME NEW q \in Runs, ReadLine(q) PROVE [Promise!Next]_(Promise!vars)
  BY <1>14 DEF ReadLine, Publish
<1>15. ASSUME NEW q \in Runs, ReaderEnds(q) PROVE [Promise!Next]_(Promise!vars)
  <2>1. Alive = {}
    BY <1>15 DEF ReaderEnds
  <2>2. /\ UNCHANGED os
        /\ \/ state' = state
           \/ /\ state \in {"STARTING", "RUNNING", "STOPPING"}
              /\ state' \in {"STOPPED", "CRASHED"}
    BY <1>15 DEF ReaderEnds, ExitVerdict
  <2> QED
    BY <2>1, <2>2
<1>16. ASSUME NEW q \in Runs, ServerReady(q) PROVE [Promise!Next]_(Promise!vars)
  BY <1>16 DEF ServerReady
<1>17. ASSUME NEW q \in Runs, Exit(q) PROVE [Promise!Next]_(Promise!vars)
  BY <1>17 DEF Exit
<1>18. ASSUME NEW q \in Runs, PipeCloses(q) PROVE [Promise!Next]_(Promise!vars)
  BY <1>18 DEF PipeCloses
<1>19. ASSUME BeginShutdown PROVE [Promise!Next]_(Promise!vars)
  BY <1>19 DEF BeginShutdown
<1>20. ASSUME CloseBegin PROVE [Promise!Next]_(Promise!vars)
  BY <1>20 DEF CloseBegin, HandleAlive, AskToStop
<1>21. ASSUME CloseTimeout PROVE [Promise!Next]_(Promise!vars)
  BY <1>21 DEF CloseTimeout, SendTerm, ForceAllowed
<1>22. ASSUME CloseSeesExit PROVE [Promise!Next]_(Promise!vars)
  BY <1>22 DEF CloseSeesExit
<1>23. ASSUME CloseReturns PROVE [Promise!Next]_(Promise!vars)
  BY <1>23 DEF CloseReturns
<1>24. ASSUME UNCHANGED vars PROVE [Promise!Next]_(Promise!vars)
  BY <1>24 DEF vars
<1> QED
  BY <1>1, <1>2, <1>3, <1>4, <1>5, <1>6, <1>7, <1>8, <1>9, <1>10, <1>11, <1>12,
     <1>13, <1>14, <1>15, <1>16, <1>17, <1>18, <1>19, <1>20, <1>21, <1>22, <1>23, <1>24
  DEF Next, CallerStep, TaskStep, RunStep, CloserStep

\* ProcessManager implements ServerPromise.
THEOREM PromiseKept == ASSUME PipeMayLinger = FALSE PROVE Spec => KeepsPromise
<1>1. Init => Promise!Init
  BY DEF Init, Promise!Init, Phase, Alive, ProcessState
<1>2. Inv /\ [Next]_vars => [Promise!Next]_(Promise!vars)
  BY PromiseStep
<1> QED
  BY <1>1, <1>2, InvAlways, PTL DEF Spec, KeepsPromise, Promise!Spec

=============================================================================
