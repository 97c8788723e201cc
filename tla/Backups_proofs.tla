---------------------------- MODULE Backups_proofs ----------------------------
(***************************************************************************)
(* Proofs about Backups for any number of profiles, tasks, records,        *)
(* launches, failures and crashes.                                          *)
(***************************************************************************)
EXTENDS Backups, TLAPS

LEMMA Bounds ==
  /\ MaxBackups \in Nat /\ MaxLaunches \in Nat /\ MaxFailures \in Nat /\ MaxCrashes \in Nat
  /\ NoProfile \notin Profiles
BY BackupAssumptions DEF BackupAssumptions

LEMMA RestingOK == Resting \in TaskStates /\ Resting.pc = "idle"
BY Bounds DEF Resting, TaskStates, Ops, Places, Up

\* However a task goes on, the tasks stay well formed.
LEMMA TaskOK ==
  ASSUME TasksOK, NEW t \in Tasks, NEW s \in TaskStates, s.pc = "idle" => s = Resting,
         task' = [task EXCEPT ![t] = s]
  PROVE  TasksOK'
<1>1. task' \in [Tasks -> TaskStates]
  BY DEF TasksOK
<1>2. ASSUME NEW u \in Tasks PROVE task'[u].pc = "idle" <=> task'[u] = Resting
  BY RestingOK DEF TasksOK
<1> QED
  BY <1>1, <1>2 DEF TasksOK

LEMMA GoOK ==
  ASSUME TasksOK, NEW t \in Tasks, NEW pc \in Places \ {"idle"}, Go(t, pc)
  PROVE  TasksOK'
<1> DEFINE s == [task[t] EXCEPT !.pc = pc]
<1>1. s \in TaskStates /\ s.pc = pc
  BY DEF TasksOK, TaskStates
<1>2. task' = [task EXCEPT ![t] = s]
  BY DEF Go
<1> HIDE DEF s
<1> QED
  BY <1>1, <1>2, TaskOK

LEMMA FailOK ==
  ASSUME TasksOK, NEW t \in Tasks, NEW pc \in Places \ {"idle"}, Fail(t, pc)
  PROVE  TasksOK'
<1> DEFINE s == [task[t] EXCEPT !.pc = pc, !.ok = FALSE]
<1>1. s \in TaskStates /\ s.pc = pc
  BY DEF TasksOK, TaskStates
<1>2. task' = [task EXCEPT ![t] = s]
  BY DEF Fail
<1> HIDE DEF s
<1> QED
  BY <1>1, <1>2, TaskOK

LEMMA RestOK ==
  ASSUME TasksOK, NEW t \in Tasks, Rest(t)
  PROVE  TasksOK'
BY RestingOK, TaskOK DEF Rest

LEMMA TypeInit == Init => TypeOK
<1> SUFFICES ASSUME Init PROVE TypeOK
  OBVIOUS
<1>1. server \in ServerStates
  BY Bounds DEF Init, Down, ServerStates, Up
<1>2. TasksOK
  BY Bounds DEF Init, TasksOK, TaskStates, Resting, Ops, Places, Up
<1>3. RecordsOK
  BY Bounds DEF Init, RecordsOK, Stories
<1>4. policy \in [profile : Profiles \union {NoProfile}, victims : SUBSET Records,
                 gone : SUBSET Records]
  BY DEF Init, NoPolicy
<1>5. files \in [Records -> SUBSET Whole]
  BY DEF Init
<1>6. lost \in BOOLEAN
  BY DEF Init
<1>7. failures \in 0..MaxFailures /\ crashes \in 0..MaxCrashes
  BY Bounds DEF Init
<1> QED
  BY <1>1, <1>2, <1>3, <1>4, <1>5, <1>6, <1>7 DEF TypeOK

LEMMA NewRecordOK ==
  ASSUME TypeOK, NEW p \in Profiles \union {NoProfile}, NEW by \in {"owner", "scheduler"},
         NEW at \in 0..(MaxBackups + 1), NewRecord(p, by, at)
  PROVE  RecordsOK'
BY Bounds DEF TypeOK, RecordsOK, NewRecord, Records, Stories

LEMMA UnlinkedOK ==
  ASSUME TypeOK, NEW gone, NEW stuck, files' = Unlinked(gone, stuck)
  PROVE  files' \in [Records -> SUBSET Whole]
BY DEF TypeOK, Unlinked

LEMMA TypeStep == TypeOK /\ [Next]_vars => TypeOK'
<1> SUFFICES ASSUME TypeOK, [Next]_vars PROVE TypeOK'
  OBVIOUS
<1> USE Bounds
<1>1. ASSUME NEW t \in Tasks, NEW p \in Profiles, CreateBegins(t, p) PROVE TypeOK'
  <2>1. RecordsOK'
    <3>1. created + 1 \in 0..(MaxBackups + 1)
      BY DEF TypeOK, RecordsOK
    <3> QED
      BY <1>1, <3>1, NewRecordOK DEF CreateBegins
  <2>2. TasksOK'
    <3> DEFINE phase == IF server.owner = p THEN server.phase ELSE "down"
               s == [Resting EXCEPT !.op = "create", !.profile = p, !.rec = created + 1,
                       !.pc = CASE phase = "running" -> "flush"
                                [] phase = "starting" -> "commit"
                                [] OTHER -> "archive",
                       !.ok = phase # "starting", !.paused = (phase = "running")]
    <3>1. task' = [task EXCEPT ![t] = s]
      BY <1>1 DEF CreateBegins
    <3>2. created + 1 \in 0..MaxBackups
      BY <1>1 DEF CreateBegins, NewRecord, TypeOK, RecordsOK
    <3>3. s \in TaskStates /\ s.pc # "idle"
      BY <3>2, RestingOK DEF Resting, TaskStates, Ops, Places
    <3> HIDE DEF s
    <3> QED
      BY <3>1, <3>3, TaskOK DEF TypeOK
  <2>3. server' \in ServerStates
    BY <1>1 DEF CreateBegins, TypeOK, ServerStates
  <2> QED
    BY <1>1, <2>1, <2>2, <2>3 DEF CreateBegins, TypeOK, bounds
<1>2. ASSUME NEW t \in Tasks, Flushed(t) PROVE TypeOK'
  <2>1. TasksOK'
    BY <1>2, GoOK DEF Flushed, TypeOK, Places
  <2> QED
    BY <1>2, <2>1 DEF Flushed, TypeOK, records, RecordsOK, bounds
<1>3. ASSUME NEW t \in Tasks, ArchiveWritten(t) PROVE TypeOK'
  <2>1. TasksOK'
    BY <1>3, GoOK DEF ArchiveWritten, TypeOK, Places
  <2> QED
    BY <1>3, <2>1 DEF ArchiveWritten, TypeOK, records, RecordsOK, bounds, Whole
<1>4. ASSUME NEW t \in Tasks, ArchiveFails(t) PROVE TypeOK'
  <2>1. TasksOK'
    BY <1>4, FailOK DEF ArchiveFails, TypeOK, Places
  <2> QED
    BY <1>4, <2>1 DEF ArchiveFails, TypeOK, RecordsOK
<1>5. ASSUME NEW t \in Tasks, Unpause(t) PROVE TypeOK'
  <2>1. TasksOK'
    <3> DEFINE heard == task[t].paused /\ server.phase = "running"
               ok == task[t].ok /\ (task[t].paused => heard)
               s == IF task[t].op = "create"
                      THEN [task[t] EXCEPT !.pc = "commit", !.ok = ok, !.paused = FALSE]
                    ELSE IF ok THEN [task[t] EXCEPT !.pc = "stop", !.paused = FALSE] ELSE Resting
    <3>1. task' = [task EXCEPT ![t] = s]
      BY <1>5 DEF Unpause
    <3>2. task[t] \in TaskStates /\ ok \in BOOLEAN
      BY DEF TypeOK, TasksOK, TaskStates
    <3> HIDE DEF ok
    <3>3. s \in TaskStates /\ (s.pc = "idle" => s = Resting)
      <4>1. CASE task[t].op = "create"
        <5>1. s = [task[t] EXCEPT !.pc = "commit", !.ok = ok, !.paused = FALSE]
          BY <4>1
        <5> HIDE DEF s
        <5> QED
          BY <3>2, <5>1 DEF TaskStates, Places
      <4>2. CASE task[t].op # "create" /\ ok
        <5>1. s = [task[t] EXCEPT !.pc = "stop", !.paused = FALSE]
          BY <4>2
        <5> HIDE DEF s
        <5> QED
          BY <3>2, <5>1 DEF TaskStates, Places
      <4>3. CASE task[t].op # "create" /\ ~ok
        BY <4>3, RestingOK
      <4> QED
        BY <4>1, <4>2, <4>3
    <3> HIDE DEF s
    <3> QED
      BY <3>1, <3>3, TaskOK DEF TypeOK
  <2>2. server' \in ServerStates
    BY <1>5 DEF Unpause, TypeOK, TasksOK, TaskStates, ServerStates
  <2> QED
    BY <1>5, <2>1, <2>2 DEF Unpause, TypeOK, records, RecordsOK, bounds
<1>6. ASSUME NEW t \in Tasks, Commit(t) PROVE TypeOK'
  <2>1. TasksOK'
    BY <1>6, GoOK, RestOK DEF Commit, TypeOK, Places
  <2>2. CASE task[t].ok
    <3>1. PICK gone \in Expirable(Entries(task[t].profile, [status EXCEPT ![task[t].rec] = "completed"])),
               stuck \in SUBSET Records :
            /\ failures' = failures + (IF stuck = {} THEN 0 ELSE 1)
            /\ failures' <= MaxFailures
            /\ files' = Unlinked(gone \ stuck, stuck)
            /\ status' = [m \in Records |-> IF m \in gone \ stuck THEN "expired"
                            ELSE [status EXCEPT ![task[t].rec] = "completed"][m]]
      BY <1>6, <2>2 DEF Commit, CompleteAndPrune
    <3>2. files' \in [Records -> SUBSET Whole]
      BY <3>1, UnlinkedOK
    <3>3. RecordsOK'
      BY <1>6, <3>1 DEF Commit, TypeOK, RecordsOK
    <3>4. failures' \in 0..MaxFailures
      BY <3>1 DEF TypeOK
    <3> QED
      BY <1>6, <2>1, <3>2, <3>3, <3>4 DEF Commit, TypeOK
  <2>3. CASE ~task[t].ok
    BY <1>6, <2>1, <2>3 DEF Commit, TypeOK, RecordsOK
  <2> QED
    BY <2>2, <2>3
<1>7. ASSUME NEW t \in Tasks, CommitFails(t) PROVE TypeOK'
  <2>1. TasksOK'
    BY <1>7, FailOK, RestOK DEF CommitFails, TypeOK, Places
  <2>2. files' \in [Records -> SUBSET Whole]
    BY <1>7, UnlinkedOK DEF CommitFails
  <2> QED
    BY <1>7, <2>1, <2>2 DEF CommitFails, TypeOK, records, RecordsOK
<1>8. ASSUME NEW t \in Tasks, StopBegins(t) PROVE TypeOK'
  <2>1. TasksOK'
    <3> DEFINE s == [Resting EXCEPT !.op = "stop", !.pc = "flush", !.profile = server.owner,
                       !.launch = server.launch, !.backup = TRUE, !.paused = TRUE,
                       !.at = created + 1]
    <3>1. task' = [task EXCEPT ![t] = s]
      BY <1>8 DEF StopBegins
    <3>2. created + 1 \in 0..(MaxBackups + 1)
      BY DEF TypeOK, RecordsOK
    <3>3. s \in TaskStates /\ s.pc # "idle"
      BY <3>2, RestingOK DEF Resting, TaskStates, Ops, Places, TypeOK, ServerStates
    <3> HIDE DEF s
    <3> QED
      BY <3>1, <3>3, TaskOK DEF TypeOK
  <2> QED
    BY <1>8, <2>1 DEF StopBegins, TypeOK, ServerStates, records, RecordsOK, bounds
<1>9. ASSUME NEW t \in Tasks, NEW p \in Profiles, NEW backup \in BOOLEAN,
             MaintainBegins(t, p, backup)
      PROVE  TypeOK'
  <2>1. TasksOK'
    <3> DEFINE s == [Resting EXCEPT !.op = "maintain", !.pc = "probe", !.profile = p,
                       !.launch = server.launch, !.looked = server.phase, !.backup = backup,
                       !.at = created + 1]
    <3>1. task' = [task EXCEPT ![t] = s] /\ server.phase \in Up
      BY <1>9 DEF MaintainBegins
    <3>2. created + 1 \in 0..(MaxBackups + 1)
      BY DEF TypeOK, RecordsOK
    <3>3. s \in TaskStates /\ s.pc # "idle"
      BY <3>1, <3>2, RestingOK DEF Resting, TaskStates, Ops, Places, TypeOK, ServerStates
    <3> HIDE DEF s
    <3> QED
      BY <3>1, <3>3, TaskOK DEF TypeOK
  <2> QED
    BY <1>9, <2>1 DEF MaintainBegins, TypeOK, records, RecordsOK, bounds
<1>10. ASSUME NEW t \in Tasks, PlayersOnline(t) PROVE TypeOK'
  BY <1>10, RestOK DEF PlayersOnline, TypeOK, records, RecordsOK, bounds
<1>11. ASSUME NEW t \in Tasks, Announce(t) PROVE TypeOK'
  <2>1. TasksOK'
    <3>1. PICK s \in TaskStates : \/ s.pc # "idle" /\ task' = [task EXCEPT ![t] = s]
                                 \/ Rest(t)
      <4>1. task[t] \in TaskStates
        BY DEF TypeOK, TasksOK
      <4>2. CASE task[t].looked = "starting"
        <5> DEFINE s == [task[t] EXCEPT !.pc = IF task[t].backup THEN "queue" ELSE "stop",
                                        !.looked = "down"]
        <5>1. s \in TaskStates /\ s.pc # "idle"
          BY <4>1 DEF TaskStates, Places
        <5> QED
          BY <1>11, <4>2, <5>1 DEF Announce
      <4>3. CASE task[t].looked # "starting" /\ server.phase = "running"
        <5> DEFINE s == [task[t] EXCEPT !.pc = "flush", !.paused = task[t].backup,
                                        !.looked = "down"]
        <5>1. s \in TaskStates /\ s.pc # "idle"
          BY <4>1 DEF TaskStates, Places
        <5> QED
          BY <1>11, <4>3, <5>1 DEF Announce
      <4>4. CASE task[t].looked # "starting" /\ server.phase # "running"
        BY <1>11, <4>4, RestingOK DEF Announce
      <4> QED
        BY <4>2, <4>3, <4>4
    <3> QED
      BY <3>1, TaskOK, RestOK DEF TypeOK
  <2>2. server' \in ServerStates
    BY <1>11 DEF Announce, TypeOK, TasksOK, TaskStates, ServerStates
  <2> QED
    BY <1>11, <2>1, <2>2 DEF Announce, TypeOK, records, RecordsOK, bounds
<1>12. ASSUME NEW t \in Tasks, RecordBegins(t) PROVE TypeOK'
  <2>1. RecordsOK'
    BY <1>12, NewRecordOK DEF RecordBegins, TypeOK, TasksOK, TaskStates
  <2>2. TasksOK'
    <3> DEFINE s == [task[t] EXCEPT !.pc = "archive", !.rec = created + 1, !.at = 0]
    <3>1. task' = [task EXCEPT ![t] = s]
      BY <1>12 DEF RecordBegins
    <3>2. created + 1 \in 0..MaxBackups /\ 0 \in 0..(MaxBackups + 1)
      BY <1>12 DEF RecordBegins, NewRecord, TypeOK, RecordsOK
    <3>3. task[t] \in TaskStates
      BY DEF TypeOK, TasksOK
    <3>4. s \in TaskStates /\ s.pc # "idle"
      BY <3>2, <3>3 DEF TaskStates, Places
    <3> HIDE DEF s
    <3> QED
      BY <3>1, <3>4, TaskOK DEF TypeOK
  <2> QED
    BY <1>12, <2>1, <2>2 DEF RecordBegins, TypeOK, bounds
<1>13. ASSUME NEW t \in Tasks, CriticalRefused(t) PROVE TypeOK'
  BY <1>13, FailOK DEF CriticalRefused, TypeOK, Places, records, RecordsOK, bounds
<1>14. ASSUME NEW t \in Tasks, Stop(t) PROVE TypeOK'
  BY <1>14, RestOK DEF Stop, TypeOK, ServerStates, records, RecordsOK, bounds
<1>15. ASSUME NEW t \in Tasks, NEW n \in Records, RestoreAsks(t, n) PROVE TypeOK'
  <2>1. TasksOK'
    <3> DEFINE s == [Resting EXCEPT !.op = "restore", !.pc = "ask", !.rec = n,
                                    !.profile = about[n].profile]
    <3>1. task' = [task EXCEPT ![t] = s]
      BY <1>15 DEF RestoreAsks
    <3>2. n \in 0..MaxBackups /\ about[n].profile \in Profiles \union {NoProfile}
      BY DEF TypeOK, RecordsOK, Records, Stories
    <3>3. s \in TaskStates /\ s.pc # "idle"
      BY <3>2, RestingOK DEF Resting, TaskStates, Ops, Places
    <3> HIDE DEF s
    <3> QED
      BY <3>1, <3>3, TaskOK DEF TypeOK
  <2> QED
    BY <1>15, <2>1 DEF RestoreAsks, TypeOK, records, RecordsOK, bounds
<1>16. ASSUME NEW t \in Tasks, RestoreBegins(t) PROVE TypeOK'
  <2>1. TasksOK'
    BY <1>16, GoOK, RestOK DEF RestoreBegins, TypeOK, Places
  <2> QED
    BY <1>16, <2>1 DEF RestoreBegins, TypeOK, records, RecordsOK, bounds
<1>17. ASSUME NEW t \in Tasks, RestoreVerifies(t) PROVE TypeOK'
  <2>1. TasksOK'
    BY <1>17, GoOK, RestOK DEF RestoreVerifies, TypeOK, Places
  <2> QED
    BY <1>17, <2>1 DEF RestoreVerifies, TypeOK, records, RecordsOK, bounds
<1>18. ASSUME NEW t \in Tasks, RestoreEnds(t) PROVE TypeOK'
  BY <1>18, RestOK DEF RestoreEnds, TypeOK, records, RecordsOK, bounds
<1>19. ASSUME NEW p \in Profiles, PolicyLoads(p) PROVE TypeOK'
  BY <1>19 DEF PolicyLoads, Expirable, Entries, Of, TypeOK, TasksOK, records, RecordsOK, bounds
<1>20. ASSUME NEW n \in Records, PolicyRemoves(n) PROVE TypeOK'
  <2>1. files' \in [Records -> SUBSET Whole]
    BY <1>20, UnlinkedOK DEF PolicyRemoves
  <2> QED
    <3>1. policy' \in [profile : Profiles \union {NoProfile}, victims : SUBSET Records,
                      gone : SUBSET Records]
      <4>1. policy.victims \ {n} \in SUBSET Records /\ policy.gone \union {n} \in SUBSET Records
        BY DEF TypeOK
      <4>2. CASE policy' = [policy EXCEPT !.victims = @ \ {n}, !.gone = @ \union {n}]
        BY <4>1, <4>2 DEF TypeOK
      <4>3. CASE policy' = [policy EXCEPT !.victims = @ \ {n}]
        BY <4>1, <4>3 DEF TypeOK
      <4> QED
        BY <1>20, <4>2, <4>3 DEF PolicyRemoves
    <3>2. failures' \in 0..MaxFailures
      BY <1>20 DEF PolicyRemoves, TypeOK
    <3> QED
      BY <1>20, <2>1, <3>1, <3>2 DEF PolicyRemoves, TypeOK, TasksOK, records, RecordsOK
<1>21. CASE PolicyCommits
  BY <1>21 DEF PolicyCommits, NoPolicy, TypeOK, TasksOK, RecordsOK, bounds
<1>22. ASSUME NEW p \in Profiles, StartServer(p) \/ StartUnasked(p) PROVE TypeOK'
  <2>1. server' \in ServerStates
    <3>1. server.launch + 1 \in 0..MaxLaunches
      BY <1>22 DEF StartServer, StartUnasked, Launch, TypeOK, ServerStates
    <3>2. PICK by \in {"asked", "unasked"} :
            server' = [phase |-> "starting", owner |-> p, by |-> by,
                       launch |-> server.launch + 1, saving |-> TRUE]
      BY <1>22 DEF StartServer, StartUnasked, Launch
    <3> QED
      BY <3>1, <3>2 DEF ServerStates, Up
  <2> QED
    BY <1>22, <2>1 DEF StartServer, StartUnasked, Launch, TypeOK, TasksOK, records,
       RecordsOK, bounds
<1>23. CASE ServerReady
  BY <1>23 DEF ServerReady, TypeOK, ServerStates, Up, TasksOK, records, RecordsOK, bounds
<1>24. CASE ServerEnds
  BY <1>24 DEF ServerEnds, Down, TypeOK, ServerStates, TasksOK, records, RecordsOK, bounds
<1>25. CASE StopOutright
  BY <1>25 DEF StopOutright, TypeOK, ServerStates, TasksOK, records, RecordsOK, bounds
<1>26. CASE Crash
  <2>1. TasksOK'
    BY <1>26 DEF Crash, TasksOK, TaskStates, Resting, Ops, Places, Up
  <2> QED
    BY <1>26, <2>1 DEF Crash, Down, NoPolicy, TypeOK, ServerStates, RecordsOK
<1>27. CASE UNCHANGED vars
  BY <1>27 DEF vars, TypeOK, TasksOK, RecordsOK
<1> QED
  BY <1>1, <1>2, <1>3, <1>4, <1>5, <1>6, <1>7, <1>8, <1>9, <1>10, <1>11, <1>12, <1>13,
     <1>14, <1>15, <1>16, <1>17, <1>18, <1>19, <1>20, <1>21, <1>22, <1>23, <1>24, <1>25,
     <1>26, <1>27
  DEF Next, Backup, ProtectedStop, Restore, Policy, Server

\* Types hold in every reachable state.
THEOREM TypeCorrect == Spec => []TypeOK
BY TypeInit, TypeStep, PTL DEF Spec

-----------------------------------------------------------------------------
(* What the tasks have in hand.                                            *)

\* Where each operation passes.
Route ==
  \A t \in Tasks :
    /\ task[t].op = "none" => task[t].pc = "idle"
    /\ task[t].op = "create" => task[t].pc \in {"flush", "archive", "unpause", "commit"}
    /\ task[t].op = "restore" => task[t].pc \in {"ask", "verify", "swap"}
    /\ task[t].op \in {"stop", "maintain"} =>
         task[t].pc \in {"probe", "flush", "queue", "archive", "commit", "unpause", "stop"}

\* Operations, records and servers belong to a profile; records are numbered as
\* they come.
Owned ==
  /\ \A t \in Tasks : task[t].pc # "idle" => task[t].profile \in Profiles
  /\ \A n \in Records : status[n] # "none" => n <= created /\ about[n].profile \in Profiles
  /\ server.phase # "down" => server.owner \in Profiles
  /\ server.phase = "down" => server.owner = NoProfile

\* Task t works on its record: no other does, and its archive is there once it is
\* written.
Holds(t) == task[t].op = "create" \/ task[t].pc \in {"archive", "commit"}
Work ==
  \A t \in Tasks : Holds(t) =>
    /\ task[t].rec \in Records
    /\ status[task[t].rec] = "in_progress"
    /\ about[task[t].rec].profile = task[t].profile
    /\ task[t].ok /\ task[t].pc \in {"unpause", "commit"} => files[task[t].rec] = Whole
    /\ \A u \in Tasks : Holds(u) /\ task[u].rec = task[t].rec => u = t

\* The policy's thread chose among completed backups, and what it is done with
\* is gone.
Swept ==
  \A n \in Records :
    /\ n \in policy.victims \union policy.gone => status[n] \in {"completed", "expired"}
    /\ n \in policy.gone => files[n] = {}

\* The newest complete backup of p is whole, and not about to go.
Newest(p, n) ==
  /\ n \in Of(p) /\ status[n] = "completed" /\ files[n] = Whole
  /\ n \notin policy.victims
  /\ \A m \in Entries(p, status) : Precedes(n, m)
NewestStays ==
  ~lost => \A p \in Profiles :
    (\E n \in Of(p) : status[n] \in {"completed", "expired"}) => \E n \in Records : Newest(p, n)

\* Whoever switched saving off is on the way to a finally block, and a server
\* starts with saving on.
Pausing ==
  /\ \A t \in Tasks : task[t].paused =>
       /\ task[t].op # "create" \/ task[t].pc # "commit"
       /\ task[t].pc \in {"flush", "queue", "archive", "commit", "unpause"}
       /\ task[t].op # "create" => task[t].backup
  /\ server.phase = "starting" => server.saving

\* A stop that wants a backup has it when it gets to stop, and remembers the
\* server it looked at.
Knows(t) ==
  task[t].op \in {"stop", "maintain"} =>
    /\ task[t].launch <= server.launch
    /\ task[t].launch = server.launch /\ server.phase \in Up => server.owner = task[t].profile
    /\ task[t].pc \in {"probe", "flush", "queue", "archive", "commit"} => task[t].ok
    /\ (task[t].pc = "unpause" /\ task[t].ok) \/ (task[t].pc = "stop" /\ task[t].backup) =>
         /\ task[t].rec \in Of(task[t].profile)
         /\ status[task[t].rec] \in {"completed", "expired"}
Protecting == \A t \in Tasks : Knows(t)

\* The first five are inductive together.
Hands == TypeOK /\ Route /\ Owned /\ Work /\ Swept

\* A task's step is its own.
LEMMA Alone ==
  ASSUME TypeOK, NEW t \in Tasks, Backup(t) \/ ProtectedStop(t) \/ Restore(t),
         NEW u \in Tasks \ {t}
  PROVE  task'[u] = task[u]
<1> USE DEF TypeOK, TasksOK, Go, Fail, Rest
<1>1. CASE Backup(t)
  BY <1>1 DEF Backup, CreateBegins, Flushed, ArchiveWritten, ArchiveFails, Unpause, Commit,
     CommitFails
<1>2. CASE ProtectedStop(t)
  BY <1>2 DEF ProtectedStop, StopBegins, MaintainBegins, PlayersOnline, Announce, RecordBegins,
     CriticalRefused, Stop
<1>3. CASE Restore(t)
  BY <1>3 DEF Restore, RestoreAsks, RestoreBegins, RestoreVerifies, RestoreEnds
<1> QED
  BY <1>1, <1>2, <1>3

\* What a task is about does not change while it is at it.
Same(t) ==
  /\ task'[t].op = task[t].op /\ task'[t].profile = task[t].profile
  /\ task'[t].launch = task[t].launch /\ task'[t].backup = task[t].backup
  /\ task'[t].rec = task[t].rec

\* What a commit, failed or not, and an announcement make of the task.
LEMMA CommitTask ==
  ASSUME TypeOK, NEW t \in Tasks, Commit(t) \/ CommitFails(t)
  PROVE  /\ task[t].pc = "commit"
         /\ task[t].op = "create" => task'[t] = Resting
         /\ task[t].op # "create" =>
              /\ Same(t) /\ task'[t].pc = "unpause" /\ task'[t].paused = task[t].paused
              /\ task'[t].ok \in BOOLEAN /\ (task'[t].ok => task[t].ok /\ Commit(t))
<1> USE DEF TypeOK, TasksOK
<1>1. CASE Commit(t)
  BY <1>1 DEF Commit, Go, Rest, Same, TaskStates
<1>2. CASE CommitFails(t)
  <2>1. CASE task[t].op = "create"
    BY <1>2, <2>1 DEF CommitFails, Rest
  <2>2. CASE task[t].op # "create"
    <3>1. Fail(t, "unpause") /\ task[t].pc = "commit"
      BY <1>2, <2>2 DEF CommitFails
    <3> QED
      BY <2>2, <3>1 DEF Fail, Same, TaskStates
  <2> QED
    BY <2>1, <2>2
<1> QED
  BY <1>1, <1>2

LEMMA AnnounceIs ==
  ASSUME TypeOK, NEW t \in Tasks, Announce(t)
  PROVE  /\ task[t].pc = "probe"
         /\ UNCHANGED <<status, about, created, files, policy, lost>>
         /\ server'.phase = server.phase /\ server'.owner = server.owner
         /\ server'.launch = server.launch /\ server'.by = server.by
         /\ task'[t] # Resting => Same(t) /\ task'[t].ok = task[t].ok
         /\ \/ task'[t] = Resting /\ server' = server
            \/ /\ server' = server /\ task'[t].paused = task[t].paused
               /\ task'[t].pc = IF task[t].backup THEN "queue" ELSE "stop"
            \/ /\ server.phase = "running" /\ task'[t].pc = "flush"
               /\ task'[t].paused = task[t].backup
               /\ server'.saving = (server.saving /\ ~task[t].backup)
<1> USE DEF TypeOK, TasksOK, records, bounds, ServerStates
<1>1. CASE task[t].looked = "starting"
  <2>1. task'[t] = [task[t] EXCEPT !.pc = IF task[t].backup THEN "queue" ELSE "stop",
                                   !.looked = "down"]
    BY <1>1 DEF Announce
  <2>2. Same(t) /\ task'[t].ok = task[t].ok /\ task'[t].paused = task[t].paused
    BY <2>1 DEF Same, TaskStates
  <2>3. task'[t].pc = IF task[t].backup THEN "queue" ELSE "stop"
    BY <2>1 DEF TaskStates
  <2> QED
    BY <1>1, <2>2, <2>3 DEF Announce
<1>2. CASE task[t].looked # "starting" /\ server.phase = "running"
  <2>1. /\ task'[t] = [task[t] EXCEPT !.pc = "flush", !.paused = task[t].backup, !.looked = "down"]
        /\ server' = [server EXCEPT !.saving = @ /\ ~task[t].backup]
    BY <1>2 DEF Announce
  <2>2. Same(t) /\ task'[t].ok = task[t].ok
    BY <2>1 DEF Same, TaskStates
  <2>3. task'[t].pc = "flush" /\ task'[t].paused = task[t].backup
    BY <2>1 DEF TaskStates
  <2>4. /\ server'.phase = server.phase /\ server'.owner = server.owner
        /\ server'.launch = server.launch /\ server'.by = server.by
    BY <2>1
  <2>5. server'.saving = (server.saving /\ ~task[t].backup)
    BY <2>1
  <2> QED
    BY <1>2, <2>2, <2>3, <2>4, <2>5 DEF Announce
<1>3. CASE task[t].looked # "starting" /\ server.phase # "running"
  BY <1>3 DEF Announce, Rest
<1> QED
  BY <1>1, <1>2, <1>3

LEMMA RouteStep == TypeOK /\ Route /\ [Next]_vars => Route'
<1> SUFFICES ASSUME TypeOK, Route, [Next]_vars PROVE Route'
  OBVIOUS
<1>1. ASSUME NEW t \in Tasks, Backup(t) PROVE Route'
  <2>1. task[t] \in TaskStates /\ task \in [Tasks -> TaskStates]
    BY DEF TypeOK, TasksOK
  <2>2. CASE \E p \in Profiles : CreateBegins(t, p)
    BY <2>1, <2>2, <1>1, Alone DEF CreateBegins, Route, Resting
  <2>3. CASE Flushed(t)
    BY <2>1, <2>3, <1>1, Alone DEF Flushed, Go, Route, TaskStates
  <2>4. CASE ArchiveWritten(t)
    BY <2>1, <2>4, <1>1, Alone DEF ArchiveWritten, Go, Route, TaskStates
  <2>5. CASE ArchiveFails(t)
    BY <2>1, <2>5, <1>1, Alone DEF ArchiveFails, Fail, Route, TaskStates
  <2>6. CASE Unpause(t)
    BY <2>1, <2>6, <1>1, Alone DEF Unpause, Route, Resting, TaskStates
  <2>7. CASE Commit(t)
    BY <2>1, <2>7, <1>1, Alone DEF Commit, Go, Rest, Resting, Route, TaskStates
  <2>8. CASE CommitFails(t)
    BY <2>1, <2>8, <1>1, Alone, CommitTask DEF Same, Resting, Route, TaskStates
  <2> QED
    BY <1>1, <2>2, <2>3, <2>4, <2>5, <2>6, <2>7, <2>8 DEF Backup
<1>2. ASSUME NEW t \in Tasks, ProtectedStop(t) PROVE Route'
  <2>1. task[t] \in TaskStates /\ task \in [Tasks -> TaskStates]
    BY DEF TypeOK, TasksOK
  <2>2. CASE StopBegins(t)
    BY <2>1, <2>2, <1>2, Alone DEF StopBegins, Route, Resting
  <2>3. CASE \E p \in Profiles, backup \in BOOLEAN : MaintainBegins(t, p, backup)
    BY <2>1, <2>3, <1>2, Alone DEF MaintainBegins, Route, Resting
  <2>4. CASE PlayersOnline(t)
    BY <2>1, <2>4, <1>2, Alone DEF PlayersOnline, Rest, Resting, Route
  <2>5. CASE Announce(t)
    BY <2>1, <2>5, <1>2, Alone, AnnounceIs DEF Same, Resting, Route, TaskStates
  <2>6. CASE RecordBegins(t)
    BY <2>1, <2>6, <1>2, Alone DEF RecordBegins, Route, TaskStates
  <2>7. CASE CriticalRefused(t)
    BY <2>1, <2>7, <1>2, Alone DEF CriticalRefused, Fail, Route, TaskStates
  <2>8. CASE Stop(t)
    BY <2>1, <2>8, <1>2, Alone DEF Stop, Rest, Resting, Route
  <2> QED
    BY <1>2, <2>2, <2>3, <2>4, <2>5, <2>6, <2>7, <2>8 DEF ProtectedStop
<1>3. ASSUME NEW t \in Tasks, Restore(t) PROVE Route'
  <2>1. task[t] \in TaskStates /\ task \in [Tasks -> TaskStates]
    BY DEF TypeOK, TasksOK
  <2>2. CASE \E n \in Records : RestoreAsks(t, n)
    BY <2>1, <2>2, <1>3, Alone DEF RestoreAsks, Route, Resting
  <2>3. CASE RestoreBegins(t) \/ RestoreVerifies(t) \/ RestoreEnds(t)
    BY <2>1, <2>3, <1>3, Alone DEF RestoreBegins, RestoreVerifies, RestoreEnds, Go, Rest,
       Resting, Route, TaskStates
  <2> QED
    BY <1>3, <2>2, <2>3 DEF Restore
<1>4. CASE Policy
  BY <1>4 DEF Policy, PolicyLoads, PolicyRemoves, PolicyCommits, Route
<1>5. CASE Server
  BY <1>5 DEF Server, StartServer, StartUnasked, Launch, ServerReady, ServerEnds,
     StopOutright, Route
<1>6. CASE Crash
  BY <1>6 DEF Crash, Resting, Route
<1>7. CASE UNCHANGED vars
  BY <1>7 DEF vars, Route
<1> QED
  BY <1>1, <1>2, <1>3, <1>4, <1>5, <1>6, <1>7 DEF Next

\* A new record is the next one.
LEMMA NewRecordIs ==
  ASSUME TypeOK, NEW p, NEW by, NEW at, NewRecord(p, by, at)
  PROVE  /\ created + 1 \in Records /\ created' = created + 1
         /\ status'[created + 1] = "in_progress" /\ about'[created + 1].profile = p
         /\ about'[created + 1].by = by /\ about'[created + 1].at = at
         /\ \A n \in Records \ {created + 1} : status'[n] = status[n] /\ about'[n] = about[n]
BY Bounds DEF TypeOK, RecordsOK, NewRecord, Records

\* What the outcome of a backup does to the records: its own is settled, and
\* some completed ones of its profile expire and go.
LEMMA CommitIs ==
  ASSUME TypeOK, Owned, Work, NEW t \in Tasks, Commit(t)
  PROVE  /\ UNCHANGED <<server, about, created, policy, lost>>
         /\ task[t].rec \in Records /\ status[task[t].rec] = "in_progress"
         /\ status'[task[t].rec] \in (IF task[t].ok THEN {"completed", "expired"} ELSE {"failed"})
         /\ \A m \in Records \ {task[t].rec} :
              \/ status'[m] = status[m]
              \/ status[m] = "completed" /\ status'[m] = "expired"
         /\ \A m \in Records : files'[m] # files[m] =>
              m = task[t].rec \/ status[m] = "completed"
         /\ \A m \in Records : files'[m] \subseteq files[m]
<1> DEFINE r == task[t].rec
           done == [status EXCEPT ![r] = "completed"]
<1>1. /\ r \in Records /\ status[r] = "in_progress"
      /\ UNCHANGED <<server, about, created, policy, lost>>
  BY DEF Commit, Work, Holds
<1>2. status \in [Records -> {"none", "in_progress", "completed", "failed", "expired"}]
  BY DEF TypeOK, RecordsOK
<1>3. CASE ~task[t].ok
  BY <1>1, <1>2, <1>3 DEF Commit
<1>4. CASE task[t].ok
  <2>1. PICK gone \in Expirable(Entries(task[t].profile, done)), stuck \in SUBSET Records :
          /\ stuck \subseteq gone
          /\ files' = Unlinked(gone \ stuck, stuck)
          /\ status' = [m \in Records |-> IF m \in gone \ stuck THEN "expired" ELSE done[m]]
    BY <1>4 DEF Commit, CompleteAndPrune
  <2>2. \A m \in gone : m \in Records /\ done[m] = "completed"
    BY DEF Expirable, Entries, Of
  <2>3. \A m \in Records : done[m] = IF m = r THEN "completed" ELSE status[m]
    BY <1>1, <1>2
  <2> HIDE DEF done, r
  <2>4. status'[r] \in {"completed", "expired"}
    BY <1>1, <2>1, <2>3
  <2>5. \A m \in Records \ {r} : \/ status'[m] = status[m]
                                 \/ status[m] = "completed" /\ status'[m] = "expired"
    BY <2>1, <2>2, <2>3
  <2>6. \A m \in Records : /\ files'[m] # files[m] => m = r \/ status[m] = "completed"
                           /\ files'[m] \subseteq files[m]
    BY <2>1, <2>2, <2>3 DEF Unlinked
  <2> QED
    BY <1>1, <1>4, <2>4, <2>5, <2>6 DEF r
<1> QED
  BY <1>3, <1>4

LEMMA OwnedStep == TypeOK /\ Owned /\ Work /\ Swept /\ [Next]_vars => Owned'
<1> SUFFICES ASSUME TypeOK, Owned, Work, Swept, [Next]_vars PROVE Owned'
  OBVIOUS
<1> USE DEF records
<1>1. ASSUME NEW t \in Tasks, Backup(t) PROVE Owned'
  <2>1. task[t] \in TaskStates /\ task \in [Tasks -> TaskStates]
    BY DEF TypeOK, TasksOK
  <2>2. CASE \E p \in Profiles : CreateBegins(t, p)
    <3>1. PICK p \in Profiles : CreateBegins(t, p)
      BY <2>2
    <3>2. task'[t].profile = p /\ server'.phase = server.phase /\ server'.owner = server.owner
      BY <2>1, <3>1 DEF CreateBegins, Resting, TypeOK, ServerStates
    <3>3. NewRecord(p, "owner", created + 1)
      BY <3>1 DEF CreateBegins
    <3> QED
      BY <1>1, <3>2, <3>3, Alone, NewRecordIs DEF Owned, TypeOK, RecordsOK, Records
  <2>3. CASE Flushed(t) \/ ArchiveWritten(t)
    BY <2>1, <2>3, <1>1, Alone DEF Flushed, ArchiveWritten, Go, Owned, TaskStates
  <2>4. CASE ArchiveFails(t)
    BY <2>1, <2>4, <1>1, Alone, Bounds DEF ArchiveFails, Fail, Owned, Work, Holds, TaskStates, TypeOK,
       RecordsOK
  <2>5. CASE Unpause(t)
    BY <2>1, <2>5, <1>1, Alone DEF Unpause, Owned, Resting, TaskStates, TypeOK, ServerStates
  <2>6. CASE Commit(t)
    BY <2>1, <2>6, <1>1, Alone, CommitTask, CommitIs DEF Same, Resting, Owned, TaskStates
  <2>7. CASE CommitFails(t)
    BY <2>1, <2>7, <1>1, Alone, CommitTask DEF CommitFails, Same, Resting, Owned, TaskStates
  <2> QED
    BY <1>1, <2>2, <2>3, <2>4, <2>5, <2>6, <2>7 DEF Backup
<1>2. ASSUME NEW t \in Tasks, ProtectedStop(t) PROVE Owned'
  <2>1. task[t] \in TaskStates /\ task \in [Tasks -> TaskStates]
    BY DEF TypeOK, TasksOK
  <2>2. CASE StopBegins(t)
    BY <2>1, <2>2, <1>2, Alone DEF StopBegins, Owned, Resting, TypeOK, ServerStates
  <2>3. CASE \E p \in Profiles, backup \in BOOLEAN : MaintainBegins(t, p, backup)
    BY <2>1, <2>3, <1>2, Alone DEF MaintainBegins, Owned, Resting
  <2>4. CASE PlayersOnline(t)
    BY <2>1, <2>4, <1>2, Alone DEF PlayersOnline, Rest, Resting, Owned
  <2>5. CASE Announce(t)
    BY <2>1, <2>5, <1>2, Alone, AnnounceIs DEF Same, Resting, Owned, TaskStates
  <2>6. CASE RecordBegins(t)
    <3>1. task'[t].profile = task[t].profile /\ task[t].profile \in Profiles
      BY <2>1, <2>6 DEF RecordBegins, TaskStates, Owned
    <3>2. NewRecord(task[t].profile, "scheduler", task[t].at)
      BY <2>6 DEF RecordBegins
    <3> QED
      BY <1>2, <2>6, <3>1, <3>2, Alone, NewRecordIs DEF RecordBegins, Owned, TypeOK, RecordsOK, Records
  <2>7. CASE CriticalRefused(t)
    BY <2>1, <2>7, <1>2, Alone DEF CriticalRefused, Fail, Owned, TaskStates
  <2>8. CASE Stop(t)
    BY <2>1, <2>8, <1>2, Alone DEF Stop, Up, Rest, Resting, Owned, TypeOK, ServerStates
  <2> QED
    BY <1>2, <2>2, <2>3, <2>4, <2>5, <2>6, <2>7, <2>8 DEF ProtectedStop
<1>3. ASSUME NEW t \in Tasks, Restore(t) PROVE Owned'
  <2>1. task[t] \in TaskStates /\ task \in [Tasks -> TaskStates]
    BY DEF TypeOK, TasksOK
  <2>2. CASE \E n \in Records : RestoreAsks(t, n)
    BY <2>1, <2>2, <1>3, Alone DEF RestoreAsks, Owned, Resting
  <2>3. CASE RestoreBegins(t) \/ RestoreVerifies(t) \/ RestoreEnds(t)
    BY <2>1, <2>3, <1>3, Alone DEF RestoreBegins, RestoreVerifies, RestoreEnds, Go, Rest,
       Resting, Owned, TaskStates
  <2> QED
    BY <1>3, <2>2, <2>3 DEF Restore
<1>4. CASE Policy
  BY <1>4 DEF Policy, PolicyLoads, PolicyRemoves, PolicyCommits, Owned, Swept, TypeOK, RecordsOK
<1>5. CASE Server
  BY <1>5 DEF Server, StartServer, StartUnasked, Launch, ServerReady, ServerEnds, Down,
     StopOutright, Up, Owned, TypeOK, ServerStates
<1>6. CASE Crash
  BY <1>6 DEF Crash, Down, Resting, Owned, TypeOK, RecordsOK
<1>7. CASE UNCHANGED vars
  BY <1>7 DEF vars, Owned
<1> QED
  BY <1>1, <1>2, <1>3, <1>4, <1>5, <1>6, <1>7 DEF Next

\* A task that works on no record but perhaps the one it had, and changes no
\* record, leaves everyone's work as it was.
LEMMA WorkKept ==
  ASSUME Work, NEW t \in Tasks, UNCHANGED <<status, about, files>>,
         \A u \in Tasks \ {t} : task'[u] = task[u],
         Holds(t)' => /\ Holds(t) /\ task'[t].rec = task[t].rec
                      /\ task'[t].profile = task[t].profile
                      /\ task'[t].ok /\ task'[t].pc \in {"unpause", "commit"} =>
                           task[t].ok /\ task[t].pc \in {"unpause", "commit"}
  PROVE  Work'
BY DEF Work, Holds

\* One that gives its record up may settle it.
LEMMA WorkEnds ==
  ASSUME Work, NEW t \in Tasks, Holds(t), ~Holds(t)', UNCHANGED about,
         \A u \in Tasks \ {t} : task'[u] = task[u],
         \A n \in Records \ {task[t].rec} : status[n] = "in_progress" =>
           status'[n] = "in_progress" /\ files'[n] = files[n]
  PROVE  Work'
BY DEF Work, Holds

\* One that takes the next record up works on that.
LEMMA WorkStarts ==
  ASSUME TypeOK, Owned, Work, NEW t \in Tasks, ~Holds(t), UNCHANGED files,
         NEW p, NEW by, NEW at, NewRecord(p, by, at),
         \A u \in Tasks \ {t} : task'[u] = task[u],
         task'[t].rec = created + 1, task'[t].profile = p,
         task'[t].ok => task'[t].pc \notin {"unpause", "commit"}
  PROVE  Work'
<1>1. created + 1 \in Records /\ status[created + 1] # "in_progress"
  BY NewRecordIs DEF Owned, TypeOK, RecordsOK
<1>2. ASSUME NEW u \in Tasks, Holds(u)'
      PROVE  /\ task'[u].rec \in Records
             /\ status'[task'[u].rec] = "in_progress"
             /\ about'[task'[u].rec].profile = task'[u].profile
             /\ task'[u].ok /\ task'[u].pc \in {"unpause", "commit"} => files'[task'[u].rec] = Whole
  BY <1>1, <1>2, NewRecordIs DEF Work, Holds
<1>3. ASSUME NEW u \in Tasks, NEW v \in Tasks, Holds(u)', Holds(v)', task'[u].rec = task'[v].rec
      PROVE  u = v
  BY <1>1, <1>3 DEF Work, Holds
<1> QED
  BY <1>2, <1>3 DEF Work

LEMMA WorkStep == Hands /\ [Next]_vars => Work'
<1> SUFFICES ASSUME Hands, [Next]_vars PROVE Work'
  OBVIOUS
<1> USE DEF Hands
<1>1. ASSUME NEW t \in Tasks, Backup(t) PROVE Work'
  <2>1. /\ task[t] \in TaskStates /\ task \in [Tasks -> TaskStates]
        /\ \A u \in Tasks \ {t} : task'[u] = task[u]
    BY <1>1, Alone DEF TypeOK, TasksOK
  <2>2. CASE \E p \in Profiles : CreateBegins(t, p)
    <3>1. PICK p \in Profiles : CreateBegins(t, p)
      BY <2>2
    <3>2. /\ ~Holds(t) /\ UNCHANGED files
          /\ task'[t].rec = created + 1 /\ task'[t].profile = p
          /\ task'[t].ok => task'[t].pc \notin {"unpause", "commit"}
      <4>1. ~Holds(t) /\ UNCHANGED files
        BY <3>1 DEF CreateBegins, Resting, Holds
      <4>2. CASE server.owner = p /\ server.phase = "starting"
        BY <2>1, <3>1, <4>1, <4>2 DEF CreateBegins, Resting
      <4>3. CASE ~(server.owner = p /\ server.phase = "starting")
        BY <2>1, <3>1, <4>1, <4>3 DEF CreateBegins, Resting
      <4> QED
        BY <4>2, <4>3
    <3>3. NewRecord(p, "owner", created + 1)
      BY <3>1 DEF CreateBegins
    <3> QED
      BY <2>1, <3>2, <3>3, WorkStarts
  <2>3. CASE Flushed(t)
    BY <2>1, <2>3, WorkKept DEF Flushed, Go, Holds, TaskStates, records
  <2>4. CASE ArchiveWritten(t)
    <3>1. /\ task'[t].rec = task[t].rec /\ task'[t].profile = task[t].profile
          /\ files' = [files EXCEPT ![task[t].rec] = Whole]
          /\ UNCHANGED <<status, about>> /\ Holds(t)
      BY <2>1, <2>4 DEF ArchiveWritten, Go, TaskStates, records, Holds
    <3>2. \A n \in Records : files'[n] = IF n = task[t].rec THEN Whole ELSE files[n]
      BY <3>1 DEF TypeOK
    <3>3. \A u \in Tasks : Holds(u)' => Holds(u) /\ task'[u].rec = task[u].rec
                                        /\ task'[u].profile = task[u].profile
      BY <2>1, <3>1 DEF Holds
    <3> HIDE DEF Hands
    <3> QED
      BY <2>1, <3>1, <3>2, <3>3 DEF Hands, Work
  <2>5. CASE ArchiveFails(t)
    <3>1. Same(t) /\ task'[t].pc = "unpause" /\ ~task'[t].ok /\ Holds(t)
          /\ UNCHANGED <<about, files>>
      BY <2>1, <2>5 DEF ArchiveFails, Fail, Same, TaskStates, Holds
    <3>2. CASE UNCHANGED status
      BY <2>1, <3>1, <3>2, WorkKept DEF Same
    <3>3. CASE task[t].op # "create" /\ status' = [status EXCEPT ![task[t].rec] = "failed"]
      BY <2>1, <3>1, <3>3, WorkEnds DEF Same, Holds, TypeOK, RecordsOK
    <3> QED
      BY <2>5, <3>2, <3>3 DEF ArchiveFails
  <2>6. CASE Unpause(t)
    BY <2>1, <2>6, WorkKept DEF Unpause, Resting, Holds, TaskStates, records
  <2>7. CASE Commit(t)
    <3>1. Holds(t) /\ ~Holds(t)'
      BY <2>7, CommitTask DEF Holds, Resting, Same
    <3> QED
      BY <2>1, <2>7, <3>1, WorkEnds, CommitIs
  <2>8. CASE CommitFails(t)
    <3>1. Holds(t) /\ ~Holds(t)' /\ UNCHANGED <<status, about>>
      BY <2>8, CommitTask DEF Holds, Resting, Same, CommitFails, records
    <3>2. PICK gone \in Expirable(Entries(task[t].profile, [status EXCEPT ![task[t].rec] = "completed"])) :
            files' = Unlinked(gone, {})
      BY <2>8 DEF CommitFails
    <3>3. \A n \in gone : n = task[t].rec \/ status[n] = "completed"
      BY DEF Expirable, Entries, Of, TypeOK, RecordsOK
    <3>4. \A n \in Records \ {task[t].rec} : status[n] = "in_progress" => files'[n] = files[n]
      BY <3>2, <3>3 DEF Unlinked
    <3> QED
      BY <2>1, <3>1, <3>4, WorkEnds
  <2> QED
    BY <1>1, <2>2, <2>3, <2>4, <2>5, <2>6, <2>7, <2>8 DEF Backup
<1>2. ASSUME NEW t \in Tasks, ProtectedStop(t) PROVE Work'
  <2>1. /\ task[t] \in TaskStates /\ task \in [Tasks -> TaskStates]
        /\ \A u \in Tasks \ {t} : task'[u] = task[u]
    BY <1>2, Alone DEF TypeOK, TasksOK
  <2>2. CASE StopBegins(t)
    BY <2>1, <2>2, WorkKept DEF StopBegins, Resting, Holds, records
  <2>3. CASE \E p \in Profiles, backup \in BOOLEAN : MaintainBegins(t, p, backup)
    BY <2>1, <2>3, WorkKept DEF MaintainBegins, Resting, Holds, records
  <2>4. CASE PlayersOnline(t)
    BY <2>1, <2>4, WorkKept DEF PlayersOnline, Rest, Resting, Holds, records
  <2>5. CASE Announce(t)
    BY <2>1, <2>5, AnnounceIs, WorkKept DEF Same, Resting, Holds, Route
  <2>6. CASE RecordBegins(t)
    <3>1. /\ task'[t].rec = created + 1 /\ task'[t].profile = task[t].profile
          /\ task'[t].pc = "archive" /\ UNCHANGED files
      BY <2>1, <2>6 DEF RecordBegins, TaskStates
    <3>2. ~Holds(t)
      BY <2>6 DEF RecordBegins, Holds, Route
    <3>3. NewRecord(task[t].profile, "scheduler", task[t].at)
      BY <2>6 DEF RecordBegins
    <3> QED
      BY <2>1, <3>1, <3>2, <3>3, WorkStarts
  <2>7. CASE CriticalRefused(t)
    BY <2>1, <2>7, WorkKept DEF CriticalRefused, Fail, TaskStates, Holds, Route, records
  <2>8. CASE Stop(t)
    BY <2>1, <2>8, WorkKept DEF Stop, Rest, Resting, Holds, records
  <2> QED
    BY <1>2, <2>2, <2>3, <2>4, <2>5, <2>6, <2>7, <2>8 DEF ProtectedStop
<1>3. ASSUME NEW t \in Tasks, Restore(t) PROVE Work'
  <2>1. /\ task[t] \in TaskStates /\ task \in [Tasks -> TaskStates]
        /\ \A u \in Tasks \ {t} : task'[u] = task[u]
    BY <1>3, Alone DEF TypeOK, TasksOK
  <2>2. CASE \E n \in Records : RestoreAsks(t, n)
    BY <2>1, <2>2, WorkKept DEF RestoreAsks, Resting, Holds, records
  <2>3. CASE RestoreBegins(t) \/ RestoreVerifies(t) \/ RestoreEnds(t)
    BY <2>1, <2>3, WorkKept DEF RestoreBegins, RestoreVerifies, RestoreEnds, Go, Rest,
       Resting, Holds, Route, TaskStates, records
  <2> QED
    BY <1>3, <2>2, <2>3 DEF Restore
<1>4. CASE Policy
  <2>1. CASE \E p \in Profiles : PolicyLoads(p)
    BY <2>1 DEF PolicyLoads, Work, Holds, records
  <2>2. CASE \E n \in Records : PolicyRemoves(n)
    <3>1. PICK n \in Records : PolicyRemoves(n)
      BY <2>2
    <3>2. status[n] \in {"completed", "expired"} /\ UNCHANGED <<task, status, about>>
      BY <3>1 DEF PolicyRemoves, Swept, records
    <3>3. \A m \in Records \ {n} : files'[m] = files[m]
      BY <3>1 DEF PolicyRemoves, Unlinked
    <3> QED
      BY <3>2, <3>3 DEF Work, Holds
  <2>3. CASE PolicyCommits
    <3>1. \A n \in Records : status[n] = "in_progress" => status'[n] = "in_progress"
      BY <2>3 DEF PolicyCommits, Swept
    <3> QED
      BY <2>3, <3>1 DEF PolicyCommits, Work, Holds
  <2> QED
    BY <1>4, <2>1, <2>2, <2>3 DEF Policy
<1>5. CASE Server
  BY <1>5 DEF Server, StartServer, StartUnasked, Launch, ServerReady, ServerEnds,
     StopOutright, Work, Holds, records
<1>6. CASE Crash
  BY <1>6 DEF Crash, Resting, Work, Holds
<1>7. CASE UNCHANGED vars
  BY <1>7 DEF vars, Work, Holds
<1> QED
  BY <1>1, <1>2, <1>3, <1>4, <1>5, <1>6, <1>7 DEF Next

\* Outside of the policy's own thread, completed records change only by expiring,
\* and what is gone stays so.
LEMMA SweptKept ==
  ASSUME Swept, UNCHANGED policy,
         \A n \in Records : /\ status[n] \in {"completed", "expired"} => status'[n] \in {"completed", "expired"}
                            /\ files[n] = {} /\ status[n] \in {"completed", "expired"} => files'[n] = {}
  PROVE  Swept'
BY DEF Swept

LEMMA SweptStep == Hands /\ [Next]_vars => Swept'
<1> SUFFICES ASSUME Hands, [Next]_vars PROVE Swept'
  OBVIOUS
<1> USE DEF Hands
<1>1. ASSUME NEW t \in Tasks, Backup(t) PROVE Swept'
  <2>1. CASE \E p \in Profiles : CreateBegins(t, p)
    <3>1. PICK p \in Profiles : CreateBegins(t, p)
      BY <2>1
    <3>2. NewRecord(p, "owner", created + 1) /\ UNCHANGED <<files, policy>>
      BY <3>1 DEF CreateBegins
    <3>3. status[created + 1] \notin {"completed", "expired"}
      BY <3>2, NewRecordIs DEF Owned, TypeOK, RecordsOK
    <3> QED
      BY <3>2, <3>3, NewRecordIs, SweptKept
  <2>2. CASE Flushed(t) \/ Unpause(t)
    BY <2>2, SweptKept DEF Flushed, Unpause, records
  <2>3. CASE ArchiveWritten(t) \/ ArchiveFails(t)
    <3>1. /\ task[t].rec \in Records /\ status[task[t].rec] = "in_progress"
          /\ UNCHANGED policy
          /\ \A n \in Records \ {task[t].rec} : status'[n] = status[n] /\ files'[n] = files[n]
      BY <2>3 DEF ArchiveWritten, ArchiveFails, Work, Holds, TypeOK, RecordsOK, records
    <3> QED
      BY <3>1, SweptKept
  <2>4. CASE Commit(t)
    BY <2>4, CommitIs, SweptKept
  <2>5. CASE CommitFails(t)
    <3>1. /\ UNCHANGED <<status, policy>>
          /\ \A n \in Records : files'[n] \subseteq files[n]
      BY <2>5 DEF CommitFails, Unlinked, records
    <3> QED
      BY <3>1, SweptKept
  <2> QED
    BY <1>1, <2>1, <2>2, <2>3, <2>4, <2>5 DEF Backup
<1>2. ASSUME NEW t \in Tasks, ProtectedStop(t) PROVE Swept'
  <2>1. CASE RecordBegins(t)
    <3>1. NewRecord(task[t].profile, "scheduler", task[t].at) /\ UNCHANGED <<files, policy>>
      BY <2>1 DEF RecordBegins
    <3>2. status[created + 1] \notin {"completed", "expired"}
      BY <3>1, NewRecordIs DEF Owned, TypeOK, RecordsOK
    <3> QED
      BY <3>1, <3>2, NewRecordIs, SweptKept
  <2>2. CASE Announce(t)
    BY <2>2, AnnounceIs, SweptKept
  <2>3. CASE ~RecordBegins(t) /\ ~Announce(t)
    BY <1>2, <2>3, SweptKept DEF ProtectedStop, StopBegins, MaintainBegins, PlayersOnline,
       CriticalRefused, Stop, records
  <2> QED
    BY <2>1, <2>2, <2>3
<1>3. ASSUME NEW t \in Tasks, Restore(t) PROVE Swept'
  BY <1>3, SweptKept DEF Restore, RestoreAsks, RestoreBegins, RestoreVerifies, RestoreEnds, records
<1>4. CASE Policy
  <2>1. ASSUME NEW p \in Profiles, PolicyLoads(p) PROVE Swept'
    BY <2>1 DEF PolicyLoads, Expirable, Entries, Of, Swept, records
  <2>2. ASSUME NEW n \in Records, PolicyRemoves(n) PROVE Swept'
    <3>1. UNCHANGED status /\ n \in policy.victims
      BY <2>2 DEF PolicyRemoves, records
    <3>2. \/ /\ policy'.victims = policy.victims \ {n}
             /\ policy'.gone = policy.gone \union {n} /\ files' = Unlinked({n}, {})
          \/ /\ policy'.victims = policy.victims \ {n}
             /\ policy'.gone = policy.gone /\ files' = Unlinked({}, {n})
      BY <2>2 DEF PolicyRemoves, TypeOK
    <3> QED
      BY <3>1, <3>2 DEF Swept, Unlinked
  <2>3. CASE PolicyCommits
    BY <2>3 DEF PolicyCommits, NoPolicy, Swept
  <2> QED
    BY <1>4, <2>1, <2>2, <2>3 DEF Policy
<1>5. CASE Server
  BY <1>5, SweptKept DEF Server, StartServer, StartUnasked, Launch, ServerReady, ServerEnds,
     StopOutright, records
<1>6. CASE Crash
  BY <1>6 DEF Crash, NoPolicy, Swept
<1>7. CASE UNCHANGED vars
  BY <1>7 DEF vars, Swept
<1> QED
  BY <1>1, <1>2, <1>3, <1>4, <1>5, <1>6, <1>7 DEF Next

LEMMA HandsInit == Init => Hands
<1> SUFFICES ASSUME Init PROVE Hands
  OBVIOUS
<1>1. TypeOK
  BY TypeInit
<1>2. Route /\ Owned /\ Work /\ Swept
  BY DEF Init, Down, Resting, NoPolicy, Route, Owned, Work, Holds, Swept
<1> QED
  BY <1>1, <1>2 DEF Hands

LEMMA HandsStep == Hands /\ [Next]_vars => Hands'
BY TypeStep, RouteStep, OwnedStep, WorkStep, SweptStep DEF Hands

LEMMA HandsCorrect == Spec => []Hands
BY HandsInit, HandsStep, PTL DEF Spec

-----------------------------------------------------------------------------
(* Whoever switches saving off switches it on again.                       *)

SavingInv == Pausing /\ SavingComesBack

LEMMA SavingStep == Hands /\ SavingInv /\ [Next]_vars => SavingInv'
<1> SUFFICES ASSUME Hands, SavingInv, [Next]_vars PROVE SavingInv'
  OBVIOUS
<1> USE DEF Hands, SavingInv
<1>1. ASSUME NEW t \in Tasks, Backup(t) PROVE SavingInv'
  <2>1. /\ task[t] \in TaskStates /\ task \in [Tasks -> TaskStates] /\ server \in ServerStates
        /\ \A u \in Tasks \ {t} : task'[u] = task[u]
    BY <1>1, Alone DEF TypeOK, TasksOK
  <2>2. CASE \E p \in Profiles : CreateBegins(t, p)
    <3>1. PICK p \in Profiles : CreateBegins(t, p)
      BY <2>2
    <3>2. /\ ~task[t].paused /\ server'.phase = server.phase
          /\ task'[t].paused => task'[t].pc = "flush" /\ task'[t].op = "create"
          /\ server'.saving # server.saving => task'[t].paused /\ server.phase = "running"
      <4>1. ~task[t].paused /\ task'[t].op = "create" /\ server'.phase = server.phase
        BY <2>1, <3>1 DEF CreateBegins, Resting, ServerStates
      <4>2. CASE server.owner = p /\ server.phase = "running"
        BY <2>1, <3>1, <4>1, <4>2 DEF CreateBegins, Resting, ServerStates
      <4>3. CASE ~(server.owner = p /\ server.phase = "running")
        <5>1. task'[t].paused = FALSE
          BY <2>1, <3>1, <4>3 DEF CreateBegins, Resting
        <5>2. server'.saving = server.saving
          BY <2>1, <3>1, <4>3 DEF CreateBegins, ServerStates
        <5> QED
          BY <4>1, <5>1, <5>2
      <4> QED
        BY <4>2, <4>3
    <3> QED
      BY <2>1, <3>2 DEF Pausing, SavingComesBack
  <2>3. CASE Flushed(t) \/ ArchiveWritten(t) \/ ArchiveFails(t)
    <3>1. /\ server' = server /\ task'[t].paused = task[t].paused
          /\ task'[t].op = task[t].op /\ task'[t].backup = task[t].backup
      <4>1. CASE Flushed(t)
        BY <2>1, <4>1 DEF Flushed, Go, TaskStates
      <4>2. CASE ArchiveWritten(t)
        BY <2>1, <4>2 DEF ArchiveWritten, Go, TaskStates
      <4>3. CASE ArchiveFails(t)
        BY <2>1, <4>3 DEF ArchiveFails, Fail, TaskStates
      <4> QED
        BY <2>3, <4>1, <4>2, <4>3
    <3>2. CASE Flushed(t)
      <4>1. task'[t].pc = IF task[t].op = "create" THEN "archive"
                          ELSE IF task[t].backup THEN "queue" ELSE "stop"
        BY <2>1, <3>2 DEF Flushed, Go, TaskStates
      <4> QED
        BY <2>1, <3>1, <4>1 DEF Pausing, SavingComesBack
    <3>3. CASE ArchiveWritten(t) \/ ArchiveFails(t)
      <4>1. /\ task'[t].pc \in {"unpause", "commit"}
            /\ task'[t].pc = "commit" => task[t].op # "create"
        <5>1. CASE ArchiveWritten(t)
          BY <2>1, <5>1 DEF ArchiveWritten, Go, TaskStates
        <5>2. CASE ArchiveFails(t)
          BY <2>1, <5>2 DEF ArchiveFails, Fail, TaskStates
        <5> QED
          BY <3>3, <5>1, <5>2
      <4> QED
        BY <2>1, <3>1, <4>1 DEF Pausing, SavingComesBack
    <3> QED
      BY <2>3, <3>2, <3>3
  <2>4. CASE Unpause(t)
    <3>1. /\ task'[t].paused = FALSE /\ server'.phase = server.phase
          /\ server'.saving = (server.saving \/ (task[t].paused /\ server.phase = "running"))
      BY <2>1, <2>4 DEF Unpause, Resting, TaskStates, ServerStates
    <3> QED
      BY <2>1, <3>1 DEF Pausing, SavingComesBack
  <2>5. CASE Commit(t) \/ CommitFails(t)
    <3>1. server' = server /\ task'[t].paused = task[t].paused
      <4>1. server' = server
        BY <2>5 DEF Commit, CommitFails
      <4>2. CASE task[t].op = "create"
        <5>1. task[t].paused = FALSE
          BY <2>1, <2>5, <4>2, CommitTask DEF Pausing, TaskStates
        <5>2. task'[t].paused = FALSE
          BY <2>5, <4>2, CommitTask DEF Resting
        <5> QED
          BY <4>1, <5>1, <5>2
      <4>3. CASE task[t].op # "create"
        BY <2>5, <4>1, <4>3, CommitTask
      <4> QED
        BY <4>2, <4>3
    <3>2. task'[t].paused => task'[t].op = task[t].op /\ task'[t].op # "create"
                             /\ task'[t].pc = "unpause" /\ task'[t].backup = task[t].backup
      BY <2>5, CommitTask DEF Same, Resting
    <3> QED
      BY <2>1, <3>1, <3>2 DEF Pausing, SavingComesBack
  <2> QED
    BY <1>1, <2>2, <2>3, <2>4, <2>5 DEF Backup
<1>2. ASSUME NEW t \in Tasks, ProtectedStop(t) PROVE SavingInv'
  <2>1. /\ task[t] \in TaskStates /\ task \in [Tasks -> TaskStates] /\ server \in ServerStates
        /\ \A u \in Tasks \ {t} : task'[u] = task[u]
    BY <1>2, Alone DEF TypeOK, TasksOK
  <2>2. CASE StopBegins(t)
    BY <2>1, <2>2 DEF StopBegins, Resting, ServerStates, Pausing, SavingComesBack
  <2>3. CASE \E p \in Profiles, backup \in BOOLEAN : MaintainBegins(t, p, backup)
    BY <2>1, <2>3 DEF MaintainBegins, Resting, Pausing, SavingComesBack
  <2>4. CASE PlayersOnline(t)
    BY <2>1, <2>4 DEF PlayersOnline, Rest, Resting, Pausing, SavingComesBack
  <2>5. CASE Announce(t)
    <3>1. task[t].paused = FALSE /\ server'.phase = server.phase
      BY <2>1, <2>5, AnnounceIs DEF Pausing, TaskStates
    <3>2. CASE server' = server /\ task'[t].paused = FALSE
      BY <2>1, <3>1, <3>2 DEF Pausing, SavingComesBack
    <3>3. CASE /\ server.phase = "running" /\ task'[t].pc = "flush" /\ Same(t)
               /\ task'[t].paused = task[t].backup
               /\ server'.saving = (server.saving /\ ~task[t].backup)
      BY <2>1, <3>1, <3>3 DEF Same, Pausing, SavingComesBack
    <3>4. Resting.paused = FALSE /\ Resting.pc = "idle"
      BY DEF Resting
    <3> QED
      BY <2>5, <3>1, <3>2, <3>3, <3>4, AnnounceIs
  <2>6. CASE RecordBegins(t) \/ CriticalRefused(t)
    <3>1. /\ server' = server /\ task'[t].paused = task[t].paused
          /\ task'[t].op = task[t].op /\ task'[t].backup = task[t].backup
          /\ task'[t].pc \in {"archive", "unpause"}
      <4>1. CASE RecordBegins(t)
        BY <2>1, <4>1 DEF RecordBegins, TaskStates
      <4>2. CASE CriticalRefused(t)
        BY <2>1, <4>2 DEF CriticalRefused, Fail, TaskStates
      <4> QED
        BY <2>6, <4>1, <4>2
    <3> QED
      BY <2>1, <3>1, <2>6 DEF RecordBegins, CriticalRefused, Pausing, SavingComesBack
  <2>7. CASE Stop(t)
    BY <2>1, <2>7 DEF Stop, Rest, Resting, Up, ServerStates, Pausing, SavingComesBack
  <2> QED
    BY <1>2, <2>2, <2>3, <2>4, <2>5, <2>6, <2>7 DEF ProtectedStop
<1>3. ASSUME NEW t \in Tasks, Restore(t) PROVE SavingInv'
  <2>1. /\ task[t] \in TaskStates /\ task \in [Tasks -> TaskStates]
        /\ \A u \in Tasks \ {t} : task'[u] = task[u]
    BY <1>3, Alone DEF TypeOK, TasksOK
  <2>2. server' = server /\ ~task[t].paused /\ ~task'[t].paused
    <3>1. CASE \E n \in Records : RestoreAsks(t, n)
      BY <2>1, <3>1 DEF RestoreAsks, Resting
    <3>2. CASE RestoreBegins(t) \/ RestoreVerifies(t) \/ RestoreEnds(t)
      <4>1. task[t].pc \in {"ask", "verify", "swap"} /\ server' = server
        BY <3>2 DEF RestoreBegins, RestoreVerifies, RestoreEnds
      <4>2. ~task[t].paused
        BY <4>1 DEF Pausing
      <4>3. ~task'[t].paused
        BY <2>1, <3>2, <4>2 DEF RestoreBegins, RestoreVerifies, RestoreEnds, Go, Rest, Resting,
           TaskStates
      <4> QED
        BY <4>1, <4>2, <4>3
    <3> QED
      BY <1>3, <3>1, <3>2 DEF Restore
  <2> QED
    BY <2>1, <2>2 DEF Pausing, SavingComesBack
<1>4. CASE Policy
  BY <1>4 DEF Policy, PolicyLoads, PolicyRemoves, PolicyCommits, Pausing, SavingComesBack
<1>5. CASE Server
  BY <1>5 DEF Server, StartServer, StartUnasked, Launch, ServerReady, ServerEnds, Down,
     StopOutright, TypeOK, ServerStates, Pausing, SavingComesBack
<1>6. CASE Crash
  BY <1>6 DEF Crash, Down, Resting, Pausing, SavingComesBack
<1>7. CASE UNCHANGED vars
  BY <1>7 DEF vars, Pausing, SavingComesBack
<1> QED
  BY <1>1, <1>2, <1>3, <1>4, <1>5, <1>6, <1>7 DEF Next

\* A running server whose saving is off has someone on the way to save-on.
THEOREM SavingReturns == Spec => []SavingComesBack
<1>1. Init => SavingInv
  BY DEF Init, Down, Resting, SavingInv, Pausing, SavingComesBack
<1>2. SavingInv => SavingComesBack
  BY DEF SavingInv
<1> QED
  BY <1>1, <1>2, SavingStep, HandsCorrect, PTL DEF Spec

-----------------------------------------------------------------------------
(* What is in progress is being worked on.                                 *)

LEMMA OnlyOwners ==
  ASSUME Route, NEW t \in Tasks, ProtectedStop(t) \/ Restore(t)
  PROVE  task[t].op # "create"
<1>1. task[t] = Resting \/ task[t].pc \in {"probe", "queue", "stop", "ask", "verify", "swap"}
  BY DEF ProtectedStop, StopBegins, MaintainBegins, PlayersOnline, Announce, RecordBegins,
     CriticalRefused, Stop, Restore, RestoreAsks, RestoreBegins, RestoreVerifies, RestoreEnds
<1>2. Resting.op = "none"
  BY DEF Resting
<1> QED
  BY <1>1, <1>2 DEF Route

LEMMA OwnerStep == Hands /\ OwnerBackupEnds /\ [Next]_vars => OwnerBackupEnds'
<1> SUFFICES ASSUME Hands, OwnerBackupEnds, [Next]_vars PROVE OwnerBackupEnds'
  OBVIOUS
<1> USE DEF Hands
<1>1. ASSUME NEW t \in Tasks, Backup(t) PROVE OwnerBackupEnds'
  <2>1. /\ task[t] \in TaskStates /\ task \in [Tasks -> TaskStates]
        /\ \A u \in Tasks \ {t} : task'[u] = task[u]
    BY <1>1, Alone DEF TypeOK, TasksOK
  <2>2. CASE \E p \in Profiles : CreateBegins(t, p)
    <3>1. PICK p \in Profiles : CreateBegins(t, p)
      BY <2>2
    <3>2. /\ task[t].op # "create" /\ task'[t].op = "create" /\ task'[t].rec = created + 1
          /\ UNCHANGED lost
      BY <2>1, <3>1 DEF CreateBegins, Resting, bounds
    <3>3. NewRecord(p, "owner", created + 1)
      BY <3>1 DEF CreateBegins
    <3> QED
      BY <2>1, <3>2, <3>3, NewRecordIs DEF OwnerBackupEnds
  <2>3. CASE Flushed(t) \/ ArchiveWritten(t)
    BY <2>1, <2>3 DEF Flushed, ArchiveWritten, Go, TaskStates, records, bounds, OwnerBackupEnds
  <2>4. CASE ArchiveFails(t)
    <3>1. /\ task'[t].op = task[t].op /\ task'[t].rec = task[t].rec /\ UNCHANGED <<about, lost>>
          /\ \A n \in Records : status'[n] = "in_progress" => status[n] = "in_progress"
      BY <2>1, <2>4 DEF ArchiveFails, Fail, TaskStates, TypeOK, RecordsOK
    <3> QED
      BY <2>1, <3>1 DEF OwnerBackupEnds
  <2>5. CASE Unpause(t)
    <3>1. task[t].op = "create" => task'[t].op = "create" /\ task'[t].rec = task[t].rec
      BY <2>1, <2>5 DEF Unpause, TaskStates
    <3> QED
      BY <2>1, <2>5, <3>1 DEF Unpause, records, bounds, OwnerBackupEnds
  <2>6. CASE Commit(t)
    <3>1. \A n \in Records : status'[n] = "in_progress" =>
            status[n] = "in_progress" /\ n # task[t].rec
      BY <2>6, CommitIs
    <3> QED
      BY <2>1, <2>6, <3>1, CommitIs DEF OwnerBackupEnds
  <2>7. CASE CommitFails(t)
    BY <2>7 DEF CommitFails, OwnerBackupEnds
  <2> QED
    BY <1>1, <2>2, <2>3, <2>4, <2>5, <2>6, <2>7 DEF Backup
<1>2. ASSUME NEW t \in Tasks, ProtectedStop(t) PROVE OwnerBackupEnds'
  <2>1. /\ task[t] \in TaskStates /\ task \in [Tasks -> TaskStates]
        /\ \A u \in Tasks \ {t} : task'[u] = task[u]
    BY <1>2, Alone DEF TypeOK, TasksOK
  <2>2. task[t].op # "create"
    BY <1>2, OnlyOwners
  <2>3. CASE RecordBegins(t)
    <3>1. NewRecord(task[t].profile, "scheduler", task[t].at) /\ UNCHANGED lost
      BY <2>3 DEF RecordBegins, bounds
    <3> QED
      BY <2>1, <2>2, <3>1, NewRecordIs DEF OwnerBackupEnds
  <2>4. CASE Announce(t)
    BY <2>1, <2>2, <2>4, AnnounceIs DEF OwnerBackupEnds
  <2>5. CASE ~RecordBegins(t) /\ ~Announce(t)
    <3>1. UNCHANGED <<status, about, lost>>
      BY <1>2, <2>5 DEF ProtectedStop, StopBegins, MaintainBegins, PlayersOnline,
         CriticalRefused, Stop, records, bounds
    <3> QED
      BY <2>1, <2>2, <3>1 DEF OwnerBackupEnds
  <2> QED
    BY <2>3, <2>4, <2>5
<1>3. ASSUME NEW t \in Tasks, Restore(t) PROVE OwnerBackupEnds'
  <2>1. \A u \in Tasks \ {t} : task'[u] = task[u]
    BY <1>3, Alone
  <2>2. task[t].op # "create" /\ UNCHANGED <<status, about, lost>>
    BY <1>3, OnlyOwners DEF Restore, RestoreAsks, RestoreBegins, RestoreVerifies,
       RestoreEnds, records, bounds
  <2> QED
    BY <2>1, <2>2 DEF OwnerBackupEnds
<1>4. CASE Policy
  <2>1. /\ UNCHANGED <<task, about, lost>>
        /\ \A n \in Records : status'[n] = "in_progress" => status[n] = "in_progress"
    BY <1>4 DEF Policy, PolicyLoads, PolicyRemoves, PolicyCommits, records, bounds
  <2> QED
    BY <2>1 DEF OwnerBackupEnds
<1>5. CASE Server
  BY <1>5 DEF Server, StartServer, StartUnasked, Launch, ServerReady, ServerEnds,
     StopOutright, records, bounds, OwnerBackupEnds
<1>6. CASE Crash
  BY <1>6 DEF Crash, OwnerBackupEnds
<1>7. CASE UNCHANGED vars
  BY <1>7 DEF vars, OwnerBackupEnds
<1> QED
  BY <1>1, <1>2, <1>3, <1>4, <1>5, <1>6, <1>7 DEF Next

\* No owner's backup is stranded in progress.
THEOREM OwnerBackupsEnd == Spec => []OwnerBackupEnds
<1>1. Init => OwnerBackupEnds
  BY DEF Init, OwnerBackupEnds
<1> QED
  BY <1>1, OwnerStep, HandsCorrect, PTL DEF Spec

-----------------------------------------------------------------------------
(* Restores and the owner's requests keep out of each other's way.         *)

Guarding == {"verify", "swap"}

\* Only a restore goes on to verify and swap.
LEMMA NotRestoring ==
  ASSUME TypeOK, NEW t \in Tasks, Backup(t) \/ ProtectedStop(t)
  PROVE  task'[t].pc \notin Guarding
<1> USE DEF Guarding
<1>1. /\ task[t] \in TaskStates /\ task \in [Tasks -> TaskStates]
      /\ Resting.pc = "idle"
  BY DEF TypeOK, TasksOK, Resting
<1>2. CASE \E p \in Profiles : CreateBegins(t, p)
  BY <1>1, <1>2 DEF CreateBegins, Resting
<1>3. CASE Flushed(t) \/ ArchiveWritten(t)
  BY <1>1, <1>3 DEF Flushed, ArchiveWritten, Go, TaskStates
<1>4. CASE ArchiveFails(t)
  BY <1>1, <1>4 DEF ArchiveFails, Fail, TaskStates
<1>5. CASE Unpause(t)
  BY <1>1, <1>5 DEF Unpause, TaskStates
<1>6. CASE Commit(t) \/ CommitFails(t)
  BY <1>1, <1>6, CommitTask
<1>7. CASE StopBegins(t)
  BY <1>1, <1>7 DEF StopBegins, Resting
<1>8. CASE \E p \in Profiles, backup \in BOOLEAN : MaintainBegins(t, p, backup)
  BY <1>1, <1>8 DEF MaintainBegins, Resting
<1>9. CASE PlayersOnline(t) \/ Stop(t)
  BY <1>1, <1>9 DEF PlayersOnline, Stop, Rest
<1>10. CASE Announce(t)
  BY <1>1, <1>10, AnnounceIs
<1>11. CASE RecordBegins(t)
  BY <1>1, <1>11 DEF RecordBegins, TaskStates
<1>12. CASE CriticalRefused(t)
  BY <1>1, <1>12 DEF CriticalRefused, Fail, TaskStates
<1> QED
  BY <1>2, <1>3, <1>4, <1>5, <1>6, <1>7, <1>8, <1>9, <1>10, <1>11, <1>12
  DEF Backup, ProtectedStop

\* A step that neither makes an owner's record for a profile being restored, nor
\* begins a restore, nor gives the server a new owner keeps the guard.
LEMMA GuardKept ==
  ASSUME RestoreIsGuarded, NEW t \in Tasks,
         \A u \in Tasks \ {t} : task'[u] = task[u],
         task'[t].pc \in Guarding => task[t].pc \in Guarding /\ task'[t].profile = task[t].profile,
         \A n \in Records : status'[n] = "in_progress" =>
           \/ status[n] = "in_progress" /\ about'[n] = about[n]
           \/ about'[n].by # "owner" \/ about'[n].profile \notin Restoring,
         server'.owner = server.owner, server'.by = server.by
  PROVE  RestoreIsGuarded'
BY DEF RestoreIsGuarded, Guarding, InProgress, Of, Restoring

LEMMA GuardStep == Hands /\ RestoreIsGuarded /\ [Next]_vars => RestoreIsGuarded'
<1> SUFFICES ASSUME Hands, RestoreIsGuarded, [Next]_vars PROVE RestoreIsGuarded'
  OBVIOUS
<1> USE DEF Hands
<1>1. ASSUME NEW t \in Tasks, Backup(t) PROVE RestoreIsGuarded'
  <2>1. /\ task'[t].pc \notin Guarding /\ server \in ServerStates
        /\ \A u \in Tasks \ {t} : task'[u] = task[u]
    BY <1>1, Alone, NotRestoring DEF TypeOK
  <2>2. CASE \E p \in Profiles : CreateBegins(t, p)
    <3>1. PICK p \in Profiles : CreateBegins(t, p)
      BY <2>2
    <3>2. /\ NewRecord(p, "owner", created + 1) /\ p \notin Restoring
          /\ server'.owner = server.owner /\ server'.by = server.by
      BY <2>1, <3>1 DEF CreateBegins, ServerStates
    <3> QED
      BY <2>1, <3>2, NewRecordIs, GuardKept
  <2>3. CASE Flushed(t) \/ ArchiveWritten(t) \/ CommitFails(t)
    BY <2>1, <2>3, GuardKept DEF Flushed, ArchiveWritten, CommitFails, records
  <2>4. CASE ArchiveFails(t)
    BY <2>1, <2>4, GuardKept DEF ArchiveFails, TypeOK, RecordsOK
  <2>5. CASE Unpause(t)
    BY <2>1, <2>5, GuardKept DEF Unpause, ServerStates, records
  <2>6. CASE Commit(t)
    BY <2>1, <2>6, CommitIs, GuardKept
  <2> QED
    BY <1>1, <2>2, <2>3, <2>4, <2>5, <2>6 DEF Backup
<1>2. ASSUME NEW t \in Tasks, ProtectedStop(t) PROVE RestoreIsGuarded'
  <2>1. /\ task'[t].pc \notin Guarding /\ server \in ServerStates
        /\ \A u \in Tasks \ {t} : task'[u] = task[u]
    BY <1>2, Alone, NotRestoring DEF TypeOK
  <2>2. CASE RecordBegins(t)
    <3>1. NewRecord(task[t].profile, "scheduler", task[t].at) /\ server' = server
      BY <2>2 DEF RecordBegins
    <3> QED
      BY <2>1, <3>1, NewRecordIs, GuardKept
  <2>3. CASE Announce(t)
    BY <2>1, <2>3, AnnounceIs, GuardKept
  <2>4. CASE ~RecordBegins(t) /\ ~Announce(t)
    <3>1. /\ UNCHANGED <<status, about>>
          /\ server'.owner = server.owner /\ server'.by = server.by
      BY <1>2, <2>1, <2>4 DEF ProtectedStop, StopBegins, MaintainBegins, PlayersOnline,
         CriticalRefused, Stop, ServerStates, records
    <3> QED
      BY <2>1, <3>1, GuardKept
  <2> QED
    BY <2>2, <2>3, <2>4
<1>3. ASSUME NEW t \in Tasks, Restore(t) PROVE RestoreIsGuarded'
  <2>1. /\ task[t] \in TaskStates /\ task \in [Tasks -> TaskStates]
        /\ \A u \in Tasks \ {t} : task'[u] = task[u]
        /\ UNCHANGED <<server, status, about>>
    BY <1>3, Alone DEF TypeOK, TasksOK, Restore, RestoreAsks, RestoreBegins, RestoreVerifies,
       RestoreEnds, records
  <2>2. CASE \E n \in Records : RestoreAsks(t, n)
    <3>1. task'[t].pc = "ask"
      BY <2>1, <2>2 DEF RestoreAsks, Resting
    <3> QED
      BY <2>1, <3>1, GuardKept DEF Guarding
  <2>3. CASE RestoreVerifies(t) \/ RestoreEnds(t)
    BY <2>1, <2>3, GuardKept DEF RestoreVerifies, RestoreEnds, Go, Rest, Resting, TaskStates,
       Guarding
  <2>4. CASE RestoreBegins(t)
    <3>1. CASE Rest(t)
      BY <2>1, <3>1, GuardKept DEF Rest, Resting, Guarding
    <3>2. CASE ~Rest(t)
      <4>1. /\ server.owner # task[t].profile /\ task[t].profile \notin Restoring
            /\ InProgress(task[t].profile) = {} /\ task'[t].profile = task[t].profile
        BY <2>1, <2>4, <3>2 DEF RestoreBegins, Go, TaskStates
      <4>2. \A u \in Tasks : task[u].pc \in Guarding => task[u].profile # task[t].profile
        BY <4>1 DEF Restoring, Guarding
      <4> QED
        BY <2>1, <4>1, <4>2 DEF RestoreIsGuarded, InProgress, Of, Guarding
    <3> QED
      BY <3>1, <3>2
  <2> QED
    BY <1>3, <2>2, <2>3, <2>4 DEF Restore
<1>4. CASE Policy
  <2>1. /\ UNCHANGED <<server, task, about>>
        /\ \A n \in Records : status'[n] = "in_progress" => status[n] = "in_progress"
    BY <1>4 DEF Policy, PolicyLoads, PolicyRemoves, PolicyCommits, records
  <2> QED
    BY <2>1 DEF RestoreIsGuarded, InProgress, Of
<1>5. CASE Server
  <2>1. UNCHANGED <<task, status, about>>
    BY <1>5 DEF Server, StartServer, StartUnasked, Launch, ServerReady, ServerEnds,
       StopOutright, records
  <2>2. \A u \in Tasks : task[u].pc \in Guarding => task[u].profile \in Restoring
    BY DEF Restoring, Guarding
  <2>3. \A u \in Tasks : task[u].pc \in Guarding => task[u].profile # NoProfile
    BY Bounds DEF Owned, Guarding
  <2>4. CASE \E p \in Profiles : StartServer(p)
    BY <2>1, <2>2, <2>4 DEF StartServer, Launch, RestoreIsGuarded, InProgress, Of, Guarding
  <2>5. CASE \E p \in Profiles : StartUnasked(p)
    BY <2>1, <2>5 DEF StartUnasked, Launch, RestoreIsGuarded, InProgress, Of
  <2>6. CASE ServerEnds
    BY <2>1, <2>3, <2>6 DEF ServerEnds, Down, RestoreIsGuarded, InProgress, Of, Guarding
  <2>7. CASE ServerReady \/ StopOutright
    BY <2>1, <2>7 DEF ServerReady, StopOutright, TypeOK, ServerStates, RestoreIsGuarded,
       InProgress, Of
  <2> QED
    BY <1>5, <2>4, <2>5, <2>6, <2>7 DEF Server
<1>6. CASE Crash
  BY <1>6 DEF Crash, Resting, RestoreIsGuarded
<1>7. CASE UNCHANGED vars
  BY <1>7 DEF vars, RestoreIsGuarded, InProgress, Of
<1> QED
  BY <1>1, <1>2, <1>3, <1>4, <1>5, <1>6, <1>7 DEF Next

\* One restore of a profile at a time, without its owner's backups and starts.
THEOREM RestoresAreGuarded == Spec => []RestoreIsGuarded
<1>1. Init => RestoreIsGuarded
  BY DEF Init, Resting, RestoreIsGuarded
<1> QED
  BY <1>1, GuardStep, HandsCorrect, PTL DEF Spec

-----------------------------------------------------------------------------
(* The newest complete backup stays.                                       *)

\* select_expired()'s order is total.
LEMMA PrecedesIsAnOrder ==
  ASSUME TypeOK, NEW l \in Records, NEW m \in Records, NEW n \in Records
  PROVE  /\ Precedes(m, m)
         /\ Precedes(m, n) \/ Precedes(n, m)
         /\ Precedes(m, n) /\ Precedes(n, m) => m = n
         /\ Precedes(l, m) /\ Precedes(m, n) => Precedes(l, n)
<1>1. \A k \in Records : about[k].at \in Nat /\ k \in Nat
  BY Bounds DEF TypeOK, RecordsOK, Stories, Records
<1> QED
  BY <1>1 DEF Precedes

\* So what precedes every entry is in no choice of select_expired().
LEMMA NewestIsSpared ==
  ASSUME TypeOK, NEW E \in SUBSET Records, NEW V \in Expirable(E), NEW top \in E,
         \A m \in E : Precedes(top, m)
  PROVE  top \notin V
<1> SUFFICES ASSUME V # {} PROVE top \notin V
  OBVIOUS
<1>1. PICK n \in E \ V : \A m \in E : Precedes(n, m)
  BY DEF Expirable
<1>2. n = top
  BY <1>1, PrecedesIsAnOrder
<1> QED
  BY <1>1, <1>2

\* No step that completes no backup and touches no complete one that the policy
\* has not chosen takes the newest away.
LEMMA NewestKept ==
  ASSUME NewestStays, lost => lost',
         \A n \in Records : status'[n] \in {"completed", "expired"} =>
           status[n] \in {"completed", "expired"} /\ about'[n] = about[n],
         \A n \in Records : status'[n] = "completed" /\ "archive" \in files'[n] =>
           status[n] = "completed" /\ "archive" \in files[n],
         \A n \in Records : status[n] = "completed" /\ files[n] = Whole /\ n \notin policy.victims =>
           /\ status'[n] = "completed" /\ files'[n] = Whole /\ n \notin policy'.victims
           /\ about'[n] = about[n]
  PROVE  NewestStays'
<1> SUFFICES ASSUME ~lost', NEW p \in Profiles,
                    NEW k \in Records, about'[k].profile = p, status'[k] \in {"completed", "expired"}
             PROVE  \E n \in Records : Newest(p, n)'
  BY DEF NewestStays, Of
<1>1. PICK n \in Records : Newest(p, n)
  BY DEF NewestStays, Of
<1>2. /\ about'[n] = about[n] /\ about[n].profile = p
      /\ status'[n] = "completed" /\ files'[n] = Whole /\ n \notin policy'.victims
  BY <1>1 DEF Newest, Of
<1>3. ASSUME NEW m \in Records, about'[m].profile = p, status'[m] = "completed",
             "archive" \in files'[m]
      PROVE  Precedes(n, m)'
  <2>1. about'[m] = about[m] /\ status[m] = "completed" /\ "archive" \in files[m]
    BY <1>3
  <2> QED
    BY <1>1, <1>2, <1>3, <2>1 DEF Newest, Entries, Of, Precedes
<1> QED
  BY <1>2, <1>3 DEF Newest, Of, Entries

LEMMA NewestAfterCommit ==
  ASSUME Hands, NewestStays, NEW t \in Tasks, Commit(t)
  PROVE  NewestStays'
<1> USE DEF Hands
<1>a. PICK p \in Profiles : p = task[t].profile
  BY DEF Commit, Owned
<1>b. PICK r \in Records : r = task[t].rec
  BY DEF Commit, Work, Holds
<1> DEFINE done == [status EXCEPT ![r] = "completed"]
           E == Entries(p, done)
<1>1. CASE ~task[t].ok
  <2>1. /\ status' = [status EXCEPT ![r] = "failed"] /\ UNCHANGED <<about, files, policy, lost>>
        /\ status[r] = "in_progress" /\ r \in Records
    BY <1>1, <1>b DEF Commit, Work, Holds
  <2>2. \A n \in Records : status'[n] = IF n = r THEN "failed" ELSE status[n]
    BY <2>1 DEF TypeOK, RecordsOK
  <2> QED
    BY <2>1, <2>2, NewestKept
<1>2. CASE task[t].ok
  <2>1. PICK gone \in Expirable(E), stuck \in SUBSET Records :
          /\ stuck \subseteq gone
          /\ files' = Unlinked(gone \ stuck, stuck)
          /\ \A m \in Records : status'[m] = IF m \in gone \ stuck THEN "expired" ELSE done[m]
    <3>1. CompleteAndPrune(t)
      BY <1>2 DEF Commit
    <3>2. done = [status EXCEPT ![task[t].rec] = "completed"] /\ E = Entries(task[t].profile, done)
      BY <1>a, <1>b
    <3>3. PICK gone \in Expirable(Entries(task[t].profile, [status EXCEPT ![task[t].rec] = "completed"])),
               stuck \in SUBSET Records :
            /\ stuck \subseteq gone
            /\ files' = Unlinked(gone \ stuck, stuck)
            /\ status' = [m \in Records |-> IF m \in gone \ stuck THEN "expired"
                            ELSE [status EXCEPT ![task[t].rec] = "completed"][m]]
      BY <3>1 DEF CompleteAndPrune
    <3>4. gone \in Expirable(E)
      BY <1>a, <1>b, <3>3
    <3>5. \A m \in Records : status'[m] = IF m \in gone \ stuck THEN "expired" ELSE done[m]
      BY <1>b, <3>3
    <3> HIDE DEF done, E
    <3> QED
      BY <3>3, <3>4, <3>5
  <2>2. /\ r \in Records /\ status[r] = "in_progress" /\ files[r] = Whole /\ r \in Of(p)
        /\ UNCHANGED <<about, policy, lost>>
    BY <1>2, <1>a, <1>b DEF Commit, Work, Holds, Of
  <2>3. \A m \in Records : done[m] = IF m = r THEN "completed" ELSE status[m]
    BY <2>2 DEF TypeOK, RecordsOK
  <2>4. r \notin policy.victims /\ policy' = policy
    BY <2>2 DEF Swept
  <2>5. E \in SUBSET Records /\ gone \subseteq E
    BY DEF Expirable, Entries, Of
  <2> HIDE DEF done
  <2>e. \A m \in Records : m \in E <=> m \in Of(p) /\ done[m] = "completed" /\ "archive" \in files[m]
    BY DEF Entries, Of
  <2> HIDE DEF E
  <2>6. r \in E /\ \A m \in E : m \in Of(p) /\ (m = r \/ m \in Entries(p, status))
    BY <2>2, <2>3, <2>5, <2>e DEF Entries, Whole
  <2>7. SUFFICES ASSUME ~lost PROVE NewestStays'
    BY <2>2 DEF NewestStays
  <2>8. PICK top \in E : /\ files[top] = Whole /\ top \notin policy.victims
                         /\ \A m \in E : Precedes(top, m)
    <3>1. CASE \E n \in Of(p) : status[n] \in {"completed", "expired"}
      <4>1. PICK n \in Records : Newest(p, n)
        BY <2>7, <3>1 DEF NewestStays
      <4>2. n \in E /\ files[n] = Whole /\ n \notin policy.victims
        BY <2>2, <2>3, <2>e, <4>1 DEF Newest, Whole
      <4>3. \A m \in E : m = r \/ Precedes(n, m)
        BY <2>6, <4>1 DEF Newest
      <4>4. CASE Precedes(n, r)
        BY <4>2, <4>3, <4>4
      <4>5. CASE Precedes(r, n)
        <5>1. \A m \in E : Precedes(r, m)
          BY <2>2, <2>5, <4>1, <4>3, <4>5, PrecedesIsAnOrder
        <5> QED
          BY <2>2, <2>4, <2>6, <5>1
      <4> QED
        BY <2>2, <4>4, <4>5, PrecedesIsAnOrder
    <3>2. CASE ~\E n \in Of(p) : status[n] \in {"completed", "expired"}
      <4>1. \A m \in E : m = r
        BY <2>6, <3>2 DEF Entries
      <4> QED
        BY <2>2, <2>4, <2>6, <4>1, PrecedesIsAnOrder
    <3> QED
      BY <3>1, <3>2
  <2>9. top \notin gone
    BY <2>1, <2>5, <2>8, NewestIsSpared
  <2>10. \A m \in Records : m \notin gone => files'[m] = files[m] /\ status'[m] = done[m]
    BY <2>1 DEF Unlinked
  <2>11. \A m \in Records : /\ files'[m] \subseteq files[m]
                            /\ status'[m] = "completed" => done[m] = "completed"
    BY <2>1 DEF Unlinked
  <2>12. Newest(p, top)'
    <3>1. top \in Of(p) /\ top \in Records /\ done[top] = "completed"
      BY <2>5, <2>8, <2>e
    <3>2. top \in Of(p)' /\ status'[top] = "completed" /\ files'[top] = Whole
          /\ top \notin policy'.victims
      BY <2>2, <2>4, <2>8, <2>9, <2>10, <3>1 DEF Of
    <3>3. \A m \in Records : about[m].profile = p /\ status'[m] = "completed" /\ "archive" \in files'[m] =>
            m \in E
      BY <2>11, <2>e DEF Of
    <3>4. \A m \in E : Precedes(top, m)'
      BY <2>2, <2>8 DEF Precedes
    <3> QED
      BY <2>2, <3>2, <3>3, <3>4 DEF Newest, Entries, Of
  <2>13. ASSUME NEW q \in Profiles \ {p}, NEW k \in Of(q)', status'[k] \in {"completed", "expired"}
         PROVE  \E n \in Records : Newest(q, n)'
    <3>1. \A m \in Records : about[m].profile = q =>
            files'[m] = files[m] /\ status'[m] = status[m]
      BY <2>2, <2>3, <2>5, <2>6, <2>10 DEF Of
    <3>2. k \in Of(q) /\ status[k] \in {"completed", "expired"}
      BY <2>2, <2>13, <3>1 DEF Of
    <3>3. PICK n \in Records : Newest(q, n)
      BY <2>7, <3>2 DEF NewestStays
    <3> QED
      BY <2>2, <3>1, <3>3 DEF Newest, Entries, Of, Precedes
  <2> QED
    BY <2>12, <2>13, <2>8, <2>5 DEF NewestStays
<1> QED
  BY <1>1, <1>2

LEMMA NewestStep == Hands /\ NewestStays /\ [Next]_vars => NewestStays'
<1> SUFFICES ASSUME Hands, NewestStays, [Next]_vars PROVE NewestStays'
  OBVIOUS
<1> USE DEF Hands
<1>1. ASSUME NEW t \in Tasks, Backup(t) PROVE NewestStays'
  <2>1. CASE \E p \in Profiles : CreateBegins(t, p)
    <3>1. PICK p \in Profiles : CreateBegins(t, p)
      BY <2>1
    <3>2. NewRecord(p, "owner", created + 1) /\ UNCHANGED <<files, policy, lost>>
      BY <3>1 DEF CreateBegins, bounds
    <3>3. status[created + 1] = "none"
      BY <3>2, NewRecordIs DEF Owned, TypeOK, RecordsOK
    <3> QED
      BY <3>2, <3>3, NewRecordIs, NewestKept
  <2>2. CASE Flushed(t) \/ Unpause(t)
    BY <2>2, NewestKept DEF Flushed, Unpause, records, bounds
  <2>3. CASE ArchiveWritten(t) \/ ArchiveFails(t)
    <3>1. /\ task[t].rec \in Records /\ status[task[t].rec] = "in_progress"
          /\ status'[task[t].rec] \notin {"completed", "expired"}
          /\ UNCHANGED <<about, policy, lost>>
          /\ \A n \in Records \ {task[t].rec} : status'[n] = status[n] /\ files'[n] = files[n]
      BY <2>3 DEF ArchiveWritten, ArchiveFails, Work, Holds, TypeOK, RecordsOK, records, bounds
    <3> QED
      BY <3>1, NewestKept
  <2>4. CASE Commit(t)
    BY <2>4, NewestAfterCommit
  <2>5. CASE CommitFails(t)
    BY <2>5 DEF CommitFails, NewestStays
  <2> QED
    BY <1>1, <2>1, <2>2, <2>3, <2>4, <2>5 DEF Backup
<1>2. ASSUME NEW t \in Tasks, ProtectedStop(t) PROVE NewestStays'
  <2>1. CASE RecordBegins(t)
    <3>1. NewRecord(task[t].profile, "scheduler", task[t].at) /\ UNCHANGED <<files, policy, lost>>
      BY <2>1 DEF RecordBegins, bounds
    <3>2. status[created + 1] = "none"
      BY <3>1, NewRecordIs DEF Owned, TypeOK, RecordsOK
    <3> QED
      BY <3>1, <3>2, NewRecordIs, NewestKept
  <2>2. CASE Announce(t)
    BY <2>2, AnnounceIs, NewestKept
  <2>3. CASE ~RecordBegins(t) /\ ~Announce(t)
    <3>1. UNCHANGED <<status, about, files, policy, lost>>
      BY <1>2, <2>3 DEF ProtectedStop, StopBegins, MaintainBegins, PlayersOnline,
         CriticalRefused, Stop, records, bounds
    <3> QED
      BY <3>1, NewestKept
  <2> QED
    BY <2>1, <2>2, <2>3
<1>3. ASSUME NEW t \in Tasks, Restore(t) PROVE NewestStays'
  <2>1. UNCHANGED <<status, about, files, policy, lost>>
    BY <1>3 DEF Restore, RestoreAsks, RestoreBegins, RestoreVerifies, RestoreEnds, records,
       bounds
  <2> QED
    BY <2>1, NewestKept
<1>4. CASE Policy
  <2>1. ASSUME NEW p \in Profiles, PolicyLoads(p) PROVE NewestStays'
    <3>1. PICK V \in Expirable(Entries(p, status)) :
            policy' = [profile |-> p, victims |-> V, gone |-> {}]
      BY <2>1 DEF PolicyLoads
    <3>2. UNCHANGED <<status, about, files, lost>>
      BY <2>1 DEF PolicyLoads, records, bounds
    <3>3. Entries(p, status) \in SUBSET Records /\ V \subseteq Entries(p, status)
      BY DEF Entries, Of, Expirable
    <3>4. ASSUME NEW q \in Profiles, NEW n \in Records, Newest(q, n) PROVE n \notin V
      <4>1. n \in Entries(q, status) /\ \A m \in Entries(q, status) : Precedes(n, m)
        BY <3>4 DEF Newest, Entries, Whole
      <4>2. CASE q = p
        BY <3>3, <4>1, <4>2, NewestIsSpared
      <4>3. CASE q # p
        BY <3>3, <4>1, <4>3 DEF Entries, Of
      <4> QED
        BY <4>2, <4>3
    <3>5. policy'.victims = V
      BY <3>1
    <3>6. ASSUME NEW q \in Profiles, NEW n \in Records, Newest(q, n) PROVE Newest(q, n)'
      BY <3>2, <3>4, <3>5, <3>6 DEF Newest, Entries, Of, Precedes
    <3> QED
      BY <3>2, <3>6 DEF NewestStays, Of
  <2>2. ASSUME NEW n \in Records, PolicyRemoves(n) PROVE NewestStays'
    <3>1. /\ UNCHANGED <<status, about, lost>> /\ n \in policy.victims
          /\ policy'.victims \subseteq policy.victims
      BY <2>2 DEF PolicyRemoves, records, TypeOK
    <3>2. \A m \in Records : files'[m] \subseteq files[m] /\ (m # n => files'[m] = files[m])
      BY <2>2 DEF PolicyRemoves, Unlinked
    <3> QED
      BY <3>1, <3>2, NewestKept
  <2>3. CASE PolicyCommits
    <3>1. UNCHANGED <<about, files, lost>> /\ policy'.victims = {}
      BY <2>3 DEF PolicyCommits, NoPolicy, bounds
    <3>2. \A n \in Records : status'[n] = IF n \in policy.gone THEN "expired" ELSE status[n]
      BY <2>3 DEF PolicyCommits
    <3>3. \A n \in policy.gone \cap Records : /\ status[n] \in {"completed", "expired"}
                                              /\ files[n] # Whole
      BY DEF Swept, Whole
    <3> QED
      BY <3>1, <3>2, <3>3, NewestKept
  <2> QED
    BY <1>4, <2>1, <2>2, <2>3 DEF Policy
<1>5. CASE Server
  BY <1>5, NewestKept DEF Server, StartServer, StartUnasked, Launch, ServerReady, ServerEnds,
     StopOutright, records, bounds
<1>6. CASE Crash
  BY <1>6, NewestKept DEF Crash, NoPolicy
<1>7. CASE UNCHANGED vars
  BY <1>7, NewestKept DEF vars
<1> QED
  BY <1>1, <1>2, <1>3, <1>4, <1>5, <1>6, <1>7 DEF Next

LEMMA NewestCorrect == Spec => []NewestStays
<1>1. Init => NewestStays
  BY DEF Init, NewestStays, Of
<1> QED
  BY <1>1, NewestStep, HandsCorrect, PTL DEF Spec

LEMMA NewestIsGood == NewestStays => KnownGoodSurvives
BY DEF NewestStays, Newest, KnownGoodSurvives, Restorable, Of

\* No two sweeps of retention between them remove a profile's last backup.
THEOREM KnownGoodStays == Spec => []KnownGoodSurvives
BY NewestCorrect, NewestIsGood, PTL

-----------------------------------------------------------------------------
(* A protected stop has its backup.                                        *)

\* No step takes a complete record away, or gives the launched server another owner.
Steady ==
  /\ \A n \in Records : status[n] \in {"completed", "expired"} =>
       status'[n] \in {"completed", "expired"} /\ about'[n] = about[n]
  /\ server'.launch \in Nat /\ server.launch <= server'.launch
  /\ server'.phase \in Up /\ server'.launch = server.launch =>
       server.phase \in Up /\ server'.owner = server.owner

LEMMA OthersKnow ==
  ASSUME TypeOK, Protecting, Steady, NEW u \in Tasks, task'[u] = task[u]
  PROVE  Knows(u)'
<1>1. task[u].launch \in Nat /\ server.launch \in Nat
  BY Bounds DEF TypeOK, TasksOK, TaskStates, ServerStates
<1>2. Knows(u)
  BY DEF Protecting, Knows
<1> QED
  BY <1>1, <1>2 DEF Knows, Steady, Of

LEMMA IsSteady == Hands /\ [Next]_vars => Steady
<1> SUFFICES ASSUME Hands, [Next]_vars PROVE Steady
  OBVIOUS
<1> USE DEF Hands
<1>0. server \in ServerStates /\ server.launch \in Nat /\ server.launch <= server.launch
  BY Bounds DEF TypeOK, ServerStates
<1>1. ASSUME NEW t \in Tasks, Backup(t) PROVE Steady
  <2>1. /\ server'.launch = server.launch /\ server'.owner = server.owner
        /\ server'.phase = server.phase
    BY <1>0, <1>1 DEF Backup, CreateBegins, Flushed, ArchiveWritten, ArchiveFails, Unpause,
       Commit, CommitFails, ServerStates
  <2>2. CASE \E p \in Profiles : CreateBegins(t, p)
    <3>1. PICK p \in Profiles : NewRecord(p, "owner", created + 1)
      BY <2>2 DEF CreateBegins
    <3> QED
      BY <1>0, <2>1, <3>1, NewRecordIs DEF Steady, Owned, TypeOK, RecordsOK
  <2>3. CASE Flushed(t) \/ ArchiveWritten(t) \/ Unpause(t) \/ CommitFails(t)
    BY <1>0, <2>1, <2>3 DEF Flushed, ArchiveWritten, Unpause, CommitFails, records, Steady
  <2>4. CASE ArchiveFails(t)
    BY <1>0, <2>1, <2>4 DEF ArchiveFails, Work, Holds, TypeOK, RecordsOK, Steady
  <2>5. CASE Commit(t)
    BY <1>0, <2>1, <2>5, CommitIs DEF Steady
  <2> QED
    BY <1>1, <2>2, <2>3, <2>4, <2>5 DEF Backup
<1>2. ASSUME NEW t \in Tasks, ProtectedStop(t) PROVE Steady
  <2>1. CASE RecordBegins(t)
    <3>1. NewRecord(task[t].profile, "scheduler", task[t].at) /\ server' = server
      BY <2>1 DEF RecordBegins
    <3> QED
      BY <1>0, <3>1, NewRecordIs DEF Steady, Owned, TypeOK, RecordsOK
  <2>2. CASE Announce(t)
    BY <1>0, <2>2, AnnounceIs DEF Steady
  <2>3. CASE ~RecordBegins(t) /\ ~Announce(t)
    <3>1. UNCHANGED <<status, about>>
      BY <1>2, <2>3 DEF ProtectedStop, StopBegins, MaintainBegins, PlayersOnline,
         CriticalRefused, Stop, records
    <3>2. /\ server'.launch = server.launch /\ server'.owner = server.owner
          /\ server'.phase = server.phase \/ server'.phase = "stopping"
      BY <1>0, <1>2, <2>3 DEF ProtectedStop, StopBegins, MaintainBegins, PlayersOnline,
         CriticalRefused, Stop, ServerStates
    <3> QED
      BY <1>0, <3>1, <3>2 DEF Steady, Up
  <2> QED
    BY <2>1, <2>2, <2>3
<1>3. ASSUME NEW t \in Tasks, Restore(t) PROVE Steady
  <2>1. UNCHANGED <<server, status, about>>
    BY <1>3 DEF Restore, RestoreAsks, RestoreBegins, RestoreVerifies, RestoreEnds, records
  <2> QED
    BY <1>0, <2>1 DEF Steady
<1>4. CASE Policy
  <2>1. UNCHANGED <<server, about>>
    BY <1>4 DEF Policy, PolicyLoads, PolicyRemoves, PolicyCommits, records
  <2>2. \A n \in Records : status'[n] = status[n] \/ status'[n] = "expired"
    BY <1>4 DEF Policy, PolicyLoads, PolicyRemoves, PolicyCommits, records
  <2> QED
    BY <1>0, <2>1, <2>2 DEF Steady
<1>5. CASE Server
  <2>1. UNCHANGED <<status, about>>
    BY <1>5 DEF Server, StartServer, StartUnasked, Launch, ServerReady, ServerEnds,
       StopOutright, records
  <2>2. CASE \E p \in Profiles : StartServer(p) \/ StartUnasked(p)
    <3>1. server'.launch = server.launch + 1
      BY <2>2 DEF StartServer, StartUnasked, Launch
    <3> QED
      BY <1>0, <2>1, <3>1 DEF Steady
  <2>3. CASE ServerReady \/ StopOutright
    BY <1>0, <2>1, <2>3 DEF ServerReady, StopOutright, ServerStates, Up, Steady
  <2>4. CASE ServerEnds
    BY <1>0, <2>1, <2>4 DEF ServerEnds, Down, Up, Steady
  <2> QED
    BY <1>5, <2>2, <2>3, <2>4 DEF Server
<1>6. CASE Crash
  BY <1>0, <1>6 DEF Crash, Down, Up, TypeOK, RecordsOK, Steady
<1>7. CASE UNCHANGED vars
  BY <1>0, <1>7 DEF vars, Steady
<1> QED
  BY <1>1, <1>2, <1>3, <1>4, <1>5, <1>6, <1>7 DEF Next

\* What a task that goes on with its stop, and with its record, needs to keep.
LEMMA StillKnows ==
  ASSUME TypeOK, Protecting, Steady, NEW t \in Tasks, Same(t),
         task'[t].pc \in {"probe", "flush", "queue", "archive", "commit"} => task'[t].ok,
         (task'[t].pc = "unpause" /\ task'[t].ok) \/ (task'[t].pc = "stop" /\ task'[t].backup) =>
           (task[t].pc = "unpause" /\ task[t].ok) \/ (task[t].pc = "stop" /\ task[t].backup)
  PROVE  Knows(t)'
<1>1. task[t].launch \in Nat /\ server.launch \in Nat
  BY Bounds DEF TypeOK, TasksOK, TaskStates, ServerStates
<1>2. Knows(t)
  BY DEF Protecting, Knows
<1> QED
  BY <1>1, <1>2 DEF Knows, Steady, Same, Of

LEMMA ProtectingStep == Hands /\ Protecting /\ [Next]_vars => Protecting'
<1> SUFFICES ASSUME Hands, Protecting, [Next]_vars, NEW t \in Tasks PROVE Knows(t)'
  BY DEF Protecting, Knows
<1> USE DEF Hands
<1>1. Steady
  BY IsSteady
<1>2. /\ task[t] \in TaskStates /\ task \in [Tasks -> TaskStates]
      /\ server.launch \in Nat /\ server \in ServerStates
  BY Bounds DEF TypeOK, TasksOK, ServerStates
<1>3. Resting.op = "none"
  BY DEF Resting
<1>4. CASE task'[t] = task[t]
  BY <1>1, <1>4, OthersKnow
<1>5. CASE task'[t].op \notin {"stop", "maintain"}
  BY <1>5 DEF Knows
<1>6. ASSUME Backup(t), task'[t].op \in {"stop", "maintain"} PROVE Knows(t)'
  <2>1. CASE \E p \in Profiles : CreateBegins(t, p)
    BY <1>2, <1>6, <2>1 DEF CreateBegins, Resting
  <2>2. CASE Flushed(t)
    <3>1. Same(t) /\ task'[t].ok = task[t].ok
      BY <1>2, <2>2 DEF Flushed, Go, Same, TaskStates
    <3>2. task'[t].pc = IF task[t].backup THEN "queue" ELSE "stop"
      BY <1>2, <1>6, <2>2, <3>1 DEF Flushed, Go, Same, TaskStates
    <3> QED
      BY <1>1, <1>6, <2>2, <3>1, <3>2, StillKnows DEF Flushed, Protecting, Knows, Same
  <2>3. CASE ArchiveWritten(t)
    <3>1. Same(t) /\ task'[t].ok = task[t].ok
      BY <1>2, <2>3 DEF ArchiveWritten, Go, Same, TaskStates
    <3>2. task'[t].pc = "commit"
      BY <1>2, <1>6, <2>3, <3>1 DEF ArchiveWritten, Go, Same, TaskStates
    <3> QED
      BY <1>1, <1>6, <2>3, <3>1, <3>2, StillKnows DEF ArchiveWritten, Protecting, Knows, Same
  <2>4. CASE ArchiveFails(t)
    <3>1. Same(t) /\ task'[t].pc = "unpause" /\ task'[t].ok = FALSE
      BY <1>2, <2>4 DEF ArchiveFails, Fail, Same, TaskStates
    <3> QED
      BY <1>1, <3>1, StillKnows
  <2>5. CASE Unpause(t)
    <3>1. task[t].op # "create" /\ task'[t] # Resting
      BY <1>2, <1>3, <1>6, <2>5 DEF Unpause, TaskStates
    <3>2. Same(t) /\ task'[t].pc = "stop" /\ task[t].pc = "unpause" /\ task[t].ok
      BY <1>2, <2>5, <3>1 DEF Unpause, Same, TaskStates
    <3> QED
      BY <1>1, <3>2, StillKnows
  <2>6. CASE Commit(t) \/ CommitFails(t)
    <3>1. task[t].op # "create"
      BY <1>3, <1>6, <2>6, CommitTask
    <3>2. /\ Same(t) /\ task'[t].pc = "unpause"
          /\ task'[t].ok => task[t].ok /\ Commit(t)
      BY <2>6, <3>1, CommitTask
    <3>3. CASE ~task'[t].ok
      BY <1>1, <3>2, <3>3, StillKnows
    <3>4. CASE task'[t].ok
      <4>1. /\ task[t].rec \in Records /\ about'[task[t].rec].profile = task[t].profile
            /\ status'[task[t].rec] \in {"completed", "expired"}
        <5>1. /\ task[t].pc = "commit" /\ task[t].ok /\ Commit(t)
          BY <3>2, <3>4 DEF Commit
        <5>2. task[t].rec \in Records /\ about[task[t].rec].profile = task[t].profile
          BY <5>1 DEF Work, Holds
        <5>3. about' = about /\ status'[task[t].rec] \in {"completed", "expired"}
          BY <5>1, CommitIs
        <5> QED
          BY <5>2, <5>3
      <4>2. server' = server
        BY <3>2, <3>4 DEF Commit
      <4>3. /\ task[t].launch <= server.launch
            /\ task[t].launch = server.launch /\ server.phase \in Up => server.owner = task[t].profile
        BY <1>6, <3>2 DEF Protecting, Knows, Same
      <4> QED
        BY <3>2, <4>1, <4>2, <4>3 DEF Knows, Same, Of
    <3> QED
      BY <3>3, <3>4
  <2> QED
    BY <1>6, <2>1, <2>2, <2>3, <2>4, <2>5, <2>6 DEF Backup
<1>7. ASSUME ProtectedStop(t), task'[t].op \in {"stop", "maintain"} PROVE Knows(t)'
  <2>1. CASE StopBegins(t)
    <3>1. /\ task'[t].launch = server.launch /\ task'[t].profile = server.owner
          /\ task'[t].pc = "flush" /\ task'[t].ok
          /\ server'.launch = server.launch /\ server'.owner = server.owner
      BY <1>2, <2>1 DEF StopBegins, Resting, ServerStates
    <3> QED
      BY <1>2, <3>1 DEF Knows
  <2>2. CASE \E p \in Profiles, backup \in BOOLEAN : MaintainBegins(t, p, backup)
    <3>1. /\ task'[t].launch = server.launch /\ task'[t].profile = server.owner
          /\ task'[t].pc = "probe" /\ task'[t].ok /\ server' = server
      BY <1>2, <2>2 DEF MaintainBegins, Resting
    <3> QED
      BY <1>2, <3>1 DEF Knows
  <2>3. CASE PlayersOnline(t) \/ Stop(t)
    BY <1>2, <1>3, <1>7, <2>3 DEF PlayersOnline, Stop, Rest
  <2>4. CASE Announce(t)
    <3>1. Same(t) /\ task'[t].ok = task[t].ok /\ task[t].pc = "probe"
      BY <1>3, <1>7, <2>4, AnnounceIs
    <3>2. task'[t].pc \in {"queue", "flush"} \/ (task'[t].pc = "stop" /\ ~task[t].backup)
      BY <1>3, <1>7, <2>4, AnnounceIs
    <3> QED
      BY <1>1, <1>7, <3>1, <3>2, StillKnows DEF Protecting, Knows, Same
  <2>5. CASE RecordBegins(t)
    <3>1. /\ task'[t].op = task[t].op /\ task'[t].launch = task[t].launch
          /\ task'[t].profile = task[t].profile /\ task'[t].pc = "archive"
          /\ task'[t].ok = task[t].ok /\ task[t].pc = "queue" /\ server' = server
      BY <1>2, <2>5 DEF RecordBegins, TaskStates
    <3> QED
      BY <1>7, <3>1 DEF Protecting, Knows
  <2>6. CASE CriticalRefused(t)
    <3>1. Same(t) /\ task'[t].pc = "unpause" /\ task'[t].ok = FALSE
      BY <1>2, <2>6 DEF CriticalRefused, Fail, Same, TaskStates
    <3> QED
      BY <1>1, <3>1, StillKnows
  <2> QED
    BY <1>7, <2>1, <2>2, <2>3, <2>4, <2>5, <2>6 DEF ProtectedStop
<1>8. ASSUME Restore(t) PROVE task'[t].op \notin {"stop", "maintain"}
  <2>1. CASE \E n \in Records : RestoreAsks(t, n)
    BY <1>2, <2>1 DEF RestoreAsks, Resting
  <2>2. CASE RestoreBegins(t) \/ RestoreVerifies(t) \/ RestoreEnds(t)
    <3>1. task[t].op \notin {"stop", "maintain"}
      BY <2>2 DEF RestoreBegins, RestoreVerifies, RestoreEnds, Route
    <3> QED
      BY <1>2, <1>3, <2>2, <3>1 DEF RestoreBegins, RestoreVerifies, RestoreEnds, Go, Rest,
         TaskStates
  <2> QED
    BY <1>8, <2>1, <2>2 DEF Restore
<1>9. ASSUME NEW u \in Tasks \ {t}, Backup(u) \/ ProtectedStop(u) \/ Restore(u)
      PROVE  task'[t] = task[t]
  BY <1>9, Alone
<1>10. ASSUME Policy \/ Server \/ UNCHANGED vars PROVE task'[t] = task[t]
  BY <1>10 DEF Policy, PolicyLoads, PolicyRemoves, PolicyCommits, Server, StartServer,
     StartUnasked, Launch, ServerReady, ServerEnds, StopOutright, vars
<1>11. ASSUME Crash PROVE task'[t].op = "none"
  BY <1>3, <1>11 DEF Crash
<1> QED
  BY <1>4, <1>5, <1>6, <1>7, <1>8, <1>9, <1>10, <1>11 DEF Next

LEMMA ProtectingIsSafe ==
  TypeOK /\ Route /\ Owned /\ Protecting /\ KnownGoodSurvives => StopIsProtected
<1> SUFFICES ASSUME TypeOK, Route, Owned, Protecting, KnownGoodSurvives, ~lost, NEW t \in Tasks,
                    task[t].pc = "stop", task[t].backup,
                    server.launch = task[t].launch, server.phase \in Up
             PROVE  Restorable(server.owner) # {}
  BY DEF StopIsProtected
<1>1. task[t].op \in {"stop", "maintain"}
  BY DEF Route, TypeOK, TasksOK, TaskStates, Ops
<1>2. /\ server.owner = task[t].profile
      /\ task[t].rec \in Of(task[t].profile) /\ status[task[t].rec] \in {"completed", "expired"}
  BY <1>1 DEF Protecting, Knows
<1>3. server.owner \in Profiles
  BY DEF Owned, Up
<1> QED
  BY <1>2, <1>3 DEF KnownGoodSurvives

\* A stop that waited for a backup finds the server it looked at restorable.
THEOREM StopsAreProtected == Spec => []StopIsProtected
<1>1. Init => Protecting
  BY DEF Init, Resting, Protecting, Knows
<1>2. Hands /\ Protecting /\ KnownGoodSurvives => StopIsProtected
  BY ProtectingIsSafe DEF Hands
<1> QED
  BY <1>1, <1>2, ProtectingStep, HandsCorrect, KnownGoodStays, PTL DEF Spec

=============================================================================
