------------------------------- MODULE Backups -------------------------------
(***************************************************************************)
(* World backups, what they wait for and what waits for them: the owner's  *)
(* create_backup and restore_backup (app.py), the scheduler's maintenance  *)
(* and the backup before a manual stop (scheduler.py, app.py), retention   *)
(* (retention.py), and the start-up clean-up of interrupted records.        *)
(*                                                                          *)
(* An action is what one coroutine or thread does between two awaits.  The *)
(* server is the one ServerPromise promises: down, starting, running or     *)
(* stopping; a server flushes its world on request and stops writing it     *)
(* between save-off and save-on.  Policies of retention are any choice that *)
(* select_expired could make for some counts, ages and sizes.               *)
(***************************************************************************)
EXTENDS Naturals

CONSTANTS
  Profiles, NoProfile,
  Tasks,            \* requests and the scheduler's loop: whoever can run one
  MaxBackups,       \* backup records, numbered as they are created
  MaxLaunches, MaxFailures, MaxCrashes

ASSUME BackupAssumptions ==
  /\ NoProfile \notin Profiles
  /\ {MaxBackups, MaxLaunches, MaxFailures, MaxCrashes} \subseteq Nat

Records == 1..MaxBackups
Whole == {"archive", "manifest"}

VARIABLES
  server,    \* the managed server: its phase and owner, whether its start asked
             \* about restores, which launch it is, whether it saves
  task,      \* what each task does and where it is suspended
  status,    \* BackupRecord.status, as committed
  about,     \* BackupRecord's profile, author and created_at
  created,   \* how many records there are
  files,     \* what of each backup is on disk
  policy,    \* the thread of update_backup_policy
  lost,      \* history: was retention's work ever rolled back after its unlinks?
  failures, crashes

vars == <<server, task, status, about, created, files, policy, lost, failures, crashes>>
records == <<status, about, created>>
bounds == <<lost, failures, crashes>>

Resting == [op |-> "none", pc |-> "idle", profile |-> NoProfile, launch |-> 0,
            looked |-> "down", backup |-> FALSE, paused |-> FALSE, rec |-> 0,
            at |-> 0, ok |-> TRUE]
NoPolicy == [profile |-> NoProfile, victims |-> {}, gone |-> {}]

Down(launch) == [phase |-> "down", owner |-> NoProfile, by |-> "nobody",
                 launch |-> launch, saving |-> TRUE]

Init ==
  /\ server = Down(0)
  /\ task = [t \in Tasks |-> Resting]
  /\ status = [n \in Records |-> "none"]
  /\ about = [n \in Records |-> [profile |-> NoProfile, by |-> "none", at |-> 0]]
  /\ created = 0
  /\ files = [n \in Records |-> {}]
  /\ policy = NoPolicy
  /\ lost = FALSE /\ failures = 0 /\ crashes = 0

Up == {"starting", "running"}

Of(p) == {n \in Records : about[n].profile = p}
InProgress(p) == {n \in Of(p) : status[n] = "in_progress"}

\* restoring_profiles
Restoring == {task[t].profile : t \in {u \in Tasks : task[u].pc \in {"verify", "swap"}}}

Go(t, pc) == task' = [task EXCEPT ![t].pc = pc]
Fail(t, pc) == task' = [task EXCEPT ![t] = [@ EXCEPT !.pc = pc, !.ok = FALSE]]
\* Mutant: a task that rests keeps what it had in hand.
RestInPlace(t) == Go(t, "idle")
Rest(t) == task' = [task EXCEPT ![t] = Resting]

-----------------------------------------------------------------------------
(* Records and retention.                                                  *)

\* A new record, in progress and committed, for task t and profile p.
NewRecord(p, by, at) ==
  /\ created < MaxBackups
  /\ created' = created + 1
  /\ status' = [status EXCEPT ![created + 1] = "in_progress"]
  /\ about' = [about EXCEPT ![created + 1] = [profile |-> p, by |-> by, at |-> at]]

\* What enforce_retention() looks at: completed records with their archive.
Entries(p, st) == {n \in Of(p) : st[n] = "completed" /\ "archive" \in files[n]}

\* Mutant: age and size may expire the newest backup as well.
ExpirableAll(E) == SUBSET E

\* The order of select_expired(): newest first, ties as the query returns them.
\* at counts the records there were when a task began, so that of two records
\* with the same count the later is the older.
Precedes(m, n) ==
  about[m].at > about[n].at \/ (about[m].at = about[n].at /\ m <= n)

\* What select_expired() may choose from the entries: never the newest.
Expirable(E) ==
  {V \in SUBSET E : V # {} => \E n \in E \ V : \A m \in E : Precedes(n, m)}

\* Both files of the records in gone are unlinked; of those in stuck only the
\* archive is, and the record is left alone.
Unlinked(gone, stuck) ==
  [n \in Records |-> IF n \in gone THEN {}
                     ELSE IF n \in stuck THEN files[n] \ {"archive"} ELSE files[n]]

\* enforce_retention() within the session of a backup that completed, and the
\* commit of both.
CompleteAndPrune(t) ==
  LET n == task[t].rec
      done == [status EXCEPT ![n] = "completed"]
  IN \E gone \in Expirable(Entries(task[t].profile, done)), stuck \in SUBSET Records :
       /\ stuck \subseteq gone
       /\ failures' = failures + (IF stuck = {} THEN 0 ELSE 1)
       /\ failures' <= MaxFailures
       /\ files' = Unlinked(gone \ stuck, stuck)
       /\ status' = [m \in Records |-> IF m \in gone \ stuck THEN "expired" ELSE done[m]]

\* update_backup_policy() runs in a thread of its own.  A choice of nothing
\* changes nothing.
PolicyLoads(p) ==
  /\ policy = NoPolicy
  /\ \E V \in Expirable(Entries(p, status)) \ {{}} :
       policy' = [profile |-> p, victims |-> V, gone |-> {}]
  /\ UNCHANGED <<server, task, records, files, bounds>>

PolicyRemoves(n) ==
  /\ n \in policy.victims
  /\ \/ /\ files' = Unlinked({n}, {})
        /\ policy' = [policy EXCEPT !.victims = @ \ {n}, !.gone = @ \union {n}]
        /\ UNCHANGED failures
     \/ /\ failures < MaxFailures
        /\ failures' = failures + 1
        /\ files' = Unlinked({}, {n})
        /\ policy' = [policy EXCEPT !.victims = @ \ {n}]
  /\ UNCHANGED <<server, task, records, lost, crashes>>

PolicyCommits ==
  /\ policy # NoPolicy
  /\ policy.victims = {}
  /\ status' = [n \in Records |-> IF n \in policy.gone THEN "expired" ELSE status[n]]
  /\ policy' = NoPolicy
  /\ UNCHANGED <<server, task, about, created, files, bounds>>

-----------------------------------------------------------------------------
(* The owner's backup: create_backup().                                    *)

\* Under update_lock; what follows the lock does not suspend before save-off.
CreateBegins(t, p) ==
  /\ task[t] = Resting
  /\ InProgress(p) = {}
  /\ p \notin Restoring
  /\ NewRecord(p, "owner", created + 1)
  /\ LET phase == IF server.owner = p THEN server.phase ELSE "down" IN
       /\ task' = [task EXCEPT ![t] =
            [Resting EXCEPT !.op = "create", !.profile = p, !.rec = created + 1,
               !.pc = CASE phase = "running" -> "flush"
                        [] phase = "starting" -> "commit"   \* save-off is refused
                        [] OTHER -> "archive",
               !.ok = phase # "starting",
               !.paused = (phase = "running")]]
       /\ server' = [server EXCEPT !.saving = @ /\ phase # "running"]
  /\ UNCHANGED <<files, policy, bounds>>

\* save_world() returns: confirmed, timed out or server gone alike.
Flushed(t) ==
  /\ task[t].pc = "flush"
  /\ Go(t, IF task[t].op = "create" THEN "archive"
           ELSE IF task[t].backup THEN "queue" ELSE "stop")
  /\ UNCHANGED <<server, records, files, policy, bounds>>

\* create_backup_archive() in its thread.
ArchiveWritten(t) ==
  /\ task[t].pc = "archive"
  /\ files' = [files EXCEPT ![task[t].rec] = Whole]
  /\ Go(t, IF task[t].op = "create" THEN "unpause" ELSE "commit")
  /\ UNCHANGED <<server, records, policy, bounds>>

\* Mutant: the owner's backup handles no more kinds of failure than the scheduler's.
ArchiveStrands(t) ==
  /\ task[t].pc = "archive" /\ failures < MaxFailures
  /\ failures' = failures + 1
  /\ IF task[t].op = "create" THEN Rest(t) ELSE Fail(t, "unpause")
  /\ UNCHANGED <<server, records, files, policy, lost, crashes>>

\* The archive cannot be written.  The scheduler commits the failure of a
\* BackupError at once; any other exception leaves its record in progress.
ArchiveFails(t) ==
  /\ task[t].pc = "archive" /\ failures < MaxFailures
  /\ failures' = failures + 1
  /\ Fail(t, "unpause")
  /\ \/ /\ task[t].op # "create"
        /\ status' = [status EXCEPT ![task[t].rec] = "failed"]
     \/ UNCHANGED status
  /\ UNCHANGED <<server, about, created, files, policy, lost, crashes>>

\* Mutants: only success turns saving back on; a failure does not keep the
\* server from being stopped.
UnpauseOnSuccess(t) ==
  /\ task[t].pc = "unpause"
  /\ server' = [server EXCEPT !.saving = @ \/ (task[t].ok /\ task[t].paused)]
  /\ IF task[t].op = "create" THEN Go(t, "commit")
     ELSE IF task[t].ok THEN Go(t, "stop") ELSE Rest(t)
  /\ UNCHANGED <<records, files, policy, bounds>>
UnpauseAndStop(t) ==
  /\ task[t].pc = "unpause"
  /\ server' = [server EXCEPT !.saving = @ \/ task[t].paused]
  /\ task' = [task EXCEPT ![t].pc = IF task[t].op = "create" THEN "commit" ELSE "stop",
                          ![t].paused = FALSE]
  /\ UNCHANGED <<records, files, policy, bounds>>

\* The finally block: save-on, refused unless a server is running.
Unpause(t) ==
  /\ task[t].pc = "unpause"
  /\ LET heard == task[t].paused /\ server.phase = "running"
         ok == task[t].ok /\ (task[t].paused => heard)
     IN /\ server' = [server EXCEPT !.saving = @ \/ heard]
        /\ task' = [task EXCEPT ![t] =
             IF task[t].op = "create"
               THEN [@ EXCEPT !.pc = "commit", !.ok = ok, !.paused = FALSE]
             ELSE IF ok THEN [@ EXCEPT !.pc = "stop", !.paused = FALSE] ELSE Resting]
  /\ UNCHANGED <<records, files, policy, bounds>>

\* The record's outcome is committed.
Commit(t) ==
  /\ task[t].pc = "commit"
  /\ IF task[t].ok THEN CompleteAndPrune(t)
     ELSE /\ status' = [status EXCEPT ![task[t].rec] = "failed"]
          /\ UNCHANGED <<files, failures>>
  /\ IF task[t].op = "create" THEN Rest(t) ELSE Go(t, "unpause")
  /\ UNCHANGED <<server, about, created, policy, lost, crashes>>

\* It is not, after retention unlinked its choice: the disk is full, or the
\* database is locked (or, if a Crash follows, the service died).
CommitFails(t) ==
  /\ task[t].pc = "commit" /\ task[t].ok
  /\ failures < MaxFailures
  /\ failures' = failures + 1
  /\ \E gone \in Expirable(Entries(task[t].profile, [status EXCEPT ![task[t].rec] = "completed"])) :
       files' = Unlinked(gone, {})
  /\ lost' = TRUE
  /\ IF task[t].op = "create" THEN Rest(t) ELSE Fail(t, "unpause")
  /\ UNCHANGED <<server, records, policy, crashes>>

-----------------------------------------------------------------------------
(* The backup before a stop: process_stop() and _execute_maintenance().    *)

\* A running server is protected first: save-off follows the look at once.
StopBegins(t) ==
  /\ task[t] = Resting
  /\ server.phase = "running"
  /\ server' = [server EXCEPT !.saving = FALSE]
  /\ task' = [task EXCEPT ![t] =
       [Resting EXCEPT !.op = "stop", !.pc = "flush", !.profile = server.owner,
          !.launch = server.launch, !.backup = TRUE,
          !.paused = TRUE, !.at = created + 1]]
  /\ UNCHANGED <<records, files, policy, bounds>>

\* A server that still starts is stopped at once; process_restart() and
\* saved_switch() stop any.
StopOutright ==
  /\ server.phase \in Up
  /\ server' = [server EXCEPT !.phase = "stopping"]
  /\ UNCHANGED <<task, records, files, policy, bounds>>

\* The scheduler looks at the server, and may then ask who is playing.
MaintainBegins(t, p, backup) ==
  /\ task[t] = Resting
  /\ server.phase \in Up /\ server.owner = p
  /\ task' = [task EXCEPT ![t] =
       [Resting EXCEPT !.op = "maintain", !.pc = "probe", !.profile = p,
          !.launch = server.launch, !.looked = server.phase, !.backup = backup,
          !.at = created + 1]]
  /\ UNCHANGED <<server, records, files, policy, bounds>>

PlayersOnline(t) ==
  /\ task[t].pc = "probe"
  /\ Rest(t)
  /\ UNCHANGED <<server, records, files, policy, bounds>>

\* _maintenance_commands() goes by the state that was seen before the probe.
Announce(t) ==
  /\ task[t].pc = "probe"
  /\ IF task[t].looked = "starting"
       THEN /\ task' = [task EXCEPT ![t] =
                 [@ EXCEPT !.pc = IF task[t].backup THEN "queue" ELSE "stop", !.looked = "down"]]
            /\ UNCHANGED server
     ELSE IF server.phase = "running"
       THEN /\ task' = [task EXCEPT ![t] =
                 [@ EXCEPT !.pc = "flush", !.paused = task[t].backup, !.looked = "down"]]
            /\ server' = [server EXCEPT !.saving = @ /\ ~task[t].backup]
     ELSE Rest(t) /\ UNCHANGED server                  \* say is refused
  /\ UNCHANGED <<records, files, policy, bounds>>

\* begin_critical_operation() waits for update_lock; then the record is made,
\* whatever other record is in progress.
RecordBegins(t) ==
  /\ task[t].pc = "queue"
  /\ NewRecord(task[t].profile, "scheduler", task[t].at)
  /\ task' = [task EXCEPT ![t] = [@ EXCEPT !.pc = "archive", !.rec = created + 1, !.at = 0]]
  /\ UNCHANGED <<server, files, policy, bounds>>

\* Blockstead is being updated.
CriticalRefused(t) ==
  /\ task[t].pc = "queue"
  /\ Fail(t, "unpause")
  /\ UNCHANGED <<server, records, files, policy, bounds>>

\* manager.stop(), refused unless a server is starting or running.
Stop(t) ==
  /\ task[t].pc = "stop"
  /\ server' = IF server.phase \in Up THEN [server EXCEPT !.phase = "stopping"] ELSE server
  /\ Rest(t)
  /\ UNCHANGED <<records, files, policy, bounds>>

-----------------------------------------------------------------------------
(* restore_backup().                                                       *)

\* restore_context() reads the record before update_lock is waited for.
RestoreAsks(t, n) ==
  /\ task[t] = Resting
  /\ status[n] = "completed"
  /\ task' = [task EXCEPT ![t] =
       [Resting EXCEPT !.op = "restore", !.pc = "ask", !.rec = n,
                       !.profile = about[n].profile]]
  /\ UNCHANGED <<server, records, files, policy, bounds>>

\* Mutant: a backup that is in progress does not block a restore.
RestoreBeginsUnasked(t) ==
  /\ task[t].pc = "ask"
  /\ IF /\ server.owner # task[t].profile
        /\ task[t].profile \notin Restoring
       THEN Go(t, "verify") ELSE Rest(t)
  /\ UNCHANGED <<server, records, files, policy, bounds>>

\* Under update_lock, with restore_blockers().
RestoreBegins(t) ==
  /\ task[t].pc = "ask"
  /\ IF /\ server.owner # task[t].profile
        /\ task[t].profile \notin Restoring
        /\ InProgress(task[t].profile) = {}
       THEN Go(t, "verify") ELSE Rest(t)
  /\ UNCHANGED <<server, records, files, policy, bounds>>

\* plan_restore() wants both files; then the worlds are swapped.
RestoreVerifies(t) ==
  /\ task[t].pc = "verify"
  /\ IF files[task[t].rec] = Whole THEN Go(t, "swap") ELSE Rest(t)
  /\ UNCHANGED <<server, records, files, policy, bounds>>

RestoreEnds(t) ==
  /\ task[t].pc = "swap"
  /\ Rest(t)
  /\ UNCHANGED <<server, records, files, policy, bounds>>

-----------------------------------------------------------------------------
(* The server, and the service's own end.                                  *)

Launch(p, by) ==
  /\ server.phase = "down"
  /\ server.launch < MaxLaunches
  /\ server' = [phase |-> "starting", owner |-> p, by |-> by,
                launch |-> server.launch + 1, saving |-> TRUE]
  /\ UNCHANGED <<task, records, files, policy, bounds>>

\* process_start() refuses a profile that is being restored ...
StartServer(p) == p \notin Restoring /\ Launch(p, "asked")

\* ... and scheduled_start(), process_restart(), saved_switch() and the resume
\* after an update do not ask.
StartUnasked(p) == Launch(p, "unasked")

ServerReady ==
  /\ server.phase = "starting"
  /\ server' = [server EXCEPT !.phase = "running"]
  /\ UNCHANGED <<task, records, files, policy, bounds>>

ServerEnds ==
  /\ server.phase # "down"
  /\ server' = Down(server.launch)
  /\ UNCHANGED <<task, records, files, policy, bounds>>

\* The service dies with its server, threads and memory, and starts again: the
\* lifespan fails what was in progress.
Crash ==
  /\ crashes < MaxCrashes
  /\ crashes' = crashes + 1
  /\ server' = Down(server.launch)
  /\ task' = [t \in Tasks |-> Resting]
  /\ policy' = NoPolicy
  /\ status' = [n \in Records |-> IF status[n] = "in_progress" THEN "failed" ELSE status[n]]
  /\ UNCHANGED <<about, created, files, lost, failures>>

-----------------------------------------------------------------------------
Backup(t) ==
  \/ \E p \in Profiles : CreateBegins(t, p)
  \/ Flushed(t) \/ ArchiveWritten(t) \/ ArchiveFails(t) \/ Unpause(t)
  \/ Commit(t) \/ CommitFails(t)
ProtectedStop(t) ==
  \/ StopBegins(t)
  \/ \E p \in Profiles, backup \in BOOLEAN : MaintainBegins(t, p, backup)
  \/ PlayersOnline(t) \/ Announce(t) \/ RecordBegins(t) \/ CriticalRefused(t) \/ Stop(t)
Restore(t) ==
  \/ \E n \in Records : RestoreAsks(t, n)
  \/ RestoreBegins(t) \/ RestoreVerifies(t) \/ RestoreEnds(t)
Policy ==
  \/ \E p \in Profiles : PolicyLoads(p)
  \/ \E n \in Records : PolicyRemoves(n)
  \/ PolicyCommits
Server ==
  \/ \E p \in Profiles : StartServer(p) \/ StartUnasked(p)
  \/ ServerReady \/ ServerEnds \/ StopOutright

Next == (\E t \in Tasks : Backup(t) \/ ProtectedStop(t) \/ Restore(t)) \/ Policy \/ Server \/ Crash

Spec == Init /\ [][Next]_vars

-----------------------------------------------------------------------------
(* Properties.                                                             *)

Ops == {"none", "create", "stop", "maintain", "restore"}
Places == {"idle", "probe", "flush", "queue", "archive", "unpause", "commit", "stop",
           "ask", "verify", "swap"}

TaskStates ==
  [op : Ops, pc : Places, profile : Profiles \union {NoProfile}, launch : 0..MaxLaunches,
   looked : Up \union {"down"}, backup : BOOLEAN, paused : BOOLEAN, rec : 0..MaxBackups,
   at : 0..(MaxBackups + 1), ok : BOOLEAN]
ServerStates ==
  [phase : Up \union {"down", "stopping"}, owner : Profiles \union {NoProfile},
   by : {"nobody", "asked", "unasked"}, launch : 0..MaxLaunches, saving : BOOLEAN]
Stories ==
  [profile : Profiles \union {NoProfile}, by : {"none", "owner", "scheduler"},
   at : 0..(MaxBackups + 1)]

TasksOK ==
  /\ task \in [Tasks -> TaskStates]
  /\ \A t \in Tasks : task[t].pc = "idle" <=> task[t] = Resting

RecordsOK ==
  /\ status \in [Records -> {"none", "in_progress", "completed", "failed", "expired"}]
  /\ about \in [Records -> Stories]
  /\ created \in 0..MaxBackups

\* Every variable has the values that the code gives it; a task that rests has
\* nothing in hand.
TypeOK ==
  /\ server \in ServerStates
  /\ TasksOK /\ RecordsOK
  /\ files \in [Records -> SUBSET Whole]
  /\ policy \in [profile : Profiles \union {NoProfile}, victims : SUBSET Records,
                 gone : SUBSET Records]
  /\ lost \in BOOLEAN /\ failures \in 0..MaxFailures /\ crashes \in 0..MaxCrashes

\* A running server never stays with saving switched off: whoever switched it
\* off is still going to switch it on (the finally blocks of create_backup,
\* _maintenance_commands and backup_before_manual_stop).
SavingComesBack ==
  server.phase = "running" /\ ~server.saving => \E t \in Tasks : task[t].paused

\* The backups a restore of p would accept.
Restorable(p) == {n \in Of(p) : status[n] = "completed" /\ files[n] = Whole}

\* Once a profile has had a completed backup it always has one that is whole:
\* no two sweeps of retention between them remove the last (retention.py and
\* backups.py: "the only known-good backup survives every policy").  A commit
\* that fails after the unlinks is the one exception.
KnownGoodSurvives ==
  ~lost => \A p \in Profiles :
    (\E n \in Of(p) : status[n] \in {"completed", "expired"}) => Restorable(p) # {}

\* When a stop that was to be preceded by a backup reaches the server that was
\* looked at, that server's world can be restored (process_stop and maintenance
\* leave the server running if the backup fails).
StopIsProtected ==
  ~lost => \A t \in Tasks :
    /\ task[t].pc = "stop" /\ task[t].backup
    /\ server.launch = task[t].launch /\ server.phase \in Up
    => Restorable(server.owner) # {}

\* While a profile is restored, the owner's requests keep out of its way: one
\* restore at a time, no backup by the owner, no server from process_start()
\* (restoring_profiles and in-progress records, checked under update_lock).
RestoreIsGuarded ==
  \A t \in Tasks : task[t].pc \in {"verify", "swap"} =>
    /\ \A u \in Tasks \ {t} :
         task[u].profile = task[t].profile => task[u].pc \notin {"verify", "swap"}
    /\ \A n \in InProgress(task[t].profile) : about[n].by # "owner"
    /\ server.owner = task[t].profile => server.by = "unasked"

\* An owner's backup that is in progress is being worked on, so that it will end
\* and give the profile back to restores, updates and other backups
\* (create_backup handles every exception but that of its last commit).
OwnerBackupEnds ==
  ~lost => \A n \in Records : status[n] = "in_progress" /\ about[n].by = "owner" =>
    \E t \in Tasks : task[t].op = "create" /\ task[t].rec = n

\* "Do not let two backup, restore, upgrade, or lifecycle operations conflict"
\* (docs/product-spec.md): a profile has one backup or restore at a time, and no
\* server while it is being restored.
OperationsDoNotConflict ==
  \A p \in Profiles :
    /\ \A t, u \in Tasks :
         {task[t].profile, task[u].profile} = {p}
           /\ {task[t].pc, task[u].pc} \subseteq {"archive", "verify", "swap"} => t = u
    /\ p \in Restoring => server.owner # p

=============================================================================
