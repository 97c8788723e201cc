----------------------------- MODULE ServerFolders -----------------------------
(***************************************************************************)
(* The folders of the server root and the profiles that own them: imports, *)
(* uploads, new servers, modpacks, protected copies for another loader or  *)
(* a saved setup, switches between setups, and removals (provisioning.py,  *)
(* modpacks.py, loader_migration.py, import_scan.py and their handlers in  *)
(* app.py).                                                                *)
(*                                                                         *)
(* Nothing reserves a folder while a request works in it: requests meet at *)
(* the file system, the profiles' unique folder and the update lock.       *)
(***************************************************************************)
EXTENDS Naturals, FiniteSets

CONSTANTS
  Names, NoName,   \* folders directly inside the server root
  Tasks, NoTask,   \* requests of several steps
  MaxRequests,     \* bound on the requests of a behaviour
  MaxWorld         \* bound on the versions of a world folder

Owner == "owner"

ConstantsOK ==
  /\ NoName \notin Names /\ NoTask \notin Tasks /\ Owner \notin Tasks \union {NoTask}
  /\ MaxRequests \in Nat /\ MaxWorld \in Nat \ {0}

VARIABLES
  folders,   \* what each folder holds
  profiles,  \* folders that a profile owns; no two profiles share one
  setup,     \* the profiles of the saved setup
  backups,   \* profiles whose newest backup is verified (and fresh enough)
  copying,   \* profiles with a backup in progress
  server,    \* the managed server and the folder it runs in
  active,    \* app.state.active_profile_id
  lock,      \* who holds update_lock
  tasks,
  requests

disk == <<folders, profiles, setup, backups>>
host == <<copying, server, active>>
vars == <<disk, host, lock, tasks, requests>>

Roots == {"overworld", "nether"}
Nothing == [r \in Roots |-> 0]
Gone == [kind |-> "none", world |-> Nothing]
Begun == [kind |-> "partial", world |-> Nothing]
Scanned == [kind |-> "whole", world |-> [r \in Roots |-> 1]]
RootsOf(n) == {r \in Roots : folders[n].world[r] > 0}

Idle ==
  [pc |-> "idle", op |-> "none", name |-> NoName, source |-> NoName, seen |-> Nothing,
   files |-> FALSE, waited |-> FALSE, crossed |-> FALSE, answer |-> "none"]

Init ==
  /\ folders \in [Names -> {Gone, Scanned}]
  /\ profiles = {n \in Names : folders[n] # Gone} /\ setup = profiles
  /\ backups \in SUBSET profiles /\ copying = {}
  /\ server = [state |-> "stopped", in |-> NoName] /\ active = NoName /\ lock = NoTask
  /\ tasks = [t \in Tasks |-> Idle] /\ requests = 0

Set(t, task) == tasks' = [tasks EXCEPT ![t] = task]
Goes(t, pc) == Set(t, [tasks[t] EXCEPT !.pc = pc])
Answered(answer) == [Idle EXCEPT !.pc = "answer", !.answer = answer]
Answers(t, answer) == Set(t, Answered(answer))
Asks == requests < MaxRequests /\ requests' = requests + 1
Begins(t, task) == Asks /\ tasks[t] = Idle /\ Set(t, task)

\* The owner uses a folder that a request in progress works with.
Crossed(n) ==
  [t \in Tasks |-> [tasks[t] EXCEPT !.crossed = @ \/ n \in {tasks[t].name, tasks[t].source}]]

Crosses(t, task) == tasks' = [Crossed(tasks[t].name) EXCEPT ![t] = task]

\* A request writes or removes a folder that another one has in hand: a name
\* that is only asked for is not.
Disturbed(n) ==
  [t \in Tasks |-> [tasks[t] EXCEPT !.crossed =
     \/ @ \/ n = tasks[t].source
     \/ n = tasks[t].name /\ tasks[t].pc \notin {"upload", "plan"}]]

Disturbs(t, task) == tasks' = [Disturbed(tasks[t].name) EXCEPT ![t] = task]

Exists(n) == folders[n].kind # "none"
Put(n, folder) == folders' = [folders EXCEPT ![n] = folder]

\* Best effort: what could not be deleted stays.
Cleared(n) == {Gone, folders[n]}

-----------------------------------------------------------------------------
(* The server.                                                             *)

\* process_start() and the scheduler's start, under update_lock.
StartBegins ==
  /\ lock = NoTask /\ lock' = Owner
  /\ server.state = "stopped"
  /\ \E n \in profiles :
       /\ folders[n].kind = "whole"
       /\ server' = [state |-> "up", in |-> n]
       /\ tasks' = Crossed(n)
  /\ UNCHANGED <<disk, copying, active, requests>>

StartReturns ==
  /\ lock = Owner /\ lock' = NoTask
  /\ active' = server.in
  /\ tasks' = Crossed(server.in)
  /\ UNCHANGED <<disk, copying, server, requests>>

Alive == server.state # "stopped"

\* process_stop(): the server is told, and may take longer than the request waits.
\* A start holds the manager's lock until its server is known as the active one.
StopBegins ==
  /\ server.state = "up" /\ lock # Owner /\ \A t \in Tasks : tasks[t].pc # "started"
  /\ server' = [server EXCEPT !.state = "stopping"]
  /\ UNCHANGED <<disk, copying, active, lock, tasks, requests>>

\* A session writes all its worlds.
Plays ==
  /\ Alive /\ RootsOf(server.in) # {}
  /\ \A r \in Roots : folders[server.in].world[r] < MaxWorld
  /\ folders' = [folders EXCEPT ![server.in].world =
                   [r \in Roots |-> IF @[r] > 0 THEN @[r] + 1 ELSE 0]]
  /\ UNCHANGED <<profiles, setup, backups, host, lock, tasks, requests>>

\* Only a stop that the owner asked for clears the active profile.
ServerEnds ==
  /\ Alive
  /\ server' = [server EXCEPT !.state = "stopped"]
  /\ active' \in {active, NoName}
  /\ UNCHANGED <<disk, copying, lock, tasks, requests>>

\* Bound: one backup at a time.
BackupBegins ==
  /\ copying = {}
  /\ \E n \in profiles :
       /\ folders[n].kind = "whole"
       /\ copying' = copying \union {n} /\ tasks' = Crossed(n)
  /\ UNCHANGED <<disk, server, active, lock, requests>>

BackupEnds ==
  /\ \E n \in copying :
       /\ copying' = copying \ {n}
       /\ backups' \in {backups, backups \union ({n} \intersect profiles)}
  /\ UNCHANGED <<folders, profiles, setup, server, active, lock, tasks, requests>>

-----------------------------------------------------------------------------
(* New folders.                                                            *)

Overlaps(n) == n \in profiles

\* A record of a folder that is there.
Import ==
  /\ Asks
  /\ \E n \in Names :
       /\ Exists(n) /\ ~Overlaps(n)
       /\ profiles' = profiles \union {n} /\ tasks' = Crossed(n)
  /\ UNCHANGED <<folders, setup, backups, host, lock>>

\* Nobody asks whether a profile without its folder still has the name.
New(op, n) == [Idle EXCEPT !.op = op, !.name = n, !.crossed = @ \/ n \in profiles]

\* The files arrive in a staging folder of their own.
Upload(t) ==
  /\ \E n \in Names :
       ~Exists(n) /\ Begins(t, [New("upload", n) EXCEPT !.pc = "upload"])
  /\ UNCHANGED <<disk, host, lock>>

\* A batch of files cannot be written, or the owner cancels.
UploadFails(t) ==
  /\ tasks[t].pc = "upload" /\ Answers(t, "refused")
  /\ UNCHANGED <<disk, host, lock, requests>>

\* The name is asked for again, and the staging folder moved into place.
FinishUpload(t) ==
  /\ tasks[t].pc = "upload"
  /\ IF Exists(tasks[t].name) THEN Answers(t, "refused") /\ UNCHANGED folders
     ELSE Put(tasks[t].name, Scanned) /\ Goes(t, "register")
  /\ UNCHANGED <<profiles, setup, backups, host, lock, requests>>

Provision(t) ==
  /\ \E n \in Names :
       ~Exists(n) /\ Begins(t, [New("provision", n) EXCEPT !.pc = "plan"])
  /\ UNCHANGED <<disk, host, lock>>

\* A pack that cannot be read leaves nothing.
BadModpack(t) ==
  /\ Begins(t, Answered("refused"))
  /\ UNCHANGED <<disk, host, lock>>

\* A modpack is read before its folder is made, without an await in between.
Modpack(t) ==
  /\ \E n \in Names :
       /\ ~Exists(n) /\ Put(n, Begun)
       /\ Begins(t, [New("modpack", n) EXCEPT !.pc = "pack"])
  /\ UNCHANGED <<profiles, setup, backups, host, lock>>

\* Reviewed again in the request: a stopped server, worlds to copy, and a fresh
\* verified backup of them.
Copyable(n) ==
  /\ n \in profiles \intersect backups /\ folders[n].kind = "whole" /\ RootsOf(n) # {}
  /\ server.state = "stopped"

Copying(op, n, s) == [New(op, n) EXCEPT !.pc = "plan", !.source = s, !.seen = folders[s].world]

Migrate(t) ==
  /\ \E n, s \in Names : Copyable(s) /\ ~Exists(n) /\ Begins(t, Copying("migrate", n, s))
  /\ UNCHANGED <<disk, host, lock>>

CreateVariant(t) ==
  /\ setup # {}
  /\ \E n, s \in Names : Copyable(s) /\ ~Exists(n) /\ Begins(t, Copying("variant", n, s))
  /\ UNCHANGED <<disk, host, lock>>

PlanFails(t) ==
  /\ tasks[t].pc = "plan" /\ Answers(t, "refused")
  /\ UNCHANGED <<disk, host, lock, requests>>

\* The catalogue answered; mkdir() refuses a folder that has appeared, outside
\* the block whose failure removes the folder.
Make(t) ==
  /\ tasks[t].pc = "plan"
  /\ \/ /\ ~Exists(tasks[t].name)
        /\ Put(tasks[t].name, Begun) /\ Goes(t, "install")
     \/ /\ Exists(tasks[t].name)
        /\ Answers(t, "refused") /\ UNCHANGED folders
  /\ UNCHANGED <<profiles, setup, backups, host, lock, requests>>

\* The files of a modpack and its overrides.
Unpack(t) ==
  /\ tasks[t].pc = "pack"
  /\ Exists(tasks[t].name) /\ Goes(t, "install")
  /\ UNCHANGED <<disk, host, lock, requests>>

\* The server's file, verified, and its loader. A folder that was removed
\* meanwhile makes the installation fail.
Install(t) ==
  /\ tasks[t].pc = "install" /\ Exists(tasks[t].name)
  /\ Put(tasks[t].name, [folders[tasks[t].name] EXCEPT !.kind = "whole"])
  /\ Goes(t, IF tasks[t].source = NoName THEN "register" ELSE "copy")
  /\ UNCHANGED <<profiles, setup, backups, host, lock, requests>>

\* Whatever is in the folder by then goes with it.
InstallFails(t) ==
  /\ tasks[t].pc \in {"pack", "install"}
  /\ folders' \in {[folders EXCEPT ![tasks[t].name] = f] : f \in Cleared(tasks[t].name)}
  /\ Disturbs(t, Answered("failed"))
  /\ UNCHANGED <<profiles, setup, backups, host, lock, requests>>

Reviewed(t) == {r \in Roots : tasks[t].seen[r] > 0}
Missing(t) == Reviewed(t) \ RootsOf(tasks[t].name)

\* Mutant: only the first world folder is copied.
CopyOverworld(t) ==
  /\ tasks[t].pc = "copy"
  /\ folders' = [folders EXCEPT ![tasks[t].name].world["overworld"] =
                   folders[tasks[t].source].world["overworld"]]
  /\ Goes(t, "register")
  /\ UNCHANGED <<profiles, setup, backups, host, lock, requests>>

\* One world folder after another, in a thread.
CopyRoot(t) ==
  /\ tasks[t].pc = "copy" /\ Exists(tasks[t].name)
  /\ \E r \in Missing(t) \intersect RootsOf(tasks[t].source) :
       /\ folders' = [folders EXCEPT ![tasks[t].name].world[r] =
                        folders[tasks[t].source].world[r]]
       /\ Disturbs(t, [tasks[t] EXCEPT !.pc = IF Missing(t) = {r} THEN "register" ELSE "copy"])
  /\ UNCHANGED <<profiles, setup, backups, host, lock, requests>>

\* The copy, or in the copying requests the record, failed: the target goes.
Undone(t) ==
  /\ folders' \in {[folders EXCEPT ![tasks[t].name] = f] : f \in Cleared(tasks[t].name)}
  /\ Disturbs(t, Answered(IF folders'[tasks[t].name] = Gone THEN "undone" ELSE "left"))

CopyFails(t) ==
  /\ tasks[t].pc = "copy"
  /\ Undone(t)
  /\ UNCHANGED <<profiles, setup, backups, host, lock, requests>>

Register(t) ==
  /\ tasks[t].pc = "register" /\ tasks[t].name \notin profiles
  /\ profiles' = profiles \union {tasks[t].name}
  /\ setup' = IF tasks[t].op = "variant" THEN setup \union {tasks[t].name} ELSE setup
  /\ Crosses(t, Answered("created"))
  /\ UNCHANGED <<folders, backups, host, lock, requests>>

\* A new server's folder stays without a profile; a copy is removed.
RegisterFails(t) ==
  /\ tasks[t].pc = "register"
  /\ IF tasks[t].source = NoName THEN Answers(t, "failed") /\ UNCHANGED folders ELSE Undone(t)
  /\ UNCHANGED <<profiles, setup, backups, host, lock, requests>>

CreateSetup ==
  /\ Asks
  /\ \E n \in profiles \ setup : setup' = setup \union {n}
  /\ UNCHANGED <<folders, profiles, backups, host, lock, tasks>>

-----------------------------------------------------------------------------
(* Switching between the profiles of a saved setup.                        *)

\* A server that is still stopping counts as none.
Current == IF server.state = "up" THEN active ELSE NoName

\* Mutant: the review does not ask for a backup of the running profile.
SwitchUnprotected(t) ==
  /\ \E n \in setup \intersect profiles :
       /\ Current # n
       /\ Begins(t, [Idle EXCEPT !.pc = IF lock = NoTask THEN "stop" ELSE "queue",
                                 !.op = "switch", !.name = n, !.source = Current,
                                 !.waited = lock # NoTask])
  /\ lock' = IF lock = NoTask THEN t ELSE lock
  /\ UNCHANGED <<disk, host>>

\* The review and, if update_lock is free, its acquisition have no await
\* between them.
Switch(t) ==
  /\ \E n \in setup \intersect profiles :
       /\ Current # n
       /\ Current \in profiles => Current \in backups
       /\ Begins(t, [Idle EXCEPT !.pc = IF lock = NoTask THEN "stop" ELSE "queue",
                                 !.op = "switch", !.name = n, !.source = Current,
                                 !.waited = lock # NoTask])
  /\ lock' = IF lock = NoTask THEN t ELSE lock
  /\ UNCHANGED <<disk, host>>

SwitchLocks(t) ==
  /\ tasks[t].pc = "queue" /\ lock = NoTask
  /\ lock' = t /\ Goes(t, "stop")
  /\ UNCHANGED <<disk, host, requests>>

SwitchStops(t) ==
  /\ tasks[t].pc = "stop"
  /\ \/ /\ server.state = "up"
        /\ server' = [state |-> "stopped", in |-> NoName] /\ active' = NoName
        /\ Goes(t, "start") /\ UNCHANGED lock
     \/ /\ server.state = "up"
        /\ server' = [server EXCEPT !.state = "stopping"]
        /\ Answers(t, "timed_out") /\ lock' = NoTask /\ UNCHANGED active
     \/ /\ server.state # "up"
        /\ Goes(t, "start") /\ UNCHANGED <<server, active, lock>>
  /\ UNCHANGED <<disk, copying, requests>>

SwitchStarts(t) ==
  /\ tasks[t].pc = "start"
  /\ LET n == tasks[t].name
     IN \/ /\ folders[n].kind = "whole" /\ server.state = "stopped"
           /\ server' = [state |-> "up", in |-> n]
           /\ Crosses(t, [tasks[t] EXCEPT !.pc = "started"])
           /\ UNCHANGED lock
        \/ Answers(t, "both_stopped") /\ lock' = NoTask /\ UNCHANGED server
  /\ UNCHANGED <<disk, copying, active, requests>>

SwitchReturns(t) ==
  /\ tasks[t].pc = "started" /\ lock' = NoTask
  /\ active' = tasks[t].name
  /\ Crosses(t, Answered("switched"))
  /\ UNCHANGED <<disk, copying, server, requests>>

-----------------------------------------------------------------------------
(* Removing a profile, with or without its files.                          *)

\* A start tells who is active only after the process is there.
Starting(n) == lock # NoTask /\ server.in = n

\* Mutant: the active profile is not looked at.
RemoveActive(t) ==
  /\ \E n \in profiles \ copying, files \in BOOLEAN :
       Begins(t, [Idle EXCEPT !.pc = "revoke", !.op = "remove", !.name = n, !.files = files,
                              !.crossed = Starting(n)])
  /\ UNCHANGED <<disk, host, lock>>

Remove(t) ==
  /\ \E n \in profiles \ copying, files \in BOOLEAN :
       /\ active # n
       /\ Begins(t, [Idle EXCEPT !.pc = "revoke", !.op = "remove", !.name = n, !.files = files,
                                 !.crossed = Starting(n)])
  /\ UNCHANGED <<disk, host, lock>>

\* After the relay has been told, which may take a while: the deletion and the
\* commit have no await between them, and each of them may fail.
RemoveEnds(t) ==
  /\ tasks[t].pc = "revoke"
  /\ LET n == tasks[t].name
         removed == Crosses(t, Answered("removed"))
         kept == Crosses(t, Answered("record_kept"))
     IN \/ /\ IF tasks[t].files
                THEN Exists(n) /\ Put(n, Gone) /\ backups' = backups \ {n}
                ELSE UNCHANGED folders /\ backups' \in {backups, backups \ {n}}
           /\ \/ profiles' = profiles \ {n} /\ n \notin backups' /\ removed
              \/ kept /\ UNCHANGED profiles
        \/ /\ tasks[t].files
           /\ folders' \in {folders} \union
                {[folders EXCEPT ![n].kind = "partial"] : x \in {y \in {n} : Exists(y)}}
           /\ kept /\ UNCHANGED <<profiles, backups>>
        \/ /\ tasks[t].files /\ Exists(n)   \* ... the backups' folder stays
           /\ Put(n, Gone)
           /\ kept /\ UNCHANGED <<profiles, backups>>
  /\ UNCHANGED <<setup, host, lock, requests>>

-----------------------------------------------------------------------------

Answer(t) ==
  /\ tasks[t].pc = "answer" /\ Set(t, Idle)
  /\ UNCHANGED <<disk, host, lock, requests>>

\* Folders that a request was making stay as they are.
Crash ==
  /\ \E t \in Tasks : tasks[t] # Idle
  /\ tasks' = [t \in Tasks |-> Idle] /\ lock' = NoTask
  /\ copying' = {} /\ server' = [state |-> "stopped", in |-> NoName] /\ active' = NoName
  /\ UNCHANGED <<disk, requests>>

Makes(t) ==
  \/ Upload(t) \/ UploadFails(t) \/ FinishUpload(t) \/ Provision(t) \/ BadModpack(t)
  \/ Modpack(t) \/ Migrate(t) \/ CreateVariant(t) \/ PlanFails(t) \/ Make(t) \/ Unpack(t)
  \/ Install(t) \/ InstallFails(t) \/ CopyRoot(t) \/ CopyFails(t) \/ Register(t) \/ RegisterFails(t)
Switches(t) == Switch(t) \/ SwitchLocks(t) \/ SwitchStops(t) \/ SwitchStarts(t) \/ SwitchReturns(t)
Removes(t) == Remove(t) \/ RemoveEnds(t)

Next ==
  \/ \E t \in Tasks : Makes(t) \/ Switches(t) \/ Removes(t) \/ Answer(t)
  \/ StartBegins \/ StartReturns \/ StopBegins \/ Plays \/ ServerEnds \/ BackupBegins \/ BackupEnds
  \/ Import \/ CreateSetup \/ Crash

Spec == Init /\ [][Next]_vars

-----------------------------------------------------------------------------
(* Correctness.                                                            *)

Folder == [kind : {"none", "partial", "whole"}, world : [Roots -> 0 .. MaxWorld]]

AnswersGiven ==
  {"created", "refused", "failed", "undone", "left", "switched", "timed_out", "both_stopped",
   "removed", "record_kept"}

Task ==
  [pc : {"idle", "upload", "plan", "pack", "install", "copy", "register", "queue", "stop", "start", "started",
         "revoke", "answer"},
   op : {"none", "upload", "provision", "modpack", "migrate", "variant", "switch", "remove"},
   name : Names \union {NoName}, source : Names \union {NoName}, seen : [Roots -> 0 .. MaxWorld],
   files : BOOLEAN, waited : BOOLEAN, crossed : BOOLEAN,
   answer : {"none"} \union AnswersGiven]

\* The type of the state.
TypeOK ==
  /\ folders \in [Names -> Folder]
  /\ profiles \subseteq Names /\ setup \subseteq Names /\ backups \subseteq profiles
  /\ copying \subseteq Names /\ active \in Names \union {NoName}
  /\ server \in [state : {"stopped", "up", "stopping"}, in : Names \union {NoName}]
  /\ lock \in Tasks \union {NoTask, Owner}
  /\ tasks \in [Tasks -> Task] /\ requests \in 0 .. MaxRequests

Told(t, answer) ==
  tasks[t].pc # "answer" /\ tasks'[t].pc = "answer" /\ tasks'[t].answer = answer

\* What a request says at its end is so: a created profile owns a complete
\* folder whose worlds are the reviewed ones, unless the owner used the folder
\* or its source meanwhile, or another request wrote or removed it; an undone
\* copy left nothing and took no profile's folder; a failed switch, which says that
\* both profiles remain stopped, left no server running but one that is still
\* stopping.
AnswersHold ==
  [][\A t \in Tasks : LET n == tasks[t].name IN
       /\ Told(t, "created") =>
            /\ n \in profiles' \ profiles
            /\ \/ tasks[t].crossed
               \/ /\ folders[n].kind = "whole"
                  /\ tasks[t].source # NoName => folders[n].world = tasks[t].seen
       /\ Told(t, "undone") => folders'[n] = Gone /\ (n \in profiles => tasks[t].crossed)
       /\ Told(t, "both_stopped") => server'.state # "up"
       /\ Told(t, "removed") =>
            n \notin profiles' /\ (tasks[t].files => folders'[n] = Gone)]_vars

\* The folder of a profile disappears only in the removal the owner asked for,
\* and not under a server or a backup, unless the owner used the folder (or
\* another request wrote or removed it) while a request was working with it.
FoldersStay ==
  [][\A n \in profiles : folders[n].kind = "whole" /\ folders'[n].kind # "whole" =>
       \E t \in Tasks :
         /\ tasks[t].name = n
         /\ \/ tasks[t].crossed
            \/ /\ tasks[t].op = "remove" /\ tasks[t].files
               /\ n \notin copying /\ ~(Alive /\ server.in = n)]_vars

\* The server a switch stops, or tells to stop, is the one whose verified backup was reviewed,
\* unless the switch had to wait for the update lock, or that profile's backups
\* were removed meanwhile.
SwitchIsProtected ==
  [][\A t \in Tasks :
       (/\ tasks[t].pc = "stop" /\ tasks'[t].pc \in {"start", "answer"}
        /\ server.state = "up" /\ ~tasks[t].waited)
         => /\ server.in = tasks[t].source
            /\ server.in \in profiles => server.in \in backups \/ tasks[t].crossed]_vars

================================================================================
