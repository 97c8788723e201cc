--------------------------- MODULE ServerData_proofs ---------------------------
(***************************************************************************)
(* Proofs about what a server keeps on disk: the folders of the server     *)
(* root and their profiles, for any number of folders, requests and        *)
(* versions of a world, the text files of a server, for any number of      *)
(* files and jobs, and its jars, for any number of jars, versions,         *)
(* requests and recovery copies.                                           *)
(***************************************************************************)
EXTENDS MCServerData, TLAPS

-----------------------------------------------------------------------------
(* The folders.  The invariant says what a request has in hand at each     *)
(* place, as long as nobody else has used or written it (crossed), and     *)
(* what update_lock protects.                                              *)


\* Requests that make a folder, those that copy into it, and what they have in
\* hand.
Making == {"upload", "plan", "pack", "install", "copy", "register"}
Locked == {"stop", "start", "started"}
Copies(t) == tasks[t].source # NoName /\ tasks[t].pc \in {"plan", "install", "copy", "register"}

\* Requests in progress name a folder, and so does a server that runs.
NamesInv ==
  /\ \A t \in Tasks : tasks[t].pc \in Making \union Locked \union {"queue", "revoke"} =>
       tasks[t].name \in Names
  /\ \A t \in Tasks : /\ tasks[t].pc \in {"upload", "pack"} => tasks[t].source = NoName
                      /\ tasks[t].pc = "copy" => tasks[t].source \in Names
  /\ server.state # "stopped" => server.in \in Names

\* What update_lock protects: who is active is known while nobody holds it, and
\* a switch that holds it knows what runs.
LockInv ==
  /\ server.state # "stopped" /\ lock = NoTask => active = server.in
  /\ \A t \in Tasks :
       /\ tasks[t].pc \in Locked => lock = t
       /\ tasks[t].pc = "queue" => tasks[t].waited
       /\ tasks[t].pc \in {"stop", "start"} /\ server.state # "stopped" => active = server.in
       /\ tasks[t].pc = "stop" /\ server.state = "up" /\ ~tasks[t].waited =>
            /\ server.in = tasks[t].source
            /\ server.in \in profiles => server.in \in backups \/ tasks[t].crossed
       /\ tasks[t].pc = "start" => server.state # "up"
       /\ tasks[t].pc = "started" => server.in = tasks[t].name

UsedBy(n) == server.state # "stopped" /\ server.in = n

\* A removal that was not crossed removes a folder that nobody uses.
RemovalInv ==
  \A t \in Tasks : tasks[t].pc = "revoke" =>
    /\ tasks[t].op = "remove"
    /\ ~tasks[t].crossed => tasks[t].name \notin copying /\ ~UsedBy(tasks[t].name)

\* A folder that is being made belongs to no profile.
MakingInv ==
  \A t \in Tasks : tasks[t].pc \in Making /\ ~tasks[t].crossed => tasks[t].name \notin profiles

\* A folder that is to be registered is complete.
WholeInv ==
  \A t \in Tasks : tasks[t].pc \in {"copy", "register"} /\ ~tasks[t].crossed =>
    folders[tasks[t].name].kind = "whole"

\* A copy that was not crossed has the reviewed worlds in front of it, and in
\* the new folder the ones that it has copied.
CopyOf(t) ==
  LET n == tasks[t].name
      s == tasks[t].source
  IN /\ ~UsedBy(n) /\ ~UsedBy(s)
     /\ Exists(s)
     /\ \A r \in Roots : tasks[t].seen[r] > 0 => folders[s].world[r] = tasks[t].seen[r]
     /\ tasks[t].pc # "plan" => Exists(n)
     /\ tasks[t].pc = "install" => \A r \in Roots : folders[n].world[r] = 0
     /\ tasks[t].pc = "copy" => \A r \in Roots : folders[n].world[r] \in {0, tasks[t].seen[r]}
     /\ tasks[t].pc = "register" => folders[n].world = tasks[t].seen

CopyInv == \A t \in Tasks : Copies(t) /\ ~tasks[t].crossed => CopyOf(t)

\* The inductive invariant.
Inv == TypeOK /\ NamesInv /\ LockInv /\ RemovalInv /\ MakingInv /\ WholeInv /\ CopyInv

-----------------------------------------------------------------------------
(* The tasks a step leaves, changes and marks.                             *)

\* A task goes on as it was, except that it may have been crossed.
Later(k, l) ==
  /\ l.pc = k.pc /\ l.op = k.op /\ l.name = k.name /\ l.source = k.source /\ l.seen = k.seen
  /\ l.files = k.files /\ l.waited = k.waited /\ l.answer = k.answer
  /\ k.crossed => l.crossed

\* Marking a task as crossed.
LEMMA MarkedTask ==
  ASSUME NEW k \in Task, NEW b \in BOOLEAN
  PROVE  /\ [k EXCEPT !.crossed = b] \in Task
         /\ [k EXCEPT !.crossed = b].crossed = b
         /\ (k.crossed => b) => Later(k, [k EXCEPT !.crossed = b])
<1> DEFINE l == [k EXCEPT !.crossed = b]
<1>1. l \in Task
  BY DEF Task
<1>2. l.crossed = b
  BY DEF Task
<1>3. /\ l.pc = k.pc /\ l.op = k.op /\ l.name = k.name /\ l.source = k.source /\ l.seen = k.seen
      /\ l.files = k.files /\ l.waited = k.waited /\ l.answer = k.answer
  BY DEF Task
<1> QED BY <1>1, <1>2, <1>3 DEF Later

\* What Crossed() and Disturbed() do to the tasks.
LEMMA CrossedTasks ==
  ASSUME TypeOK, NEW n
  PROVE  /\ Crossed(n) \in [Tasks -> Task]
         /\ \A u \in Tasks : /\ Later(tasks[u], Crossed(n)[u])
                             /\ n \in {tasks[u].name, tasks[u].source} => Crossed(n)[u].crossed
<1> SUFFICES ASSUME NEW u \in Tasks
             PROVE  /\ Crossed(n)[u] \in Task /\ Later(tasks[u], Crossed(n)[u])
                    /\ n \in {tasks[u].name, tasks[u].source} => Crossed(n)[u].crossed
  BY DEF Crossed
<1> DEFINE b == tasks[u].crossed \/ n \in {tasks[u].name, tasks[u].source}
<1>1. tasks[u] \in Task /\ b \in BOOLEAN
  BY DEF TypeOK
<1>2. Crossed(n)[u] = [tasks[u] EXCEPT !.crossed = b]
  BY DEF Crossed
<1> QED BY <1>1, <1>2, MarkedTask

LEMMA DisturbedTasks ==
  ASSUME TypeOK, NEW n
  PROVE  /\ Disturbed(n) \in [Tasks -> Task]
         /\ \A u \in Tasks :
              /\ Later(tasks[u], Disturbed(n)[u])
              /\ n = tasks[u].source => Disturbed(n)[u].crossed
              /\ n = tasks[u].name /\ tasks[u].pc \notin {"upload", "plan"} => Disturbed(n)[u].crossed
<1> SUFFICES ASSUME NEW u \in Tasks
             PROVE  /\ Disturbed(n)[u] \in Task /\ Later(tasks[u], Disturbed(n)[u])
                    /\ n = tasks[u].source => Disturbed(n)[u].crossed
                    /\ n = tasks[u].name /\ tasks[u].pc \notin {"upload", "plan"} => Disturbed(n)[u].crossed
  BY DEF Disturbed
<1> DEFINE b == \/ tasks[u].crossed \/ n = tasks[u].source
                \/ n = tasks[u].name /\ tasks[u].pc \notin {"upload", "plan"}
<1>1. tasks[u] \in Task /\ b \in BOOLEAN
  BY DEF TypeOK
<1>2. Disturbed(n)[u] = [tasks[u] EXCEPT !.crossed = b]
  BY DEF Disturbed
<1> HIDE DEF b
<1>3. /\ Disturbed(n)[u] \in Task /\ Disturbed(n)[u].crossed = b
      /\ (tasks[u].crossed => b) => Later(tasks[u], Disturbed(n)[u])
  BY <1>1, <1>2, MarkedTask
<1> QED BY <1>3 DEF b

\* One task changes; the others stay, are crossed about a folder, or disturbed
\* in it.
OnlyTask(t) == tasks' \in [Tasks -> Task] /\ \A u \in Tasks \ {t} : tasks'[u] = tasks[u]
Crossing(n) ==
  \A u \in Tasks : n \in {tasks[u].name, tasks[u].source} => tasks'[u].crossed
OthersCross(t, n) ==
  /\ tasks' \in [Tasks -> Task]
  /\ \A u \in Tasks \ {t} : /\ Later(tasks[u], tasks'[u])
                            /\ n \in {tasks[u].name, tasks[u].source} => tasks'[u].crossed
OthersDisturbed(t, n) ==
  /\ tasks' \in [Tasks -> Task]
  /\ \A u \in Tasks \ {t} :
       /\ Later(tasks[u], tasks'[u])
       /\ n = tasks[u].source => tasks'[u].crossed
       /\ n = tasks[u].name /\ tasks[u].pc \notin {"upload", "plan"} => tasks'[u].crossed
AllCross(n) ==
  /\ tasks' \in [Tasks -> Task]
  /\ \A u \in Tasks : /\ Later(tasks[u], tasks'[u])
                      /\ n \in {tasks[u].name, tasks[u].source} => tasks'[u].crossed

\* A task that goes to another place and keeps the rest.
Moves(k, l) ==
  /\ l.op = k.op /\ l.name = k.name /\ l.source = k.source /\ l.seen = k.seen
  /\ l.files = k.files /\ l.waited = k.waited /\ l.crossed = k.crossed

\* A folder appears where there was none.
Filled(n, folder) ==
  /\ folders' \in [Names -> Folder]
  /\ folders[n].kind = "none" /\ folders'[n] = folder
  /\ \A m \in Names \ {n} : folders'[m] = folders[m]

\* Only one folder changes.
OnlyFolder(n) ==
  folders' \in [Names -> Folder] /\ \A m \in Names \ {n} : folders'[m] = folders[m]

LEMMA FolderTypes ==
  ASSUME ConstantsOK
  PROVE  /\ Gone \in Folder /\ Gone.kind = "none"
         /\ Scanned \in Folder /\ Scanned.kind = "whole"
         /\ Begun \in Folder /\ Begun.kind = "partial" /\ \A r \in Roots : Begun.world[r] = 0
         /\ Nothing \in [Roots -> 0 .. MaxWorld]
         /\ Idle \in Task /\ Idle.pc = "idle"
BY DEF ConstantsOK, Gone, Scanned, Nothing, Idle, Task, Folder, Begun

\* A request that begins with a name.
LEMMA NewTask ==
  ASSUME ConstantsOK, NEW op \in {"upload", "provision", "modpack", "migrate", "variant"}, NEW n \in Names
  PROVE  /\ New(op, n) \in Task
         /\ New(op, n).crossed <=> n \in profiles
         /\ New(op, n).name = n /\ New(op, n).source = NoName
BY FolderTypes DEF New, Idle, Task

LEMMA BeginsTask ==
  ASSUME ConstantsOK, TypeOK, NEW t \in Tasks, NEW task \in Task, Begins(t, task)
  PROVE  OnlyTask(t) /\ tasks'[t] = task /\ requests' \in 0 .. MaxRequests /\ tasks[t].pc = "idle"
BY DEF Begins, Asks, Set, OnlyTask, TypeOK, ConstantsOK, Idle

LEMMA AnsweredTask ==
  ASSUME ConstantsOK, NEW answer \in AnswersGiven
  PROVE  Answered(answer) \in Task /\ Answered(answer).pc = "answer"
         /\ Answered(answer).answer = answer
BY FolderTypes DEF Answered, Idle, Task, AnswersGiven

LEMMA AnswersTask ==
  ASSUME ConstantsOK, TypeOK, NEW t \in Tasks, NEW answer \in AnswersGiven, Answers(t, answer)
  PROVE  OnlyTask(t) /\ tasks'[t].pc = "answer" /\ tasks'[t].answer = answer
BY AnsweredTask DEF Answers, Set, OnlyTask, TypeOK

LEMMA MovedTask ==
  ASSUME NEW k \in Task, NEW pc \in Making \union Locked
  PROVE  /\ [k EXCEPT !.pc = pc] \in Task /\ [k EXCEPT !.pc = pc].pc = pc
         /\ Moves(k, [k EXCEPT !.pc = pc])
<1>1. [k EXCEPT !.pc = pc] \in Task
  BY DEF Task, Making, Locked
<1>2. [k EXCEPT !.pc = pc].pc = pc
  BY DEF Task
<1>3. Moves(k, [k EXCEPT !.pc = pc])
  BY DEF Task, Moves
<1> QED BY <1>1, <1>2, <1>3

LEMMA GoesTask ==
  ASSUME TypeOK, NEW t \in Tasks, NEW pc \in Making \union Locked, Goes(t, pc)
  PROVE  OnlyTask(t) /\ tasks'[t].pc = pc /\ Moves(tasks[t], tasks'[t])
BY MovedTask DEF Goes, Set, OnlyTask, TypeOK

LEMMA CrossesTask ==
  ASSUME TypeOK, NEW t \in Tasks, NEW task \in Task, Crosses(t, task)
  PROVE  OthersCross(t, tasks[t].name) /\ tasks'[t] = task
BY CrossedTasks DEF Crosses, OthersCross

LEMMA DisturbsTask ==
  ASSUME TypeOK, NEW t \in Tasks, NEW task \in Task, Disturbs(t, task)
  PROVE  OthersDisturbed(t, tasks[t].name) /\ tasks'[t] = task
BY DisturbedTasks DEF Disturbs, OthersDisturbed

\* A copy that another request's step does not reach.
LEMMA OtherCopies ==
  ASSUME ConstantsOK, Inv, NEW u \in Tasks, NEW n \in Names, OnlyFolder(n), UNCHANGED server,
         Later(tasks[u], tasks'[u]), Copies(u)', ~tasks'[u].crossed, tasks[u].source # n,
         tasks[u].name = n => tasks[u].pc = "plan"
  PROVE  CopyOf(u)'
<1>1. Copies(u) /\ ~tasks[u].crossed
  BY DEF Later, Copies
<1>2. CopyOf(u)
  BY <1>1 DEF Inv, CopyInv
<1>3. tasks[u].source \in Names /\ tasks[u].name \in Names
  BY <1>1 DEF Inv, TypeOK, Task, NamesInv, Making, Copies
<1>4. folders'[tasks[u].source] = folders[tasks[u].source]
  BY <1>3 DEF OnlyFolder
<1>5. tasks[u].pc # "plan" => folders'[tasks[u].name] = folders[tasks[u].name]
  BY <1>3 DEF OnlyFolder
<1>6. /\ tasks'[u].pc = tasks[u].pc /\ tasks'[u].name = tasks[u].name
      /\ tasks'[u].source = tasks[u].source /\ tasks'[u].seen = tasks[u].seen
  BY DEF Later
<1>7. tasks[u].pc = "plan" => CopyOf(u)'
  BY <1>2, <1>4, <1>6 DEF CopyOf, UsedBy, Exists
<1>8. tasks[u].pc # "plan" => CopyOf(u)'
  BY <1>2, <1>4, <1>5, <1>6 DEF CopyOf, UsedBy, Exists
<1> QED BY <1>7, <1>8

\* A copy is not reached by a folder that appears.
LEMMA FilledCopies ==
  ASSUME ConstantsOK, Inv, NEW u \in Tasks, NEW n \in Names, NEW folder, Filled(n, folder),
         UNCHANGED server, tasks'[u] = tasks[u], Copies(u), ~tasks[u].crossed
  PROVE  CopyOf(u)'
<1>1. CopyOf(u)
  BY DEF Inv, CopyInv
<1>2. tasks[u].source # n /\ (tasks[u].name = n => tasks[u].pc = "plan")
  BY <1>1 DEF CopyOf, Exists, Filled
<1> QED BY <1>2, OtherCopies DEF Filled, OnlyFolder, Later, Copies

-----------------------------------------------------------------------------
(* Every action keeps the invariant.                                       *)

LEMMA InitInv == ASSUME ConstantsOK, Init PROVE Inv
BY FolderTypes DEF ConstantsOK, Init, Inv, TypeOK, NamesInv, LockInv, RemovalInv,
   MakingInv, WholeInv, CopyInv, Idle, Making, Locked, Copies, Folder

LEMMA UploadKeeps == ASSUME ConstantsOK, Inv, NEW t \in Tasks, Upload(t) PROVE Inv'
<1>1. PICK n \in Names :
        /\ ~Exists(n) /\ Begins(t, [New("upload", n) EXCEPT !.pc = "upload"])
        /\ UNCHANGED <<folders, profiles, setup, backups, copying, server, active, lock>>
  BY DEF Upload, disk, host
<1>2. [New("upload", n) EXCEPT !.pc = "upload"] \in Task
      /\ [New("upload", n) EXCEPT !.pc = "upload"].pc = "upload"
      /\ [New("upload", n) EXCEPT !.pc = "upload"].name = n
      /\ ([New("upload", n) EXCEPT !.pc = "upload"].crossed <=> n \in profiles)
      /\ [New("upload", n) EXCEPT !.pc = "upload"].source = NoName
  BY NewTask DEF Task
<1>3. /\ OnlyTask(t) /\ tasks'[t].pc = "upload" /\ requests' \in 0 .. MaxRequests
      /\ tasks'[t].name = n /\ (tasks'[t].crossed <=> n \in profiles)
      /\ tasks'[t].source = NoName
  BY <1>1, <1>2, BeginsTask DEF Inv
<1>4. TypeOK'
  BY <1>1, <1>2, <1>3 DEF Inv, TypeOK, OnlyTask
<1>5. NamesInv'
  BY <1>1, <1>2, <1>3 DEF Inv, TypeOK, NamesInv, Making, Locked, OnlyTask, ConstantsOK
<1>6. LockInv'
  BY <1>1, <1>2, <1>3 DEF Inv, TypeOK, LockInv, Locked, ConstantsOK, OnlyTask
<1>7. RemovalInv'
  BY <1>1, <1>2, <1>3 DEF Inv, TypeOK, RemovalInv, UsedBy, OnlyTask
<1>8. MakingInv'
  BY <1>1, <1>2, <1>3 DEF Inv, TypeOK, MakingInv, Making, OnlyTask, NamesInv
<1>9. WholeInv'
  BY <1>1, <1>2, <1>3 DEF Inv, TypeOK, WholeInv, Exists, OnlyTask, NamesInv, Making
<1>10. CopyInv'
  BY <1>1, <1>2, <1>3 DEF Inv, TypeOK, CopyInv, CopyOf, Copies, UsedBy, Exists, OnlyTask,
     NamesInv, Making
<1> QED BY <1>4, <1>5, <1>6, <1>7, <1>8, <1>9, <1>10 DEF Inv

\* A request that ends, or whose answer is taken, touches nothing.
LEMMA RestKeeps ==
  ASSUME ConstantsOK, Inv, NEW t \in Tasks, OnlyTask(t), tasks'[t].pc \in {"answer", "idle"},
         requests' \in 0 .. MaxRequests,
         UNCHANGED <<folders, profiles, setup, backups, copying, server, active, lock>>
  PROVE  Inv'
<1>1. TypeOK'
  BY DEF Inv, TypeOK, OnlyTask
<1>2. NamesInv'
  BY DEF Inv, NamesInv, Making, Locked, ConstantsOK, OnlyTask
<1>3. LockInv'
  BY DEF Inv, LockInv, Locked, ConstantsOK, OnlyTask
<1>4. RemovalInv'
  BY DEF Inv, RemovalInv, UsedBy, OnlyTask
<1>5. MakingInv'
  BY DEF Inv, MakingInv, Making, OnlyTask
<1>6. WholeInv'
  BY DEF Inv, WholeInv, NamesInv, Making, OnlyTask
<1>7. CopyInv'
  BY DEF Inv, TypeOK, CopyInv, CopyOf, Copies, UsedBy, Exists, NamesInv, Making, OnlyTask
<1> QED BY <1>1, <1>2, <1>3, <1>4, <1>5, <1>6, <1>7 DEF Inv

\* A request that fails takes its folder with it.
LEMMA RemovedKeeps ==
  ASSUME ConstantsOK, Inv, NEW t \in Tasks, tasks[t].name \in Names, OnlyFolder(tasks[t].name),
         OthersDisturbed(t, tasks[t].name), tasks'[t].pc = "answer",
         UNCHANGED <<profiles, setup, backups, copying, server, active, lock, requests>>
  PROVE  Inv'
<1>1. TypeOK'
  BY DEF Inv, TypeOK, OnlyFolder, OthersDisturbed, Later
<1>2. NamesInv'
  BY DEF Inv, NamesInv, Making, Locked, ConstantsOK, OnlyFolder, OthersDisturbed, Later
<1>3. LockInv'
  BY DEF Inv, LockInv, Locked, ConstantsOK, OnlyFolder, OthersDisturbed, Later
<1>4. RemovalInv'
  BY DEF Inv, RemovalInv, UsedBy, OnlyFolder, OthersDisturbed, Later
<1>5. MakingInv'
  BY DEF Inv, MakingInv, Making, OnlyFolder, OthersDisturbed, Later
<1>6. WholeInv'
  BY DEF Inv, WholeInv, NamesInv, Making, OnlyFolder, OthersDisturbed, Later
<1>7. CopyInv'
  BY OtherCopies DEF CopyInv, Copies, OthersDisturbed, Later
<1> QED BY <1>1, <1>2, <1>3, <1>4, <1>5, <1>6, <1>7 DEF Inv

LEMMA UploadFailsKeeps == ASSUME ConstantsOK, Inv, NEW t \in Tasks, UploadFails(t) PROVE Inv'
BY RestKeeps, AnswersTask DEF UploadFails, disk, host, Inv, TypeOK, AnswersGiven

\* A request that copies.
LEMMA CopyingTask ==
  ASSUME ConstantsOK, TypeOK, NEW op \in {"migrate", "variant"}, NEW n \in Names, NEW s \in Names
  PROVE  /\ Copying(op, n, s) \in Task
         /\ Copying(op, n, s).pc = "plan" /\ Copying(op, n, s).name = n
         /\ Copying(op, n, s).crossed <=> n \in profiles
         /\ Copying(op, n, s).source = s /\ Copying(op, n, s).seen = folders[s].world
<1> DEFINE k == New(op, n)
           w == folders[s].world
<1>1. w \in [Roots -> 0 .. MaxWorld]
  BY DEF TypeOK, Folder
<1>2. k \in Task /\ (k.crossed <=> n \in profiles) /\ k.name = n
  BY NewTask
<1>3. Copying(op, n, s) = [k EXCEPT !.pc = "plan", !.source = s, !.seen = w]
  BY DEF Copying
<1> HIDE DEF k, w
<1>4. [k EXCEPT !.pc = "plan", !.source = s, !.seen = w] \in Task
  BY <1>1, <1>2 DEF Task
<1>5. /\ [k EXCEPT !.pc = "plan", !.source = s, !.seen = w].pc = "plan"
      /\ [k EXCEPT !.pc = "plan", !.source = s, !.seen = w].name = k.name
      /\ [k EXCEPT !.pc = "plan", !.source = s, !.seen = w].source = s
      /\ [k EXCEPT !.pc = "plan", !.source = s, !.seen = w].seen = w
      /\ [k EXCEPT !.pc = "plan", !.source = s, !.seen = w].crossed = k.crossed
  BY <1>2 DEF Task
<1> QED BY <1>2, <1>3, <1>4, <1>5 DEF w

LEMMA FinishUploadKeeps == ASSUME ConstantsOK, Inv, NEW t \in Tasks, FinishUpload(t) PROVE Inv'
<1>1. /\ tasks[t].pc = "upload" /\ tasks[t].name \in Names /\ tasks[t].source = NoName
      /\ UNCHANGED <<profiles, setup, backups, copying, server, active, lock, requests>>
  BY DEF FinishUpload, host, Inv, NamesInv, Making
<1>2. CASE OnlyTask(t) /\ tasks'[t].pc = "answer" /\ folders' = folders
  BY <1>1, <1>2, RestKeeps DEF Inv, TypeOK
<1>3. CASE /\ ~Exists(tasks[t].name) /\ folders' = [folders EXCEPT ![tasks[t].name] = Scanned]
           /\ OnlyTask(t) /\ tasks'[t].pc = "register" /\ Moves(tasks[t], tasks'[t])
  <2>1. Filled(tasks[t].name, Scanned)
    BY <1>1, <1>3, FolderTypes DEF Filled, Inv, TypeOK, Exists
  <2>2. OnlyTask(t) /\ tasks'[t].pc = "register" /\ Moves(tasks[t], tasks'[t])
    BY <1>3
  <2>3. TypeOK'
    BY <1>1, <2>1, <2>2 DEF Inv, TypeOK, Filled, OnlyTask
  <2>4. NamesInv'
    BY <1>1, <2>2 DEF Inv, NamesInv, OnlyTask, Moves
  <2>5. LockInv'
    BY <1>1, <2>2 DEF Inv, LockInv, OnlyTask, Locked
  <2>6. RemovalInv'
    BY <1>1, <2>2 DEF Inv, RemovalInv, UsedBy, OnlyTask
  <2>7. MakingInv'
    BY <1>1, <2>2 DEF Inv, MakingInv, Making, OnlyTask, Moves
  <2>8. WholeInv'
    BY <1>1, <2>1, <2>2, FolderTypes DEF Inv, WholeInv, NamesInv, Making, OnlyTask, Moves,
       Filled
  <2>9. CopyInv'
    <3> SUFFICES ASSUME NEW u \in Tasks, Copies(u)', ~tasks'[u].crossed PROVE CopyOf(u)'
      BY DEF CopyInv
    <3>1. CASE u # t
      BY <1>1, <2>1, <2>2, <3>1, FilledCopies DEF OnlyTask, Copies
    <3>2. CASE u = t
      BY <1>1, <2>2, <3>2 DEF Copies, Moves
    <3> QED BY <3>1, <3>2
  <2> QED BY <2>3, <2>4, <2>5, <2>6, <2>7, <2>8, <2>9 DEF Inv
<1> QED BY <1>2, <1>3, AnswersTask, GoesTask DEF FinishUpload, Put, Inv, AnswersGiven,
           Making

LEMMA ProvisionKeeps == ASSUME ConstantsOK, Inv, NEW t \in Tasks, Provision(t) PROVE Inv'
<1>1. PICK n \in Names :
        /\ ~Exists(n) /\ Begins(t, [New("provision", n) EXCEPT !.pc = "plan"])
        /\ UNCHANGED <<folders, profiles, setup, backups, copying, server, active, lock>>
  BY DEF Provision, disk, host
<1>2. [New("provision", n) EXCEPT !.pc = "plan"] \in Task
      /\ [New("provision", n) EXCEPT !.pc = "plan"].pc = "plan"
      /\ [New("provision", n) EXCEPT !.pc = "plan"].name = n
      /\ ([New("provision", n) EXCEPT !.pc = "plan"].crossed <=> n \in profiles)
      /\ [New("provision", n) EXCEPT !.pc = "plan"].source = NoName
  BY NewTask DEF Task
<1>3. /\ OnlyTask(t) /\ tasks'[t].pc = "plan" /\ requests' \in 0 .. MaxRequests
      /\ tasks'[t].name = n /\ (tasks'[t].crossed <=> n \in profiles)
      /\ tasks'[t].source = NoName
  BY <1>1, <1>2, BeginsTask DEF Inv
<1>4. TypeOK'
  BY <1>1, <1>2, <1>3 DEF Inv, TypeOK, OnlyTask
<1>5. NamesInv'
  BY <1>1, <1>2, <1>3 DEF Inv, TypeOK, NamesInv, Making, Locked, OnlyTask, ConstantsOK
<1>6. LockInv'
  BY <1>1, <1>2, <1>3 DEF Inv, TypeOK, LockInv, Locked, ConstantsOK, OnlyTask
<1>7. RemovalInv'
  BY <1>1, <1>2, <1>3 DEF Inv, TypeOK, RemovalInv, UsedBy, OnlyTask
<1>8. MakingInv'
  BY <1>1, <1>2, <1>3 DEF Inv, TypeOK, MakingInv, Making, OnlyTask, NamesInv
<1>9. WholeInv'
  BY <1>1, <1>2, <1>3 DEF Inv, TypeOK, WholeInv, Exists, OnlyTask, NamesInv, Making
<1>10. CopyInv'
  BY <1>1, <1>2, <1>3 DEF Inv, TypeOK, CopyInv, CopyOf, Copies, UsedBy, Exists, OnlyTask,
     NamesInv, Making
<1> QED BY <1>4, <1>5, <1>6, <1>7, <1>8, <1>9, <1>10 DEF Inv

LEMMA BadModpackKeeps == ASSUME ConstantsOK, Inv, NEW t \in Tasks, BadModpack(t) PROVE Inv'
BY RestKeeps, AnsweredTask, BeginsTask DEF BadModpack, disk, host, Inv, AnswersGiven

LEMMA ModpackKeeps == ASSUME ConstantsOK, Inv, NEW t \in Tasks, Modpack(t) PROVE Inv'
<1>1. PICK n \in Names :
        /\ ~Exists(n) /\ Begins(t, [New("modpack", n) EXCEPT !.pc = "pack"])
        /\ UNCHANGED <<profiles, setup, backups, copying, server, active, lock>>
        /\ folders' = [folders EXCEPT ![n] = Begun]
  BY DEF Modpack, Put, disk, host
<1>2. [New("modpack", n) EXCEPT !.pc = "pack"] \in Task
      /\ [New("modpack", n) EXCEPT !.pc = "pack"].pc = "pack"
      /\ [New("modpack", n) EXCEPT !.pc = "pack"].name = n
      /\ ([New("modpack", n) EXCEPT !.pc = "pack"].crossed <=> n \in profiles)
      /\ [New("modpack", n) EXCEPT !.pc = "pack"].source = NoName
  BY NewTask DEF Task
<1>3. /\ OnlyTask(t) /\ tasks'[t].pc = "pack" /\ requests' \in 0 .. MaxRequests
      /\ tasks'[t].name = n /\ (tasks'[t].crossed <=> n \in profiles)
      /\ tasks'[t].source = NoName
  BY <1>1, <1>2, BeginsTask DEF Inv
<1>4. TypeOK'
  BY <1>1, <1>2, <1>3, FolderTypes DEF Inv, TypeOK, OnlyTask, Folder
<1>5. NamesInv'
  BY <1>1, <1>2, <1>3 DEF Inv, TypeOK, NamesInv, Making, Locked, OnlyTask, ConstantsOK
<1>6. LockInv'
  BY <1>1, <1>2, <1>3 DEF Inv, TypeOK, LockInv, Locked, ConstantsOK, OnlyTask
<1>7. RemovalInv'
  BY <1>1, <1>2, <1>3 DEF Inv, TypeOK, RemovalInv, UsedBy, OnlyTask
<1>8. MakingInv'
  BY <1>1, <1>2, <1>3 DEF Inv, TypeOK, MakingInv, Making, OnlyTask, NamesInv
<1>9. WholeInv'
  BY <1>1, <1>2, <1>3 DEF Inv, TypeOK, WholeInv, Exists, OnlyTask, Gone, Nothing, Scanned,
     Folder, NamesInv, Making
<1>10. CopyInv'
  BY <1>1, <1>2, <1>3 DEF Inv, TypeOK, CopyInv, CopyOf, Copies, UsedBy, Exists, OnlyTask,
     Gone, Nothing, Scanned, Folder, NamesInv, Making
<1> QED BY <1>4, <1>5, <1>6, <1>7, <1>8, <1>9, <1>10 DEF Inv

LEMMA MigrateKeeps == ASSUME ConstantsOK, Inv, NEW t \in Tasks, Migrate(t) PROVE Inv'
<1>1. PICK n \in Names, s \in Names :
        /\ Copyable(s) /\ ~Exists(n) /\ Begins(t, Copying("migrate", n, s))
        /\ UNCHANGED <<folders, profiles, setup, backups, copying, server, active, lock>>
  BY DEF Migrate, disk, host
<1>2. Copying("migrate", n, s) \in Task
      /\ Copying("migrate", n, s).pc = "plan"
      /\ Copying("migrate", n, s).name = n /\ (Copying("migrate", n, s).crossed <=> n \in profiles)
      /\ Copying("migrate", n, s).source = s
      /\ Copying("migrate", n, s).seen = folders[s].world
  BY CopyingTask DEF Inv
<1>3. /\ OnlyTask(t) /\ tasks'[t].pc = "plan" /\ requests' \in 0 .. MaxRequests
      /\ tasks'[t].name = n /\ (tasks'[t].crossed <=> n \in profiles)
      /\ tasks'[t].source = s /\ tasks'[t].seen = folders[s].world
  BY <1>1, <1>2, BeginsTask DEF Inv
<1>4. TypeOK'
  BY <1>1, <1>2, <1>3 DEF Inv, TypeOK, OnlyTask
<1>5. NamesInv'
  BY <1>1, <1>2, <1>3 DEF Inv, TypeOK, NamesInv, Making, Locked, OnlyTask, ConstantsOK
<1>6. LockInv'
  BY <1>1, <1>2, <1>3 DEF Inv, TypeOK, LockInv, Locked, ConstantsOK, OnlyTask
<1>7. RemovalInv'
  BY <1>1, <1>2, <1>3 DEF Inv, TypeOK, RemovalInv, UsedBy, OnlyTask
<1>8. MakingInv'
  BY <1>1, <1>2, <1>3 DEF Inv, TypeOK, MakingInv, Making, OnlyTask, NamesInv
<1>9. WholeInv'
  BY <1>1, <1>2, <1>3 DEF Inv, TypeOK, WholeInv, Exists, OnlyTask, NamesInv, Making
<1>10. CopyInv'
  BY <1>1, <1>2, <1>3 DEF Inv, TypeOK, CopyInv, CopyOf, Copies, UsedBy, Exists, OnlyTask,
     Copyable, NamesInv, Making
<1> QED BY <1>4, <1>5, <1>6, <1>7, <1>8, <1>9, <1>10 DEF Inv

LEMMA CreateVariantKeeps == ASSUME ConstantsOK, Inv, NEW t \in Tasks, CreateVariant(t) PROVE Inv'
<1>1. PICK n \in Names, s \in Names :
        /\ Copyable(s) /\ ~Exists(n) /\ Begins(t, Copying("variant", n, s))
        /\ UNCHANGED <<folders, profiles, setup, backups, copying, server, active, lock>>
  BY DEF CreateVariant, disk, host
<1>2. Copying("variant", n, s) \in Task
      /\ Copying("variant", n, s).pc = "plan"
      /\ Copying("variant", n, s).name = n /\ (Copying("variant", n, s).crossed <=> n \in profiles)
      /\ Copying("variant", n, s).source = s
      /\ Copying("variant", n, s).seen = folders[s].world
  BY CopyingTask DEF Inv
<1>3. /\ OnlyTask(t) /\ tasks'[t].pc = "plan" /\ requests' \in 0 .. MaxRequests
      /\ tasks'[t].name = n /\ (tasks'[t].crossed <=> n \in profiles)
      /\ tasks'[t].source = s /\ tasks'[t].seen = folders[s].world
  BY <1>1, <1>2, BeginsTask DEF Inv
<1>4. TypeOK'
  BY <1>1, <1>2, <1>3 DEF Inv, TypeOK, OnlyTask
<1>5. NamesInv'
  BY <1>1, <1>2, <1>3 DEF Inv, TypeOK, NamesInv, Making, Locked, OnlyTask, ConstantsOK
<1>6. LockInv'
  BY <1>1, <1>2, <1>3 DEF Inv, TypeOK, LockInv, Locked, ConstantsOK, OnlyTask
<1>7. RemovalInv'
  BY <1>1, <1>2, <1>3 DEF Inv, TypeOK, RemovalInv, UsedBy, OnlyTask
<1>8. MakingInv'
  BY <1>1, <1>2, <1>3 DEF Inv, TypeOK, MakingInv, Making, OnlyTask, NamesInv
<1>9. WholeInv'
  BY <1>1, <1>2, <1>3 DEF Inv, TypeOK, WholeInv, Exists, OnlyTask, NamesInv, Making
<1>10. CopyInv'
  BY <1>1, <1>2, <1>3 DEF Inv, TypeOK, CopyInv, CopyOf, Copies, UsedBy, Exists, OnlyTask,
     Copyable, NamesInv, Making
<1> QED BY <1>4, <1>5, <1>6, <1>7, <1>8, <1>9, <1>10 DEF Inv

LEMMA PlanFailsKeeps == ASSUME ConstantsOK, Inv, NEW t \in Tasks, PlanFails(t) PROVE Inv'
BY RestKeeps, AnswersTask DEF PlanFails, disk, host, Inv, TypeOK, AnswersGiven

\* What a request that fails after its installation leaves.
LEMMA UndoneTask ==
  ASSUME ConstantsOK, TypeOK, NEW t \in Tasks, tasks[t].name \in Names, Undone(t)
  PROVE  /\ OnlyFolder(tasks[t].name) /\ OthersDisturbed(t, tasks[t].name)
         /\ tasks'[t].pc = "answer"
<1>1. (IF folders'[tasks[t].name] = Gone THEN "undone" ELSE "left") \in AnswersGiven
  BY DEF AnswersGiven
<1>2. OthersDisturbed(t, tasks[t].name) /\ tasks'[t].pc = "answer"
  BY <1>1, AnsweredTask, DisturbsTask DEF Undone
<1> QED BY <1>2, FolderTypes DEF Undone, Cleared, OnlyFolder, TypeOK

LEMMA MakeKeeps == ASSUME ConstantsOK, Inv, NEW t \in Tasks, Make(t) PROVE Inv'
<1>1. /\ tasks[t].pc = "plan" /\ tasks[t].name \in Names
      /\ UNCHANGED <<profiles, setup, backups, copying, server, active, lock, requests>>
  BY DEF Make, host, Inv, NamesInv, Making
<1>2. CASE OnlyTask(t) /\ tasks'[t].pc = "answer" /\ folders' = folders
  BY <1>1, <1>2, RestKeeps DEF Inv, TypeOK
<1>3. CASE /\ ~Exists(tasks[t].name) /\ folders' = [folders EXCEPT ![tasks[t].name] = Begun]
           /\ OnlyTask(t) /\ tasks'[t].pc = "install" /\ Moves(tasks[t], tasks'[t])
  <2>1. Filled(tasks[t].name, Begun)
    BY <1>1, <1>3, FolderTypes DEF Filled, Inv, TypeOK, Exists
  <2>2. OnlyTask(t) /\ tasks'[t].pc = "install" /\ Moves(tasks[t], tasks'[t])
    BY <1>3
  <2>3. TypeOK'
    BY <1>1, <2>1, <2>2, FolderTypes DEF Inv, TypeOK, OnlyTask, Moves, Filled
  <2>4. NamesInv'
    BY <1>1, <2>1, <2>2, FolderTypes DEF Inv, NamesInv, Making, Locked, ConstantsOK,
       OnlyTask, Moves, Filled
  <2>5. LockInv'
    BY <1>1, <2>1, <2>2, FolderTypes DEF Inv, LockInv, Locked, ConstantsOK, OnlyTask,
       Moves, Filled
  <2>6. RemovalInv'
    BY <1>1, <2>1, <2>2, FolderTypes DEF Inv, RemovalInv, UsedBy, OnlyTask, Moves, Filled
  <2>7. MakingInv'
    BY <1>1, <2>1, <2>2, FolderTypes DEF Inv, MakingInv, Making, OnlyTask, Moves, Filled
  <2>8. WholeInv'
    BY <1>1, <2>1, <2>2, FolderTypes DEF Inv, WholeInv, NamesInv, Making, OnlyTask, Moves,
       Filled
  <2>9. CopyInv'
    <3> SUFFICES ASSUME NEW u \in Tasks, Copies(u)', ~tasks'[u].crossed PROVE CopyOf(u)'
      BY DEF CopyInv
    <3>1. CASE u # t
      BY <1>1, <2>1, <2>2, <3>1, FilledCopies DEF OnlyTask, Copies
    <3>2. CASE u = t
      <4>1. Copies(t) /\ ~tasks[t].crossed
        BY <1>1, <2>2, <3>2 DEF Copies, Moves
      <4>2. CopyOf(t)
        BY <4>1 DEF Inv, CopyInv
      <4>3. tasks[t].source \in Names \ {tasks[t].name}
        BY <2>1, <4>1, <4>2 DEF Inv, TypeOK, Task, Copies, CopyOf, Exists, Filled
      <4>4. folders'[tasks[t].source] = folders[tasks[t].source] /\ folders'[tasks[t].name] = Begun
        BY <2>1, <4>3 DEF Filled
      <4> QED BY <1>1, <2>2, <3>2, <4>2, <4>4, FolderTypes DEF CopyOf, UsedBy, Exists, Moves
    <3> QED BY <3>1, <3>2
  <2> QED BY <2>3, <2>4, <2>5, <2>6, <2>7, <2>8, <2>9 DEF Inv
<1> QED BY <1>2, <1>3, AnswersTask, GoesTask DEF Make, Put, Inv, AnswersGiven, Making

LEMMA UnpackKeeps == ASSUME ConstantsOK, Inv, NEW t \in Tasks, Unpack(t) PROVE Inv'
<1>1. /\ tasks[t].pc = "pack" /\ Exists(tasks[t].name)
      /\ OnlyTask(t) /\ tasks'[t].pc = "install" /\ Moves(tasks[t], tasks'[t])
      /\ UNCHANGED <<folders, profiles, setup, backups, copying, server, active, lock, requests>>
  BY GoesTask DEF Unpack, disk, host, Inv, Making
<1>2. TypeOK'
  BY <1>1 DEF Inv, TypeOK, OnlyTask, Moves
<1>3. NamesInv'
  BY <1>1 DEF Inv, NamesInv, Making, Locked, ConstantsOK, OnlyTask, Moves
<1>4. LockInv'
  BY <1>1 DEF Inv, LockInv, Locked, ConstantsOK, OnlyTask, Moves
<1>5. RemovalInv'
  BY <1>1 DEF Inv, RemovalInv, UsedBy, OnlyTask, Moves
<1>6. MakingInv'
  BY <1>1 DEF Inv, MakingInv, Making, OnlyTask, Moves
<1>7. WholeInv'
  BY <1>1 DEF Inv, WholeInv, NamesInv, Making, OnlyTask, Moves
<1>8. CopyInv'
  BY <1>1 DEF Inv, TypeOK, CopyInv, CopyOf, Copies, UsedBy, Exists, NamesInv, Making,
     OnlyTask, Moves
<1> QED BY <1>2, <1>3, <1>4, <1>5, <1>6, <1>7, <1>8 DEF Inv

LEMMA InstallKeeps == ASSUME ConstantsOK, Inv, NEW t \in Tasks, Install(t) PROVE Inv'
<1>1. /\ tasks[t].pc = "install" /\ Exists(tasks[t].name) /\ tasks[t].name \in Names
      /\ OnlyFolder(tasks[t].name)
      /\ folders'[tasks[t].name].kind = "whole"
      /\ folders'[tasks[t].name].world = folders[tasks[t].name].world
      /\ UNCHANGED <<profiles, setup, backups, copying, server, active, lock, requests>>
  BY DEF Install, Put, OnlyFolder, host, Inv, TypeOK, Folder, NamesInv, Making
<1>2. /\ OnlyTask(t) /\ Moves(tasks[t], tasks'[t])
      /\ tasks'[t].pc = IF tasks[t].source = NoName THEN "register" ELSE "copy"
  BY GoesTask DEF Install, Inv, Making
<1>3. TypeOK'
  BY <1>1, <1>2 DEF Inv, TypeOK, OnlyTask, Moves, OnlyFolder
<1>4. NamesInv'
  <2>1. tasks'[t].pc = "copy" => tasks'[t].source \in Names
    BY <1>2 DEF Moves, Inv, TypeOK, Task
  <2>2. /\ tasks'[t].pc \in {"register", "copy"}
        /\ tasks'[t].name \in Names
    BY <1>1, <1>2 DEF Moves
  <2> QED BY <1>1, <1>2, <2>1, <2>2 DEF Inv, NamesInv, OnlyTask
<1>5. LockInv'
  BY <1>1, <1>2 DEF Inv, LockInv, Locked, ConstantsOK, OnlyTask, Moves, OnlyFolder
<1>6. RemovalInv'
  BY <1>1, <1>2 DEF Inv, RemovalInv, UsedBy, OnlyTask, Moves, OnlyFolder
<1>7. MakingInv'
  BY <1>1, <1>2 DEF Inv, MakingInv, Making, OnlyTask, Moves, OnlyFolder
<1>8. WholeInv'
  BY <1>1, <1>2 DEF Inv, WholeInv, NamesInv, Making, OnlyTask, Moves, OnlyFolder
<1>9. CopyInv'
  <2> SUFFICES ASSUME NEW u \in Tasks, Copies(u)', ~tasks'[u].crossed PROVE CopyOf(u)'
    BY DEF CopyInv
  <2>1. /\ \A m \in Names : folders'[m].world = folders[m].world /\ (Exists(m) => Exists(m)')
    BY <1>1 DEF OnlyFolder, Exists
  <2>2. CASE u # t
    <3>1. tasks'[u] = tasks[u] /\ CopyOf(u)
      BY <1>2, <2>2 DEF OnlyTask, Inv, CopyInv, Copies
    <3>2. tasks[u].source \in Names /\ tasks[u].name \in Names
      BY <3>1 DEF Inv, TypeOK, Task, NamesInv, Making, Copies
    <3> QED BY <1>1, <2>1, <3>1, <3>2 DEF CopyOf, UsedBy
  <2>3. CASE u = t
    <3>1. Copies(t) /\ ~tasks[t].crossed /\ tasks[t].source \in Names /\ tasks'[t].pc = "copy"
      BY <1>1, <1>2, <2>3 DEF Copies, Moves, Inv, TypeOK, Task
    <3>2. CopyOf(t)
      BY <3>1 DEF Inv, CopyInv
    <3> QED BY <1>1, <1>2, <2>1, <2>3, <3>1, <3>2 DEF CopyOf, UsedBy, Moves
  <2> QED BY <2>2, <2>3
<1> QED BY <1>3, <1>4, <1>5, <1>6, <1>7, <1>8, <1>9 DEF Inv

LEMMA InstallFailsKeeps == ASSUME ConstantsOK, Inv, NEW t \in Tasks, InstallFails(t) PROVE Inv'
<1>1. /\ tasks[t].name \in Names
      /\ UNCHANGED <<profiles, setup, backups, copying, server, active, lock, requests>>
  BY DEF InstallFails, host, Inv, NamesInv, Making
<1>2. OthersDisturbed(t, tasks[t].name) /\ tasks'[t].pc = "answer"
  BY AnsweredTask, DisturbsTask DEF InstallFails, Inv, AnswersGiven
<1>3. OnlyFolder(tasks[t].name)
  BY <1>1, FolderTypes DEF InstallFails, Cleared, OnlyFolder, Inv, TypeOK
<1> QED BY <1>1, <1>2, <1>3, RemovedKeeps

LEMMA CopyRootKeeps == ASSUME ConstantsOK, Inv, NEW t \in Tasks, CopyRoot(t) PROVE Inv'
<1>1. PICK r \in Roots :
        /\ tasks[t].pc = "copy" /\ Exists(tasks[t].name) /\ tasks[t].name \in Names
        /\ r \in Missing(t) \intersect RootsOf(tasks[t].source)
        /\ folders' = [folders EXCEPT ![tasks[t].name].world[r] = folders[tasks[t].source].world[r]]
        /\ Disturbs(t, [tasks[t] EXCEPT !.pc = IF Missing(t) = {r} THEN "register" ELSE "copy"])
        /\ UNCHANGED <<profiles, setup, backups, copying, server, active, lock, requests>>
  BY DEF CopyRoot, host, Missing, Reviewed, Inv, NamesInv, Making
<1>2. /\ OthersDisturbed(t, tasks[t].name) /\ Moves(tasks[t], tasks'[t])
      /\ tasks'[t].pc = IF Missing(t) = {r} THEN "register" ELSE "copy"
  <2> DEFINE pc == IF Missing(t) = {r} THEN "register" ELSE "copy"
  <2>1. pc \in Making \union Locked
    BY DEF Making
  <2> HIDE DEF pc
  <2>2. /\ [tasks[t] EXCEPT !.pc = pc] \in Task /\ [tasks[t] EXCEPT !.pc = pc].pc = pc
        /\ Moves(tasks[t], [tasks[t] EXCEPT !.pc = pc])
    BY <2>1, MovedTask DEF Inv, TypeOK
  <2>3. Disturbs(t, [tasks[t] EXCEPT !.pc = pc])
    BY <1>1 DEF pc
  <2>4. OthersDisturbed(t, tasks[t].name) /\ Moves(tasks[t], tasks'[t]) /\ tasks'[t].pc = pc
    BY <2>2, <2>3, DisturbsTask DEF Inv
  <2> QED BY <2>4 DEF pc
<1>3. /\ OnlyFolder(tasks[t].name)
      /\ folders'[tasks[t].name].kind = folders[tasks[t].name].kind
      /\ folders'[tasks[t].name].world[r] = folders[tasks[t].source].world[r]
      /\ \A x \in Roots \ {r} : folders'[tasks[t].name].world[x] = folders[tasks[t].name].world[x]
  <2>1. tasks[t].source \in Names
    BY <1>1 DEF Inv, NamesInv
  <2>2. folders[tasks[t].source].world[r] \in 0 .. MaxWorld
    BY <2>1 DEF Inv, TypeOK, Folder
  <2> QED BY <1>1, <2>2 DEF OnlyFolder, Inv, TypeOK, Folder
<1>4. ~tasks[t].crossed => folders[tasks[t].source].world[r] = tasks[t].seen[r]
  BY <1>1 DEF Inv, CopyInv, CopyOf, Copies, NamesInv, ConstantsOK, Missing, Reviewed
<1>5. Missing(t) = {r} => \A x \in Roots \ {r} : tasks[t].seen[x] > 0 => folders[tasks[t].name].world[x] > 0
  BY DEF Missing, Reviewed, RootsOf
<1>6. TypeOK'
  BY <1>1, <1>2, <1>3 DEF Inv, TypeOK, OthersDisturbed, Later, Moves, OnlyFolder
<1>7. NamesInv'
  BY SMTT(30), <1>1, <1>2, <1>3 DEF Inv, NamesInv, Making, Locked, ConstantsOK, OthersDisturbed,
     Later, Moves, OnlyFolder
<1>8. LockInv'
  BY SMTT(30), <1>1, <1>2, <1>3 DEF Inv, LockInv, Locked, ConstantsOK, OthersDisturbed, Later,
     Moves, OnlyFolder
<1>9. RemovalInv'
  BY SMTT(30), <1>1, <1>2, <1>3 DEF Inv, RemovalInv, UsedBy, OthersDisturbed, Later, Moves, OnlyFolder
<1>10. MakingInv'
  BY SMTT(30), <1>1, <1>2, <1>3 DEF Inv, MakingInv, Making, OthersDisturbed, Later, Moves, OnlyFolder
<1>11. WholeInv'
  BY SMTT(30), <1>1, <1>2, <1>3 DEF Inv, WholeInv, NamesInv, Making, OthersDisturbed, Later, Moves,
     OnlyFolder
<1>12. CopyInv'
  <2> SUFFICES ASSUME NEW u \in Tasks, Copies(u)', ~tasks'[u].crossed PROVE CopyOf(u)'
    BY DEF CopyInv
  <2>1. CASE u # t
    BY <1>1, <1>2, <1>3, <2>1, OtherCopies DEF OthersDisturbed, Copies, Later
  <2>2. CASE u = t /\ tasks[t].name # tasks[t].source
    <3>1. /\ ~tasks[t].crossed /\ tasks[t].source # NoName /\ tasks[t].source \in Names
          /\ tasks'[t].name = tasks[t].name /\ tasks'[t].source = tasks[t].source
          /\ tasks'[t].seen = tasks[t].seen /\ tasks'[t].pc \in {"copy", "register"}
          /\ tasks'[t].pc = "register" => Missing(t) = {r}
      BY <1>1, <1>2, <2>2 DEF Moves, Copies, Inv, NamesInv
    <3>2. /\ ~UsedBy(tasks[t].name) /\ ~UsedBy(tasks[t].source)
          /\ Exists(tasks[t].source)
          /\ \A x \in Roots : tasks[t].seen[x] > 0 => folders[tasks[t].source].world[x] = tasks[t].seen[x]
          /\ \A x \in Roots : folders[tasks[t].name].world[x] \in {0, tasks[t].seen[x]}
      BY <1>1, <3>1 DEF Inv, CopyInv, CopyOf, Copies
    <3>3. \A x \in Roots : folders'[tasks[t].name].world[x] \in {0, tasks[t].seen[x]}
      BY <1>3, <1>4, <3>1, <3>2
    <3>4. tasks'[t].pc = "register" => folders'[tasks[t].name].world = tasks[t].seen
      <4> SUFFICES ASSUME Missing(t) = {r} PROVE folders'[tasks[t].name].world = tasks[t].seen
        BY <3>1
      <4>1. /\ folders'[tasks[t].name].world \in [Roots -> 0 .. MaxWorld]
            /\ tasks[t].seen \in [Roots -> 0 .. MaxWorld]
        BY <1>1, <1>3 DEF OnlyFolder, Folder, Inv, TypeOK, Task
      <4>2. ASSUME NEW x \in Roots PROVE folders'[tasks[t].name].world[x] = tasks[t].seen[x]
        <5>1. CASE x = r
          BY <1>3, <1>4, <3>1, <5>1
        <5>2. CASE x # r
          <6>1. folders'[tasks[t].name].world[x] = folders[tasks[t].name].world[x]
            BY <1>3, <5>2
          <6>2. folders[tasks[t].name].world[x] \in {0, tasks[t].seen[x]}
            BY <3>2
          <6>3. tasks[t].seen[x] > 0 => folders[tasks[t].name].world[x] > 0
            BY <1>5, <5>2
          <6>4. tasks[t].seen[x] \in Nat
            BY <4>1 DEF ConstantsOK
          <6> QED BY <6>1, <6>2, <6>3, <6>4
        <5> QED BY <5>1, <5>2
      <4> QED BY <4>1, <4>2
    <3>5. /\ folders'[tasks[t].source] = folders[tasks[t].source]
          /\ Exists(tasks[t].name)'
      BY <1>1, <1>3, <2>2, <3>1 DEF OnlyFolder, Exists
    <3>6. server' = server
      BY <1>1
    <3>7. /\ (~UsedBy(tasks[t].name))' /\ (~UsedBy(tasks[t].source))'
          /\ Exists(tasks[t].source)'
          /\ \A x \in Roots : tasks[t].seen[x] > 0 => folders'[tasks[t].source].world[x] = tasks[t].seen[x]
      BY <2>2, <3>1, <3>2, <3>5, <3>6 DEF UsedBy, Exists
    <3> HIDE DEF UsedBy, Exists
    <3> QED BY <2>2, <3>1, <3>3, <3>4, <3>5, <3>7 DEF CopyOf
  <2>3. CASE u = t /\ tasks[t].name = tasks[t].source
    <3>1. Copies(t) /\ ~tasks[t].crossed
      BY <1>1, <1>2, <2>3 DEF Moves, Copies, Inv, NamesInv, ConstantsOK
    <3>2. \A x \in Roots : tasks[t].seen[x] > 0 => folders[tasks[t].name].world[x] = tasks[t].seen[x]
      BY <3>1, <2>3 DEF Inv, CopyInv, CopyOf
    <3>3. tasks[t].seen \in [Roots -> 0 .. MaxWorld]
      BY DEF Inv, TypeOK, Task
    <3>4. r \in Roots /\ tasks[t].seen[r] > 0 /\ r \notin RootsOf(tasks[t].name)
      BY <1>1 DEF Missing, Reviewed
    <3> QED BY <3>2, <3>3, <3>4 DEF RootsOf
  <2> QED BY <2>1, <2>2, <2>3
<1> QED BY <1>6, <1>7, <1>8, <1>9, <1>10, <1>11, <1>12 DEF Inv

LEMMA CopyFailsKeeps == ASSUME ConstantsOK, Inv, NEW t \in Tasks, CopyFails(t) PROVE Inv'
<1>1. /\ tasks[t].name \in Names
      /\ UNCHANGED <<profiles, setup, backups, copying, server, active, lock, requests>>
  BY DEF CopyFails, host, Inv, NamesInv, Making
<1>2. OnlyFolder(tasks[t].name) /\ OthersDisturbed(t, tasks[t].name) /\ tasks'[t].pc = "answer"
  BY <1>1, UndoneTask DEF CopyFails, Inv
<1> QED BY <1>1, <1>2, RemovedKeeps

LEMMA RegisterKeeps == ASSUME ConstantsOK, Inv, NEW t \in Tasks, Register(t) PROVE Inv'
<1>1. /\ tasks[t].pc = "register" /\ tasks[t].name \in Names
      /\ profiles' = profiles \union {tasks[t].name} /\ setup' \subseteq Names
      /\ UNCHANGED <<folders, backups, copying, server, active, lock, requests>>
  BY DEF Register, host, Inv, TypeOK, NamesInv, Making
<1>2. OthersCross(t, tasks[t].name) /\ tasks'[t].pc = "answer"
  BY AnsweredTask, CrossesTask DEF Register, Inv, AnswersGiven
<1>3. TypeOK'
  BY <1>1, <1>2 DEF Inv, TypeOK, OthersCross, Later
<1>4. NamesInv'
  BY <1>1, <1>2 DEF Inv, TypeOK, NamesInv, Making, Locked, OthersCross, Later, ConstantsOK
<1>5. LockInv'
  BY <1>1, <1>2 DEF Inv, TypeOK, LockInv, Locked, ConstantsOK, OthersCross, Later
<1>6. RemovalInv'
  BY <1>1, <1>2 DEF Inv, TypeOK, RemovalInv, UsedBy, OthersCross, Later
<1>7. MakingInv'
  BY <1>1, <1>2 DEF Inv, TypeOK, MakingInv, Making, OthersCross, Later, NamesInv
<1>8. WholeInv'
  BY <1>1, <1>2 DEF Inv, TypeOK, WholeInv, Exists, OthersCross, Later, NamesInv, Making
<1>9. CopyInv'
  BY <1>1, <1>2 DEF Inv, TypeOK, CopyInv, CopyOf, Copies, UsedBy, Exists, OthersCross,
     Later, NamesInv, Making
<1> QED BY <1>3, <1>4, <1>5, <1>6, <1>7, <1>8, <1>9 DEF Inv

LEMMA RegisterFailsKeeps == ASSUME ConstantsOK, Inv, NEW t \in Tasks, RegisterFails(t) PROVE Inv'
<1>1. /\ tasks[t].name \in Names
      /\ UNCHANGED <<profiles, setup, backups, copying, server, active, lock, requests>>
  BY DEF RegisterFails, host, Inv, NamesInv, Making
<1>2. CASE Answers(t, "failed") /\ UNCHANGED folders
  BY <1>1, <1>2, RestKeeps, AnswersTask DEF Inv, TypeOK, AnswersGiven
<1>3. CASE Undone(t)
  BY <1>1, <1>3, RemovedKeeps, UndoneTask DEF Inv
<1> QED BY <1>2, <1>3 DEF RegisterFails

LEMMA SwitchKeeps == ASSUME ConstantsOK, Inv, NEW t \in Tasks, Switch(t) PROVE Inv'
<1> DEFINE Asked(n) == [Idle EXCEPT !.pc = IF lock = NoTask THEN "stop" ELSE "queue",
                                    !.op = "switch", !.name = n, !.source = Current,
                                    !.waited = lock # NoTask]
<1>1. PICK n \in setup \intersect profiles :
        /\ Current \in profiles => Current \in backups
        /\ Begins(t, Asked(n))
        /\ lock' = (IF lock = NoTask THEN t ELSE lock)
        /\ UNCHANGED <<folders, profiles, setup, backups, copying, server, active>>
  BY DEF Switch, disk, host
<1>2. /\ Asked(n) \in Task
      /\ Asked(n).pc = IF lock = NoTask THEN "stop" ELSE "queue"
      /\ Asked(n).name = n /\ Asked(n).source = Current /\ n \in Names
      /\ Asked(n).waited <=> lock # NoTask
  BY ZenonT(40), FolderTypes DEF Inv, TypeOK, Task, Idle, Current
<1> HIDE DEF Asked
<1>3. /\ OnlyTask(t) /\ requests' \in 0 .. MaxRequests
      /\ tasks'[t].pc = IF lock = NoTask THEN "stop" ELSE "queue"
      /\ tasks'[t].name = n /\ tasks'[t].source = Current /\ n \in Names
      /\ tasks'[t].waited <=> lock # NoTask
  BY <1>1, <1>2, BeginsTask DEF Inv
<1>4. TypeOK'
  BY <1>1, <1>3 DEF Inv, TypeOK, OnlyTask, Current
<1>5. NamesInv'
  BY <1>1, <1>3 DEF Inv, NamesInv, Making, Locked, ConstantsOK, OnlyTask, Current
<1>6. LockInv'
  BY <1>1, <1>3 DEF Inv, LockInv, Locked, ConstantsOK, OnlyTask, Current
<1>7. RemovalInv'
  BY <1>1, <1>3 DEF Inv, RemovalInv, UsedBy, OnlyTask, Current
<1>8. MakingInv'
  BY <1>1, <1>3 DEF Inv, MakingInv, Making, OnlyTask, Current
<1>9. WholeInv'
  BY <1>1, <1>3 DEF Inv, WholeInv, NamesInv, Making, OnlyTask, Current
<1>10. CopyInv'
  BY <1>1, <1>3 DEF Inv, TypeOK, CopyInv, CopyOf, Copies, UsedBy, Exists, NamesInv,
     Making, OnlyTask, Current
<1> QED BY <1>4, <1>5, <1>6, <1>7, <1>8, <1>9, <1>10 DEF Inv

LEMMA SwitchLocksKeeps == ASSUME ConstantsOK, Inv, NEW t \in Tasks, SwitchLocks(t) PROVE Inv'
<1>1. /\ tasks[t].pc = "queue" /\ lock = NoTask /\ lock' = t
      /\ OnlyTask(t) /\ tasks'[t].pc = "stop" /\ Moves(tasks[t], tasks'[t])
      /\ UNCHANGED <<folders, profiles, setup, backups, copying, server, active, requests>>
  BY GoesTask DEF SwitchLocks, disk, host, Inv, Locked
<1>2. TypeOK'
  BY <1>1 DEF Inv, TypeOK, OnlyTask, Moves
<1>3. NamesInv'
  BY <1>1 DEF Inv, TypeOK, NamesInv, Making, Locked, OnlyTask, Moves, ConstantsOK
<1>4. LockInv'
  BY <1>1 DEF Inv, TypeOK, LockInv, Locked, ConstantsOK, OnlyTask, Moves
<1>5. RemovalInv'
  BY <1>1 DEF Inv, TypeOK, RemovalInv, UsedBy, OnlyTask, Moves
<1>6. MakingInv'
  BY <1>1 DEF Inv, TypeOK, MakingInv, Making, OnlyTask, Moves, NamesInv
<1>7. WholeInv'
  BY <1>1 DEF Inv, TypeOK, WholeInv, Exists, OnlyTask, Moves, NamesInv, Making
<1>8. CopyInv'
  BY <1>1 DEF Inv, TypeOK, CopyInv, CopyOf, Copies, UsedBy, Exists, OnlyTask, Moves,
     NamesInv, Making
<1> QED BY <1>2, <1>3, <1>4, <1>5, <1>6, <1>7, <1>8 DEF Inv

LEMMA SwitchStopsKeeps == ASSUME ConstantsOK, Inv, NEW t \in Tasks, SwitchStops(t) PROVE Inv'
<1>1. /\ tasks[t].pc = "stop" /\ OnlyTask(t)
      /\ \/ /\ server' = [state |-> "stopped", in |-> NoName] /\ active' = NoName /\ lock' = lock
            /\ tasks'[t].pc = "start" /\ Moves(tasks[t], tasks'[t])
         \/ /\ server.state = "up" /\ server' = [state |-> "stopping", in |-> server.in]
            /\ tasks'[t].pc = "answer" /\ lock' = NoTask /\ active' = active
         \/ /\ server.state # "up" /\ UNCHANGED <<server, active, lock>>
            /\ tasks'[t].pc = "start" /\ Moves(tasks[t], tasks'[t])
      /\ UNCHANGED <<folders, profiles, setup, backups, copying, requests>>
  BY AnswersTask, GoesTask DEF SwitchStops, disk, Inv, TypeOK, AnswersGiven, Locked
<1>2. TypeOK'
  BY <1>1 DEF Inv, TypeOK, OnlyTask, Moves
<1>3. NamesInv'
  BY <1>1 DEF Inv, TypeOK, NamesInv, Making, Locked, OnlyTask, Moves, ConstantsOK
<1>4. LockInv'
  BY <1>1 DEF Inv, TypeOK, LockInv, Locked, ConstantsOK, OnlyTask, Moves
<1>5. RemovalInv'
  BY <1>1 DEF Inv, TypeOK, RemovalInv, UsedBy, OnlyTask, Moves
<1>6. MakingInv'
  BY <1>1 DEF Inv, TypeOK, MakingInv, Making, OnlyTask, Moves, NamesInv
<1>7. WholeInv'
  BY <1>1 DEF Inv, TypeOK, WholeInv, Exists, OnlyTask, Moves, NamesInv, Making
<1>8. CopyInv'
  BY <1>1 DEF Inv, TypeOK, CopyInv, CopyOf, Copies, UsedBy, Exists, OnlyTask, Moves,
     NamesInv, Making
<1> QED BY <1>2, <1>3, <1>4, <1>5, <1>6, <1>7, <1>8 DEF Inv

LEMMA SwitchStartsKeeps == ASSUME ConstantsOK, Inv, NEW t \in Tasks, SwitchStarts(t) PROVE Inv'
<1>1. /\ tasks[t].pc = "start" /\ tasks[t].name \in Names
      /\ UNCHANGED <<folders, profiles, setup, backups, copying, active, requests>>
  BY DEF SwitchStarts, disk, Inv, NamesInv, Locked
<1>2. \/ /\ server.state = "stopped" /\ server' = [state |-> "up", in |-> tasks[t].name] /\ lock' = lock
         /\ OthersCross(t, tasks[t].name) /\ tasks'[t].pc = "started" /\ Moves(tasks[t], tasks'[t])
      \/ OnlyTask(t) /\ tasks'[t].pc = "answer" /\ lock' = NoTask /\ server' = server
  BY AnswersTask, CrossesTask DEF SwitchStarts, Inv, TypeOK, Task, Moves, AnswersGiven
<1>3. TypeOK'
  BY <1>1, <1>2 DEF Inv, TypeOK, OnlyTask, OthersCross, Moves, Later
<1>4. NamesInv'
  BY <1>1, <1>2 DEF Inv, TypeOK, NamesInv, Making, Locked, OnlyTask, OthersCross, Moves,
     Later, ConstantsOK
<1>5. LockInv'
  BY <1>1, <1>2 DEF Inv, TypeOK, LockInv, Locked, ConstantsOK, OnlyTask, OthersCross,
     Moves, Later
<1>6. RemovalInv'
  BY <1>1, <1>2 DEF Inv, TypeOK, RemovalInv, UsedBy, OnlyTask, OthersCross, Moves, Later
<1>7. MakingInv'
  BY <1>1, <1>2 DEF Inv, TypeOK, MakingInv, Making, OnlyTask, OthersCross, Moves, Later,
     NamesInv
<1>8. WholeInv'
  BY <1>1, <1>2 DEF Inv, TypeOK, WholeInv, Exists, OnlyTask, OthersCross, Moves, Later,
     NamesInv, Making
<1>9. CopyInv'
  BY SMTT(30), <1>1, <1>2 DEF Inv, TypeOK, CopyInv, CopyOf, Copies, UsedBy, Exists, OnlyTask,
     OthersCross, Moves, Later, NamesInv, Making
<1> QED BY <1>3, <1>4, <1>5, <1>6, <1>7, <1>8, <1>9 DEF Inv

LEMMA SwitchReturnsKeeps == ASSUME ConstantsOK, Inv, NEW t \in Tasks, SwitchReturns(t) PROVE Inv'
<1>1. /\ tasks[t].pc = "started" /\ lock' = NoTask /\ active' = tasks[t].name
      /\ OthersCross(t, tasks[t].name) /\ tasks'[t].pc = "answer"
      /\ UNCHANGED <<folders, profiles, setup, backups, copying, server, requests>>
  BY AnsweredTask, CrossesTask DEF SwitchReturns, disk, Inv, AnswersGiven
<1>2. TypeOK'
  BY <1>1 DEF Inv, TypeOK, OthersCross, Later, Task
<1>3. NamesInv'
  BY <1>1 DEF Inv, TypeOK, NamesInv, Making, Locked, OthersCross, Later, ConstantsOK
<1>4. LockInv'
  BY <1>1 DEF Inv, TypeOK, LockInv, Locked, ConstantsOK, OthersCross, Later
<1>5. RemovalInv'
  BY <1>1 DEF Inv, TypeOK, RemovalInv, UsedBy, OthersCross, Later
<1>6. MakingInv'
  BY <1>1 DEF Inv, TypeOK, MakingInv, Making, OthersCross, Later, NamesInv
<1>7. WholeInv'
  BY <1>1 DEF Inv, TypeOK, WholeInv, Exists, OthersCross, Later, NamesInv, Making
<1>8. CopyInv'
  BY <1>1 DEF Inv, TypeOK, CopyInv, CopyOf, Copies, UsedBy, Exists, OthersCross, Later,
     NamesInv, Making
<1> QED BY <1>2, <1>3, <1>4, <1>5, <1>6, <1>7, <1>8 DEF Inv

LEMMA RemoveKeeps == ASSUME ConstantsOK, Inv, NEW t \in Tasks, Remove(t) PROVE Inv'
<1> DEFINE Asked(n, too) == [Idle EXCEPT !.pc = "revoke", !.op = "remove", !.name = n,
                                           !.files = too, !.crossed = Starting(n)]
<1>1. PICK n \in profiles \ copying, too \in BOOLEAN :
        /\ active # n
        /\ Begins(t, Asked(n, too))
        /\ UNCHANGED <<folders, profiles, setup, backups, copying, server, active, lock>>
  BY DEF Remove, disk, host
<1>2. /\ Asked(n, too) \in Task
      /\ Asked(n, too).pc = "revoke" /\ Asked(n, too).op = "remove"
      /\ Asked(n, too).name = n /\ n \in Names
      /\ Asked(n, too).crossed <=> Starting(n)
  BY ZenonT(40), FolderTypes DEF Inv, TypeOK, Task, Idle, Starting
<1> HIDE DEF Asked
<1>3. /\ OnlyTask(t) /\ requests' \in 0 .. MaxRequests
      /\ tasks'[t].pc = "revoke" /\ tasks'[t].op = "remove" /\ tasks'[t].name = n /\ n \in Names
      /\ tasks'[t].crossed <=> Starting(n)
  BY <1>1, <1>2, BeginsTask DEF Inv
<1>4. TypeOK'
  BY <1>1, <1>3 DEF Inv, TypeOK, OnlyTask
<1>5. NamesInv'
  BY <1>1, <1>3 DEF Inv, NamesInv, Making, Locked, ConstantsOK, OnlyTask
<1>6. LockInv'
  BY <1>1, <1>3 DEF Inv, LockInv, Locked, ConstantsOK, OnlyTask
<1>7. RemovalInv'
  BY <1>1, <1>3 DEF Inv, RemovalInv, UsedBy, OnlyTask, Starting, LockInv
<1>8. MakingInv'
  BY <1>1, <1>3 DEF Inv, MakingInv, Making, OnlyTask
<1>9. WholeInv'
  BY <1>1, <1>3 DEF Inv, WholeInv, NamesInv, Making, OnlyTask
<1>10. CopyInv'
  BY <1>1, <1>3 DEF Inv, TypeOK, CopyInv, CopyOf, Copies, UsedBy, Exists, NamesInv,
     Making, OnlyTask
<1> QED BY <1>4, <1>5, <1>6, <1>7, <1>8, <1>9, <1>10 DEF Inv

LEMMA RemoveEndsKeeps == ASSUME ConstantsOK, Inv, NEW t \in Tasks, RemoveEnds(t) PROVE Inv'
<1>1. /\ tasks[t].pc = "revoke" /\ tasks[t].name \in Names
      /\ OthersCross(t, tasks[t].name) /\ tasks'[t].pc = "answer"
      /\ UNCHANGED <<setup, copying, server, active, lock, requests>>
  BY AnsweredTask, CrossesTask DEF RemoveEnds, host, Inv, NamesInv, AnswersGiven
<1>2. OnlyFolder(tasks[t].name)
  <2>1. \/ folders' = folders \/ folders' = [folders EXCEPT ![tasks[t].name] = Gone]
        \/ folders' = [folders EXCEPT ![tasks[t].name].kind = "partial"]
    BY DEF RemoveEnds, Put
  <2>2. folders[tasks[t].name] \in Folder
    BY <1>1 DEF Inv, TypeOK
  <2>3. [folders[tasks[t].name] EXCEPT !.kind = "partial"] \in Folder
    BY <2>2 DEF Folder
  <2> QED BY <1>1, <2>1, <2>3, FolderTypes DEF OnlyFolder, Inv, TypeOK
<1>3. /\ profiles' \subseteq profiles /\ backups' \subseteq profiles'
      /\ backups \ {tasks[t].name} \subseteq backups'
  BY <1>1 DEF RemoveEnds, Inv, TypeOK
<1>4. TypeOK'
  BY <1>1, <1>2, <1>3 DEF Inv, TypeOK, OthersCross, Later, OnlyFolder
<1>5. NamesInv'
  BY <1>1, <1>2, <1>3 DEF Inv, NamesInv, Making, Locked, ConstantsOK, OthersCross, Later,
     OnlyFolder
<1>6. LockInv'
  BY <1>1, <1>2, <1>3 DEF Inv, LockInv, Locked, ConstantsOK, OthersCross, Later, OnlyFolder
<1>7. RemovalInv'
  BY <1>1, <1>2, <1>3 DEF Inv, RemovalInv, UsedBy, OthersCross, Later, OnlyFolder
<1>8. MakingInv'
  BY <1>1, <1>2, <1>3 DEF Inv, MakingInv, Making, OthersCross, Later, OnlyFolder
<1>9. WholeInv'
  BY <1>1, <1>2, <1>3 DEF Inv, WholeInv, NamesInv, Making, OthersCross, Later, OnlyFolder
<1>10. CopyInv'
  <2> SUFFICES ASSUME NEW u \in Tasks, Copies(u)', ~tasks'[u].crossed PROVE CopyOf(u)'
    BY DEF CopyInv
  <2>1. u # t
    BY <1>1 DEF Copies
  <2>2. Later(tasks[u], tasks'[u]) /\ tasks[u].source # tasks[t].name /\ tasks[u].name # tasks[t].name
    BY <1>1, <2>1 DEF OthersCross
  <2> QED BY <1>1, <1>2, <2>2, OtherCopies
<1> QED BY <1>4, <1>5, <1>6, <1>7, <1>8, <1>9, <1>10 DEF Inv

LEMMA AnswerKeeps == ASSUME ConstantsOK, Inv, NEW t \in Tasks, Answer(t) PROVE Inv'
BY RestKeeps, FolderTypes DEF Answer, Set, OnlyTask, disk, host, Inv, TypeOK

LEMMA StartBeginsKeeps == ASSUME ConstantsOK, Inv, StartBegins PROVE Inv'
<1>1. PICK n \in profiles :
        /\ lock = NoTask /\ lock' = Owner /\ server.state = "stopped"
        /\ server' = [state |-> "up", in |-> n] /\ tasks' = Crossed(n)
        /\ UNCHANGED <<folders, profiles, setup, backups, copying, active, requests>>
  BY DEF StartBegins, disk
<1>2. AllCross(n)
  BY <1>1, CrossedTasks DEF Inv, AllCross
<1>3. TypeOK'
  BY <1>1, <1>2 DEF Inv, TypeOK, AllCross, Later
<1>4. NamesInv'
  BY <1>1, <1>2 DEF Inv, TypeOK, NamesInv, Making, Locked, AllCross, Later, ConstantsOK
<1>5. LockInv'
  BY <1>1, <1>2 DEF Inv, TypeOK, LockInv, Locked, ConstantsOK, AllCross, Later
<1>6. RemovalInv'
  BY <1>1, <1>2 DEF Inv, TypeOK, RemovalInv, UsedBy, AllCross, Later
<1>7. MakingInv'
  BY <1>1, <1>2 DEF Inv, TypeOK, MakingInv, Making, AllCross, Later, NamesInv
<1>8. WholeInv'
  BY <1>1, <1>2 DEF Inv, TypeOK, WholeInv, Exists, AllCross, Later, NamesInv, Making
<1>9. CopyInv'
  BY <1>1, <1>2 DEF Inv, TypeOK, CopyInv, CopyOf, Copies, UsedBy, Exists, AllCross, Later,
     NamesInv, Making
<1> QED BY <1>3, <1>4, <1>5, <1>6, <1>7, <1>8, <1>9 DEF Inv

LEMMA StartReturnsKeeps == ASSUME ConstantsOK, Inv, StartReturns PROVE Inv'
<1>1. /\ lock = Owner /\ lock' = NoTask /\ active' = server.in
      /\ UNCHANGED <<folders, profiles, setup, backups, copying, server, requests>>
  BY DEF StartReturns, disk
<1>2. AllCross(server.in)
  BY CrossedTasks DEF StartReturns, Inv, AllCross
<1>3. TypeOK'
  BY <1>1, <1>2 DEF Inv, TypeOK, AllCross, Later
<1>4. NamesInv'
  BY <1>1, <1>2 DEF Inv, TypeOK, NamesInv, Making, Locked, AllCross, Later, ConstantsOK
<1>5. LockInv'
  BY <1>1, <1>2 DEF Inv, TypeOK, LockInv, Locked, ConstantsOK, AllCross, Later
<1>6. RemovalInv'
  BY <1>1, <1>2 DEF Inv, TypeOK, RemovalInv, UsedBy, AllCross, Later
<1>7. MakingInv'
  BY <1>1, <1>2 DEF Inv, TypeOK, MakingInv, Making, AllCross, Later, NamesInv
<1>8. WholeInv'
  BY <1>1, <1>2 DEF Inv, TypeOK, WholeInv, Exists, AllCross, Later, NamesInv, Making
<1>9. CopyInv'
  BY <1>1, <1>2 DEF Inv, TypeOK, CopyInv, CopyOf, Copies, UsedBy, Exists, AllCross, Later,
     NamesInv, Making
<1> QED BY <1>3, <1>4, <1>5, <1>6, <1>7, <1>8, <1>9 DEF Inv

LEMMA PlaysKeeps == ASSUME ConstantsOK, Inv, Plays PROVE Inv'
<1> DEFINE Played == [r \in Roots |-> IF folders[server.in].world[r] > 0
                                      THEN folders[server.in].world[r] + 1 ELSE 0]
<1>1. /\ server.state # "stopped" /\ server.in \in Names
      /\ \A r \in Roots : folders[server.in].world[r] < MaxWorld
      /\ folders' = [folders EXCEPT ![server.in] = [folders[server.in] EXCEPT !.world = Played]]
      /\ tasks' = tasks
      /\ UNCHANGED <<profiles, setup, backups, copying, server, active, lock, requests>>
  BY DEF Plays, Alive, host, Inv, TypeOK, NamesInv, Folder
<1>2. Played \in [Roots -> 0 .. MaxWorld]
  BY <1>1 DEF Inv, TypeOK, Folder, ConstantsOK
<1> HIDE DEF Played
<1>3. /\ OnlyFolder(server.in)
      /\ folders'[server.in].kind = folders[server.in].kind
  BY <1>1, <1>2 DEF OnlyFolder, Inv, TypeOK, Folder
<1>4. TypeOK'
  BY <1>1, <1>3 DEF Inv, TypeOK, OnlyFolder
<1>5. NamesInv'
  BY <1>1 DEF Inv, NamesInv
<1>6. LockInv'
  BY <1>1 DEF Inv, LockInv
<1>7. RemovalInv'
  BY <1>1 DEF Inv, RemovalInv, UsedBy
<1>8. MakingInv'
  BY <1>1 DEF Inv, MakingInv
<1>9. WholeInv'
  BY <1>1, <1>3 DEF Inv, WholeInv, NamesInv, Making, OnlyFolder
<1>10. CopyInv'
  BY <1>1, <1>3 DEF Inv, TypeOK, Task, CopyInv, CopyOf, Copies, UsedBy, Exists, NamesInv,
     Making, OnlyFolder
<1> QED BY <1>4, <1>5, <1>6, <1>7, <1>8, <1>9, <1>10 DEF Inv

LEMMA ServerEndsKeeps == ASSUME ConstantsOK, Inv, ServerEnds PROVE Inv'
<1>1. /\ server' = [state |-> "stopped", in |-> server.in] /\ active' \in {active, NoName}
      /\ tasks' = tasks
      /\ UNCHANGED <<folders, profiles, setup, backups, copying, lock, requests>>
  BY DEF ServerEnds, Alive, disk, Inv, TypeOK
<1>2. TypeOK'
  BY <1>1 DEF Inv, TypeOK
<1>3. NamesInv'
  BY <1>1 DEF Inv, TypeOK, NamesInv, Making, Locked, ConstantsOK
<1>4. LockInv'
  BY <1>1 DEF Inv, TypeOK, LockInv, Locked, ConstantsOK
<1>5. RemovalInv'
  BY <1>1 DEF Inv, TypeOK, RemovalInv, UsedBy
<1>6. MakingInv'
  BY <1>1 DEF Inv, TypeOK, MakingInv, Making, NamesInv
<1>7. WholeInv'
  BY <1>1 DEF Inv, TypeOK, WholeInv, Exists, NamesInv, Making
<1>8. CopyInv'
  BY <1>1 DEF Inv, TypeOK, CopyInv, CopyOf, Copies, UsedBy, Exists, NamesInv, Making
<1> QED BY <1>2, <1>3, <1>4, <1>5, <1>6, <1>7, <1>8 DEF Inv

LEMMA StopBeginsKeeps == ASSUME ConstantsOK, Inv, StopBegins PROVE Inv'
<1>1. /\ server.state = "up" /\ server' = [state |-> "stopping", in |-> server.in]
      /\ tasks' = tasks
      /\ UNCHANGED <<folders, profiles, setup, backups, copying, active, lock, requests>>
  BY DEF StopBegins, disk, Inv, TypeOK
<1>2. TypeOK'
  BY <1>1 DEF Inv, TypeOK
<1>3. NamesInv'
  BY <1>1 DEF Inv, TypeOK, NamesInv, Making, Locked, ConstantsOK
<1>4. LockInv'
  BY <1>1 DEF Inv, TypeOK, LockInv, Locked, ConstantsOK
<1>5. RemovalInv'
  BY <1>1 DEF Inv, TypeOK, RemovalInv, UsedBy
<1>6. MakingInv'
  BY <1>1 DEF Inv, TypeOK, MakingInv, Making, NamesInv
<1>7. WholeInv'
  BY <1>1 DEF Inv, TypeOK, WholeInv, Exists, NamesInv, Making
<1>8. CopyInv'
  BY <1>1 DEF Inv, TypeOK, CopyInv, CopyOf, Copies, UsedBy, Exists, NamesInv, Making
<1> QED BY <1>2, <1>3, <1>4, <1>5, <1>6, <1>7, <1>8 DEF Inv

LEMMA BackupBeginsKeeps == ASSUME ConstantsOK, Inv, BackupBegins PROVE Inv'
<1>1. PICK n \in profiles :
        /\ copying' = copying \union {n} /\ tasks' = Crossed(n)
        /\ UNCHANGED <<folders, profiles, setup, backups, server, active, lock, requests>>
  BY DEF BackupBegins, disk
<1>2. AllCross(n)
  BY <1>1, CrossedTasks DEF Inv, AllCross
<1>3. TypeOK'
  BY <1>1, <1>2 DEF Inv, TypeOK, AllCross, Later
<1>4. NamesInv'
  BY <1>1, <1>2 DEF Inv, TypeOK, NamesInv, Making, Locked, AllCross, Later, ConstantsOK
<1>5. LockInv'
  BY <1>1, <1>2 DEF Inv, TypeOK, LockInv, Locked, ConstantsOK, AllCross, Later
<1>6. RemovalInv'
  BY <1>1, <1>2 DEF Inv, TypeOK, RemovalInv, UsedBy, AllCross, Later
<1>7. MakingInv'
  BY <1>1, <1>2 DEF Inv, TypeOK, MakingInv, Making, AllCross, Later, NamesInv
<1>8. WholeInv'
  BY <1>1, <1>2 DEF Inv, TypeOK, WholeInv, Exists, AllCross, Later, NamesInv, Making
<1>9. CopyInv'
  BY <1>1, <1>2 DEF Inv, TypeOK, CopyInv, CopyOf, Copies, UsedBy, Exists, AllCross, Later,
     NamesInv, Making
<1> QED BY <1>3, <1>4, <1>5, <1>6, <1>7, <1>8, <1>9 DEF Inv

LEMMA BackupEndsKeeps == ASSUME ConstantsOK, Inv, BackupEnds PROVE Inv'
<1>1. /\ copying' \subseteq copying /\ backups \subseteq backups' /\ backups' \subseteq profiles
      /\ tasks' = tasks
      /\ UNCHANGED <<folders, profiles, setup, server, active, lock, requests>>
  BY DEF BackupEnds, Inv, TypeOK
<1>2. TypeOK'
  BY <1>1 DEF Inv, TypeOK
<1>3. NamesInv'
  BY <1>1 DEF Inv, TypeOK, NamesInv, Making, Locked, ConstantsOK
<1>4. LockInv'
  BY <1>1 DEF Inv, TypeOK, LockInv, Locked, ConstantsOK
<1>5. RemovalInv'
  BY <1>1 DEF Inv, TypeOK, RemovalInv, UsedBy
<1>6. MakingInv'
  BY <1>1 DEF Inv, TypeOK, MakingInv, Making, NamesInv
<1>7. WholeInv'
  BY <1>1 DEF Inv, TypeOK, WholeInv, Exists, NamesInv, Making
<1>8. CopyInv'
  BY <1>1 DEF Inv, TypeOK, CopyInv, CopyOf, Copies, UsedBy, Exists, NamesInv, Making
<1> QED BY <1>2, <1>3, <1>4, <1>5, <1>6, <1>7, <1>8 DEF Inv

LEMMA ImportKeeps == ASSUME ConstantsOK, Inv, Import PROVE Inv'
<1>1. PICK n \in Names :
        /\ profiles' = profiles \union {n} /\ tasks' = Crossed(n)
        /\ requests' \in 0 .. MaxRequests
        /\ UNCHANGED <<folders, setup, backups, copying, server, active, lock>>
  BY DEF Import, Asks, host, Inv, TypeOK, ConstantsOK
<1>2. AllCross(n)
  BY <1>1, CrossedTasks DEF Inv, AllCross
<1>3. TypeOK'
  BY <1>1, <1>2 DEF Inv, TypeOK, AllCross, Later
<1>4. NamesInv'
  BY <1>1, <1>2 DEF Inv, TypeOK, NamesInv, Making, Locked, AllCross, Later, ConstantsOK
<1>5. LockInv'
  BY <1>1, <1>2 DEF Inv, TypeOK, LockInv, Locked, ConstantsOK, AllCross, Later
<1>6. RemovalInv'
  BY <1>1, <1>2 DEF Inv, TypeOK, RemovalInv, UsedBy, AllCross, Later
<1>7. MakingInv'
  BY <1>1, <1>2 DEF Inv, TypeOK, MakingInv, Making, AllCross, Later, NamesInv
<1>8. WholeInv'
  BY <1>1, <1>2 DEF Inv, TypeOK, WholeInv, Exists, AllCross, Later, NamesInv, Making
<1>9. CopyInv'
  BY <1>1, <1>2 DEF Inv, TypeOK, CopyInv, CopyOf, Copies, UsedBy, Exists, AllCross, Later,
     NamesInv, Making
<1> QED BY <1>3, <1>4, <1>5, <1>6, <1>7, <1>8, <1>9 DEF Inv

LEMMA CreateSetupKeeps == ASSUME ConstantsOK, Inv, CreateSetup PROVE Inv'
<1>1. /\ setup' \subseteq Names /\ requests' \in 0 .. MaxRequests /\ tasks' = tasks
      /\ UNCHANGED <<folders, profiles, backups, copying, server, active, lock>>
  BY DEF CreateSetup, Asks, host, Inv, TypeOK, ConstantsOK
<1>2. TypeOK'
  BY <1>1 DEF Inv, TypeOK
<1>3. NamesInv'
  BY <1>1 DEF Inv, TypeOK, NamesInv, Making, Locked, ConstantsOK
<1>4. LockInv'
  BY <1>1 DEF Inv, TypeOK, LockInv, Locked, ConstantsOK
<1>5. RemovalInv'
  BY <1>1 DEF Inv, TypeOK, RemovalInv, UsedBy
<1>6. MakingInv'
  BY <1>1 DEF Inv, TypeOK, MakingInv, Making, NamesInv
<1>7. WholeInv'
  BY <1>1 DEF Inv, TypeOK, WholeInv, Exists, NamesInv, Making
<1>8. CopyInv'
  BY <1>1 DEF Inv, TypeOK, CopyInv, CopyOf, Copies, UsedBy, Exists, NamesInv, Making
<1> QED BY <1>2, <1>3, <1>4, <1>5, <1>6, <1>7, <1>8 DEF Inv

LEMMA CrashKeeps == ASSUME ConstantsOK, Inv, Crash PROVE Inv'
<1>1. /\ tasks' \in [Tasks -> Task] /\ \A u \in Tasks : tasks'[u].pc = "idle"
      /\ lock' = NoTask /\ copying' = {}
      /\ server' = [state |-> "stopped", in |-> NoName] /\ active' = NoName
      /\ UNCHANGED <<folders, profiles, setup, backups, requests>>
  BY FolderTypes DEF Crash, disk, Idle
<1>2. TypeOK'
  BY <1>1 DEF Inv, TypeOK
<1>3. NamesInv'
  BY <1>1 DEF Inv, TypeOK, NamesInv, Making, Locked, ConstantsOK
<1>4. LockInv'
  BY <1>1 DEF Inv, TypeOK, LockInv, Locked, ConstantsOK
<1>5. RemovalInv'
  BY <1>1 DEF Inv, TypeOK, RemovalInv, UsedBy
<1>6. MakingInv'
  BY <1>1 DEF Inv, TypeOK, MakingInv, Making, NamesInv
<1>7. WholeInv'
  BY <1>1 DEF Inv, TypeOK, WholeInv, Exists, NamesInv, Making
<1>8. CopyInv'
  BY <1>1 DEF Inv, TypeOK, CopyInv, CopyOf, Copies, UsedBy, Exists, NamesInv, Making
<1> QED BY <1>2, <1>3, <1>4, <1>5, <1>6, <1>7, <1>8 DEF Inv


-----------------------------------------------------------------------------

LEMMA StepKeeps == ASSUME ConstantsOK, Inv, [Next]_vars PROVE Inv'
<1>1. ASSUME NEW t \in Tasks, Makes(t) PROVE Inv'
  BY <1>1, UploadKeeps, UploadFailsKeeps, FinishUploadKeeps, ProvisionKeeps, BadModpackKeeps,
     ModpackKeeps, MigrateKeeps, CreateVariantKeeps, PlanFailsKeeps, MakeKeeps, UnpackKeeps,
     InstallKeeps, InstallFailsKeeps, CopyRootKeeps, CopyFailsKeeps, RegisterKeeps,
     RegisterFailsKeeps DEF Makes
<1>2. ASSUME NEW t \in Tasks, Switches(t) PROVE Inv'
  BY <1>2, SwitchKeeps, SwitchLocksKeeps, SwitchStopsKeeps, SwitchStartsKeeps,
     SwitchReturnsKeeps DEF Switches
<1>3. ASSUME NEW t \in Tasks, Removes(t) \/ Answer(t) PROVE Inv'
  BY <1>3, RemoveKeeps, RemoveEndsKeeps, AnswerKeeps DEF Removes
<1>4. CASE StartBegins \/ StartReturns \/ StopBegins \/ Plays \/ ServerEnds \/ BackupBegins \/ BackupEnds
  BY <1>4, StartBeginsKeeps, StartReturnsKeeps, StopBeginsKeeps, PlaysKeeps, ServerEndsKeeps,
     BackupBeginsKeeps, BackupEndsKeeps
<1>5. CASE Import \/ CreateSetup \/ Crash
  BY <1>5, ImportKeeps, CreateSetupKeeps, CrashKeeps
<1>6. CASE UNCHANGED vars
  BY <1>6 DEF vars, disk, host, Inv, TypeOK, NamesInv, LockInv, RemovalInv, MakingInv,
     WholeInv,
     CopyInv, Copies, CopyOf, UsedBy, Exists
<1> QED BY <1>1, <1>2, <1>3, <1>4, <1>5, <1>6 DEF Next

\* What requests have in hand, what update_lock protects and the types of the
\* state hold in every state.
THEOREM Invariance == ASSUME ConstantsOK PROVE Spec => []Inv
<1>1. Init => Inv
  BY InitInv
<1>2. Inv /\ [Next]_vars => Inv'
  BY StepKeeps
<1> QED BY <1>1, <1>2, PTL DEF Spec

\* The state has its type.
THEOREM TypeCorrect == ASSUME ConstantsOK PROVE Spec => []TypeOK
<1>1. Inv => TypeOK
  BY DEF Inv
<1> QED BY <1>1, Invariance, PTL

-----------------------------------------------------------------------------
(* What a step may do.                                                     *)

\* The tasks after a step of a request.
LEMMA SetTask ==
  ASSUME TypeOK, NEW t \in Tasks, NEW task, Set(t, task) \/ Crosses(t, task) \/ Disturbs(t, task)
  PROVE  tasks'[t] = task /\ \A u \in Tasks \ {t} : tasks'[u].pc = tasks[u].pc
BY CrossedTasks, DisturbedTasks DEF Set, Crosses, Disturbs, TypeOK, Later

LEMMA GivenAnswer ==
  ASSUME NEW answer
  PROVE  Answered(answer).pc = "answer" /\ Answered(answer).answer = answer
BY DEF Answered, Idle

\* Every step of a request is a step of its task alone.
LEMMA OthersRest ==
  ASSUME ConstantsOK, Inv, NEW t \in Tasks, Makes(t) \/ Switches(t) \/ Removes(t) \/ Answer(t)
  PROVE  \A u \in Tasks \ {t} : tasks'[u].pc = tasks[u].pc
<1>1. CASE Makes(t)
  BY <1>1, SetTask DEF Makes, Upload, UploadFails, FinishUpload, Provision, BadModpack,
     Modpack,
     Migrate, CreateVariant, PlanFails, Make, Unpack, Install, InstallFails, CopyRoot,
     CopyFails,
     Register, RegisterFails, Undone, Begins, Answers, Goes, Inv
<1>2. CASE Switches(t)
  BY <1>2, SetTask DEF Switches, Switch, SwitchLocks, SwitchStops, SwitchStarts,
     SwitchReturns,
     Begins, Answers, Goes, Inv
<1>3. CASE Removes(t) \/ Answer(t)
  BY <1>3, SetTask DEF Removes, Remove, RemoveEnds, Answer, Begins, Inv
<1> QED BY <1>1, <1>2, <1>3

\* A request is answered in a step of its own.
LEMMA OwnAnswer ==
  ASSUME ConstantsOK, Inv, [Next]_vars, NEW t \in Tasks, tasks[t].pc # "answer", tasks'[t].pc = "answer"
  PROVE  Makes(t) \/ Switches(t) \/ Removes(t)
<1>1. ASSUME NEW u \in Tasks, Makes(u) \/ Switches(u) \/ Removes(u) \/ Answer(u)
      PROVE  Makes(t) \/ Switches(t) \/ Removes(t)
  <2>1. u = t
    BY <1>1, OthersRest
  <2>2. ~Answer(t)
    BY SetTask DEF Answer, Idle, Inv
  <2> QED BY <1>1, <2>1, <2>2
<1>2. ASSUME NEW n, tasks' = Crossed(n) PROVE FALSE
  BY <1>2, CrossedTasks DEF Later, Inv
<1>3. CASE StartBegins \/ StartReturns \/ BackupBegins \/ Import
  BY <1>2, <1>3 DEF StartBegins, StartReturns, BackupBegins, Import
<1>4. CASE StopBegins \/ Plays \/ ServerEnds \/ BackupEnds \/ CreateSetup \/ UNCHANGED vars
  BY <1>4 DEF StopBegins, Plays, ServerEnds, BackupEnds, CreateSetup, vars
<1>5. CASE Crash
  BY <1>5 DEF Crash, Idle
<1> QED BY <1>1, <1>3, <1>4, <1>5 DEF Next

\* Which step gives which answer.
LEMMA AnswerOfStep ==
  ASSUME ConstantsOK, Inv, [Next]_vars, NEW t \in Tasks, NEW a, Told(t, a)
  PROVE  /\ a = "created" => Register(t)
         /\ a = "undone" => Undone(t) /\ tasks[t].pc \in {"copy", "register"}
         /\ a = "both_stopped" => SwitchStarts(t) /\ server' = server
         /\ a = "removed" => RemoveEnds(t) /\ profiles' = profiles \ {tasks[t].name}
                             /\ (tasks[t].files => Put(tasks[t].name, Gone))
<1>1. tasks[t].pc # "answer" /\ tasks'[t].pc = "answer" /\ tasks'[t].answer = a
  BY DEF Told
<1>2. ASSUME NEW b, Answers(t, b) \/ Crosses(t, Answered(b)) \/ Disturbs(t, Answered(b))
      PROVE  a = b
  BY <1>1, <1>2, SetTask, GivenAnswer DEF Answers, Inv
<1>3. CASE UploadFails(t) \/ FinishUpload(t) \/ BadModpack(t) \/ PlanFails(t) \/ Make(t) \/ InstallFails(t)
  <2>1. FinishUpload(t) => Answers(t, "refused")
    BY <1>1, SetTask DEF FinishUpload, Goes, Inv, TypeOK, Task
  <2>2. Make(t) => Answers(t, "refused")
    BY <1>1, SetTask DEF Make, Goes, Inv, TypeOK, Task
  <2>3. BadModpack(t) => a = "refused"
    BY <1>1, SetTask, GivenAnswer DEF BadModpack, Begins, Inv
  <2>4. UploadFails(t) \/ PlanFails(t) => Answers(t, "refused")
    BY DEF UploadFails, PlanFails
  <2>5. InstallFails(t) => Disturbs(t, Answered("failed"))
    BY DEF InstallFails
  <2>6. a \in {"refused", "failed"}
    BY <1>2, <1>3, <2>1, <2>2, <2>3, <2>4, <2>5
  <2> QED BY <2>6
<1>4. CASE Upload(t) \/ Provision(t) \/ Modpack(t)
  <2>1. PICK x \in Task, pc \in {"upload", "plan", "pack"} : Begins(t, [x EXCEPT !.pc = pc])
    BY <1>4, NewTask DEF Upload, Provision, Modpack
  <2>2. tasks'[t].pc = pc
    BY <2>1, SetTask DEF Begins, Inv, Task
  <2> QED BY <1>1, <2>1, <2>2
<1>5. CASE Migrate(t) \/ CreateVariant(t)
  BY <1>1, <1>5, SetTask, CopyingTask DEF Migrate, CreateVariant, Begins, Inv
<1>6. CASE Unpack(t) \/ Install(t)
  BY <1>1, <1>6, SetTask DEF Unpack, Install, Goes, Inv, TypeOK, Task
<1>7. CASE CopyRoot(t)
  BY <1>1, <1>7, SetTask DEF CopyRoot, Inv, TypeOK, Task
<1>8. CASE Register(t)
  BY <1>2, <1>8 DEF Register
<1>9. CASE CopyFails(t) \/ RegisterFails(t)
  <2>1. Answers(t, "failed") => a = "failed"
    BY <1>2
  <2>2. Undone(t) => a \in {"undone", "left"}
    BY <1>2 DEF Undone
  <2>3. Undone(t) \/ Answers(t, "failed")
    BY <1>9 DEF CopyFails, RegisterFails
  <2>4. tasks[t].pc \in {"copy", "register"}
    BY <1>9 DEF CopyFails, RegisterFails
  <2> QED BY <2>1, <2>2, <2>3, <2>4
<1>10. CASE Switch(t)
  <2> DEFINE Asked(n) == [Idle EXCEPT !.pc = IF lock = NoTask THEN "stop" ELSE "queue",
                                      !.op = "switch", !.name = n, !.source = Current,
                                      !.waited = lock # NoTask]
  <2>1. PICK n \in setup \intersect profiles : Begins(t, Asked(n))
    BY <1>10 DEF Switch
  <2>2. Asked(n).pc \in {"stop", "queue"}
    BY DEF Idle
  <2> HIDE DEF Asked
  <2>3. tasks'[t].pc \in {"stop", "queue"}
    BY <2>1, <2>2, SetTask DEF Begins, Inv
  <2> QED BY <1>1, <2>3
<1>11. CASE SwitchLocks(t) \/ SwitchStops(t)
  <2>1. CASE Goes(t, "stop") \/ Goes(t, "start")
    BY <1>1, <2>1, SetTask DEF Goes, Inv, TypeOK, Task
  <2>2. CASE Answers(t, "timed_out")
    BY <1>2, <2>2
  <2> QED BY <1>11, <2>1, <2>2 DEF SwitchLocks, SwitchStops
<1>12. CASE SwitchStarts(t)
  <2>1. CASE Crosses(t, [tasks[t] EXCEPT !.pc = "started"])
    BY <1>1, <2>1, SetTask DEF Inv, TypeOK, Task
  <2>2. CASE Answers(t, "both_stopped") /\ UNCHANGED server
    BY <1>2, <1>12, <2>2
  <2> QED BY <1>12, <2>1, <2>2 DEF SwitchStarts
<1>13. CASE SwitchReturns(t)
  BY <1>2, <1>13 DEF SwitchReturns
<1>14. CASE Remove(t)
  <2> DEFINE Asked(n, too) == [Idle EXCEPT !.pc = "revoke", !.op = "remove", !.name = n,
                                             !.files = too, !.crossed = Starting(n)]
  <2>1. PICK n \in profiles \ copying, too \in BOOLEAN : Begins(t, Asked(n, too))
    BY <1>14 DEF Remove
  <2>2. Asked(n, too).pc = "revoke"
    BY DEF Idle
  <2> HIDE DEF Asked
  <2>3. tasks'[t].pc = "revoke"
    BY <2>1, <2>2, SetTask DEF Begins, Inv
  <2> QED BY <1>1, <2>3
<1>15. CASE RemoveEnds(t)
  <2>1. CASE Crosses(t, Answered("record_kept"))
    BY <1>2, <2>1
  <2>2. CASE /\ profiles' = profiles \ {tasks[t].name} /\ (tasks[t].files => Put(tasks[t].name, Gone))
             /\ Crosses(t, Answered("removed"))
    BY <1>2, <1>15, <2>2
  <2> QED BY <1>15, <2>1, <2>2 DEF RemoveEnds
<1> QED BY <1>1, <1>3, <1>4, <1>5, <1>6, <1>7, <1>8, <1>9, <1>10, <1>11, <1>12, <1>13, <1>14, <1>15,
           OwnAnswer DEF Makes, Switches, Removes

\* What a request says at its end is so.
THEOREM AnswersTrue == ASSUME ConstantsOK PROVE Spec => AnswersHold
<1>1. ASSUME Inv, [Next]_vars, NEW t \in Tasks
      PROVE  LET n == tasks[t].name IN
             /\ Told(t, "created") =>
                  /\ n \in profiles' \ profiles
                  /\ \/ tasks[t].crossed
                     \/ /\ folders[n].kind = "whole"
                        /\ tasks[t].source # NoName => folders[n].world = tasks[t].seen
             /\ Told(t, "undone") => folders'[n] = Gone /\ (n \in profiles => tasks[t].crossed)
             /\ Told(t, "both_stopped") => server'.state # "up"
             /\ Told(t, "removed") =>
                  n \notin profiles' /\ (tasks[t].files => folders'[n] = Gone)
  <2> DEFINE n == tasks[t].name
  <2>1. ASSUME Told(t, "created")
        PROVE  /\ n \in profiles' \ profiles
               /\ \/ tasks[t].crossed
                  \/ /\ folders[n].kind = "whole"
                     /\ tasks[t].source # NoName => folders[n].world = tasks[t].seen
    <3>1. Register(t)
      BY <1>1, <2>1, AnswerOfStep
    <3>2. tasks[t].pc = "register" /\ n \in profiles' \ profiles
      BY <3>1 DEF Register
    <3> QED BY <1>1, <3>2 DEF Inv, WholeInv, CopyInv, CopyOf, Copies
  <2>2. ASSUME Told(t, "undone") PROVE folders'[n] = Gone /\ (n \in profiles => tasks[t].crossed)
    <3>1. Undone(t) /\ tasks[t].pc \in {"copy", "register"}
      BY <1>1, <2>2, AnswerOfStep
    <3>2. tasks'[t].answer = IF folders'[n] = Gone THEN "undone" ELSE "left"
      BY <1>1, <3>1, SetTask, GivenAnswer DEF Undone, Inv
    <3> QED BY <1>1, <2>2, <3>1, <3>2 DEF Told, Inv, MakingInv, Making
  <2>3. ASSUME Told(t, "both_stopped") PROVE server'.state # "up"
    BY <1>1, <2>3, AnswerOfStep DEF SwitchStarts, Inv, LockInv
  <2>4. ASSUME Told(t, "removed") PROVE n \notin profiles' /\ (tasks[t].files => folders'[n] = Gone)
    <3>1. n \in Names
      BY <1>1, <2>4, AnswerOfStep DEF RemoveEnds, Inv, NamesInv
    <3> QED BY <1>1, <2>4, <3>1, AnswerOfStep DEF Put, Inv, TypeOK
  <2> QED BY <2>1, <2>2, <2>3, <2>4
<1>2. Inv /\ [Next]_vars => [\A t \in Tasks : LET n == tasks[t].name IN
        /\ Told(t, "created") =>
             /\ n \in profiles' \ profiles
             /\ \/ tasks[t].crossed
                \/ /\ folders[n].kind = "whole"
                   /\ tasks[t].source # NoName => folders[n].world = tasks[t].seen
        /\ Told(t, "undone") => folders'[n] = Gone /\ (n \in profiles => tasks[t].crossed)
        /\ Told(t, "both_stopped") => server'.state # "up"
        /\ Told(t, "removed") =>
             n \notin profiles' /\ (tasks[t].files => folders'[n] = Gone)]_vars
  BY <1>1
<1> QED BY <1>2, Invariance, PTL DEF Spec, AnswersHold

\* The folder of a profile disappears only in the removal the owner asked for.
THEOREM ProfilesKeepFolders == ASSUME ConstantsOK PROVE Spec => FoldersStay
<1>1. ASSUME Inv, [Next]_vars, NEW n \in profiles, folders[n].kind = "whole", folders'[n].kind # "whole"
      PROVE  \E t \in Tasks :
               /\ tasks[t].name = n
               /\ \/ tasks[t].crossed
                  \/ /\ tasks[t].op = "remove" /\ tasks[t].files
                     /\ n \notin copying /\ ~(Alive /\ server.in = n)
  <2> DEFINE Goal(t) == /\ tasks[t].name = n
                        /\ \/ tasks[t].crossed
                           \/ /\ tasks[t].op = "remove" /\ tasks[t].files
                              /\ n \notin copying /\ ~(Alive /\ server.in = n)
  <2>1. folders \in [Names -> Folder] /\ n \in Names
    BY <1>1 DEF Inv, TypeOK
  <2>2. ASSUME NEW t \in Tasks, Makes(t) PROVE Goal(t)
    <3>1. CASE FinishUpload(t) \/ Modpack(t) \/ Make(t)
      BY <1>1, <2>1, <3>1 DEF FinishUpload, Modpack, Make, Put, Exists
    <3>2. CASE Install(t)
      BY <1>1, <2>1, <3>2 DEF Install, Put, Folder
    <3>3. CASE CopyRoot(t)
      BY <1>1, <2>1, <3>3 DEF CopyRoot, Folder
    <3>4. CASE InstallFails(t) \/ CopyFails(t) \/ RegisterFails(t)
      <4>1. tasks[t].pc \in Making
        BY <3>4 DEF InstallFails, CopyFails, RegisterFails, Making
      <4>2. tasks[t].name = n
        BY <1>1, <2>1, <3>4 DEF InstallFails, CopyFails, RegisterFails, Undone, Cleared
      <4> QED BY <1>1, <4>1, <4>2 DEF Inv, MakingInv
    <3>5. CASE folders' = folders
      BY <1>1, <3>5
    <3> QED BY <2>2, <3>1, <3>2, <3>3, <3>4, <3>5 DEF Makes, Upload, UploadFails, Provision,
               BadModpack, Migrate, CreateVariant, PlanFails, Unpack, Register, disk
  <2>3. ASSUME NEW t \in Tasks, Removes(t) PROVE Goal(t)
    <3>1. CASE RemoveEnds(t)
      <4>1. tasks[t].pc = "revoke" /\ tasks[t].name = n /\ tasks[t].files
        BY <1>1, <2>1, <3>1 DEF RemoveEnds, Put
      <4> QED BY <1>1, <4>1 DEF Inv, RemovalInv, UsedBy, Alive
    <3>2. CASE Remove(t)
      BY <1>1, <3>2 DEF Remove, disk
    <3> QED BY <2>3, <3>1, <3>2 DEF Removes
  <2>4. ASSUME NEW t \in Tasks, Switches(t) \/ Answer(t) PROVE FALSE
    BY <1>1, <2>4 DEF Switches, Switch, SwitchLocks, SwitchStops, SwitchStarts,
       SwitchReturns, Answer, disk
  <2>5. CASE Plays
    BY <1>1, <2>1, <2>5 DEF Plays, Folder
  <2>6. CASE \/ StartBegins \/ StartReturns \/ StopBegins \/ ServerEnds \/ BackupBegins \/ BackupEnds \/ Import
             \/ CreateSetup \/ Crash \/ UNCHANGED vars
    BY <1>1, <2>6 DEF StartBegins, StartReturns, StopBegins, ServerEnds, BackupBegins, BackupEnds,
       Import,
       CreateSetup, Crash, vars, disk
  <2> QED BY <1>1, <2>2, <2>3, <2>4, <2>5, <2>6 DEF Next
<1>2. Inv /\ [Next]_vars => [\A n \in profiles : folders[n].kind = "whole" /\ folders'[n].kind # "whole" =>
        \E t \in Tasks :
          /\ tasks[t].name = n
          /\ \/ tasks[t].crossed
             \/ /\ tasks[t].op = "remove" /\ tasks[t].files
                /\ n \notin copying /\ ~(Alive /\ server.in = n)]_vars
  BY <1>1
<1> QED BY <1>2, Invariance, PTL DEF Spec, FoldersStay

\* The server a switch stops, or tells to stop, is the one whose verified backup
\* was reviewed.
THEOREM SwitchStopsTheReviewed == ASSUME ConstantsOK PROVE Spec => SwitchIsProtected
<1>1. Inv => \A t \in Tasks :
        (/\ tasks[t].pc = "stop" /\ tasks'[t].pc \in {"start", "answer"}
         /\ server.state = "up" /\ ~tasks[t].waited)
          => /\ server.in = tasks[t].source
             /\ server.in \in profiles => server.in \in backups \/ tasks[t].crossed
  BY DEF Inv, LockInv
<1> QED BY <1>1, Invariance, PTL DEF SwitchIsProtected

-----------------------------------------------------------------------------
(* The text files.  The invariant says what a job has in hand at each      *)
(* place, as long as nobody has changed its files since its last look      *)
(* (moved).                                                                *)

\* The contents that are kept, and those in a backup of n of this second.
HeldFor(n) == kept \union {b.content : b \in {c \in recent : c.name = n}}

\* What a job has in hand at each place, as long as nobody has changed the file
\* after its last look.
Holds(k) ==
  /\ k.pc \in {"snapshot", "compare"} => k.op \in {"edit", "settings"}
  /\ k.pc \in {"backup", "stage"} => k.op \in {"config", "map"}
  /\ k.pc = "compare" => k.seen \in kept
  /\ k.pc = "rename" => k.name # k.other
  /\ k.pc = "replace" /\ ~k.moved =>
       IF k.op \in {"edit", "settings"} THEN files[k.name] = k.seen /\ k.seen \in kept
       ELSE files[k.name] \in HeldFor(k.name)
  /\ k.pc = "stage" /\ ~k.moved => files[k.name] \in HeldFor(k.name)
  /\ k.pc = "unlink" /\ ~k.moved => files[k.name] = k.seen
  /\ k.pc = "rename" /\ ~k.moved => files[k.other] = F!None
  /\ k.pc \in {"place", "promote"} /\ ~k.moved => files[k.name] = F!None

\* A job in progress has its names.
Named(k) ==
  /\ k.pc \notin {"idle", "answer"} => k.name \in FileNames
                                   /\ (k.seen # F!None => k.seen \in F!Contents)
  /\ k.pc \in {"snapshot", "compare", "replace", "backup", "stage", "unpack", "aside", "place"} =>
       k.to \in F!Contents
  /\ k.pc = "rename" => k.other \in FileNames
  /\ k.pc \in {"snapshot", "compare", "backup", "unlink"} => k.seen \in F!Contents

\* The inductive invariant.
FileInv == F!TypeOK /\ \A j \in Jobs : Named(jobs[j]) /\ Holds(jobs[j])

\* A step that forgets nothing a job relies on.
Keeping ==
  /\ kept \subseteq kept'
  /\ \A n \in FileNames : files[n] \in HeldFor(n) => files[n] \in HeldFor(n)'

LEMMA StillKept == ASSUME kept \subseteq kept', recent' = recent PROVE Keeping
BY DEF Keeping, HeldFor

\* A step of job i that changes the named files only, and forgets nothing.
Step(i, names, job) ==
  /\ jobs' = [F!Touched(names) EXCEPT ![i] = job]
  /\ \A n \in FileNames \ names : files'[n] = files[n]
  /\ Keeping

\* A job whose files somebody has changed is otherwise the same.
LEMMA MovedJob ==
  ASSUME NEW k \in F!Job
  PROVE  /\ [k EXCEPT !.moved = TRUE] \in F!Job
         /\ [k EXCEPT !.moved = TRUE].moved
         /\ \A f \in {"op", "pc", "name", "other", "seen", "to", "answer"} :
              [k EXCEPT !.moved = TRUE][f] = k[f]
BY DEF F!Job

\* A step that changes files marks those that have looked at them, and only them.
LEMMA TouchesFew ==
  ASSUME NEW names, jobs \in [Jobs -> F!Job], NEW j \in Jobs
  PROVE  /\ F!Touched(names)[j] \in {jobs[j], [jobs[j] EXCEPT !.moved = TRUE]}
         /\ F!Touched(names)[j] \in F!Job
         /\ jobs[j].pc \in F!Committed /\ {jobs[j].name, jobs[j].other} \intersect names # {}
              => F!Touched(names)[j] = [jobs[j] EXCEPT !.moved = TRUE]
BY MovedJob DEF F!Touched

\* A job that a step leaves alone or marks still has in hand what it had.
LEMMA OthersKeep ==
  ASSUME NEW k \in F!Job, Named(k), Holds(k), NEW l, NEW names,
         l \in {k, [k EXCEPT !.moved = TRUE]},
         k.pc \in F!Committed /\ {k.name, k.other} \intersect names # {}
           => l = [k EXCEPT !.moved = TRUE],
         \A n \in FileNames \ names : files'[n] = files[n],
         Keeping
  PROVE  Named(l) /\ Holds(l)'
<1>1. CASE l = k /\ ~(k.pc \in F!Committed /\ {k.name, k.other} \intersect names # {})
  <2>1. k.pc \in F!Committed => k.name \notin names /\ k.other \notin names
    BY <1>1
  <2>2. k.pc \in F!Committed => k.name \in FileNames /\ files'[k.name] = files[k.name]
    BY <2>1 DEF Named, F!Committed
  <2>3. k.pc = "rename" => files'[k.other] = files[k.other]
    BY <2>1 DEF Named, F!Committed
  <2>4. /\ k.pc \in F!Committed /\ files[k.name] \in HeldFor(k.name) =>
             files'[k.name] \in HeldFor(k.name)'
        /\ kept \subseteq kept'
    BY <2>2 DEF Keeping
  <2> QED BY <1>1, <2>2, <2>3, <2>4 DEF Named, Holds, F!Committed
<1>2. CASE l = [k EXCEPT !.moved = TRUE]
  <2>1. /\ l.moved /\ l.op = k.op /\ l.pc = k.pc /\ l.name = k.name /\ l.other = k.other
        /\ l.seen = k.seen /\ l.to = k.to
    BY <1>2 DEF F!Job
  <2> QED BY <2>1 DEF Named, Holds, Keeping
<1> QED BY <1>1, <1>2

\* All jobs after a step of one of them.
LEMMA FileStepKeeps ==
  ASSUME FileInv, NEW i \in Jobs, NEW names, NEW job \in F!Job, Step(i, names, job),
         Named(job), Holds(job)'
  PROVE  jobs' \in [Jobs -> F!Job] /\ \A j \in Jobs : Named(jobs'[j]) /\ Holds(jobs[j])'
<1>0. jobs \in [Jobs -> F!Job]
  BY DEF FileInv, F!TypeOK
<1>1. \A j \in Jobs : jobs'[j] = IF j = i THEN job ELSE F!Touched(names)[j]
  BY DEF Step, F!Touched
<1>2. ASSUME NEW j \in Jobs PROVE jobs'[j] \in F!Job /\ Named(jobs'[j]) /\ Holds(jobs[j])'
  <2>1. CASE j = i
    BY <1>1, <2>1 DEF Holds
  <2>2. CASE j # i
    <3>1. PICK k, l : k = jobs[j] /\ l = jobs'[j]
      OBVIOUS
    <3>2. l = F!Touched(names)[j] /\ k \in F!Job
      BY <1>0, <1>1, <2>2, <3>1
    <3>3. Named(k) /\ Holds(k)
      BY <3>1 DEF FileInv, Holds
    <3>4. /\ l \in F!Job
          /\ l \in {k, [k EXCEPT !.moved = TRUE]}
          /\ k.pc \in F!Committed /\ {k.name, k.other} \intersect names # {}
               => l = [k EXCEPT !.moved = TRUE]
      BY <1>0, <3>1, <3>2, TouchesFew
    <3>5. Named(l) /\ Holds(l)'
      BY <3>2, <3>3, <3>4, OthersKeep DEF Step
    <3> QED BY <3>1, <3>4, <3>5 DEF Holds
  <2> QED BY <2>1, <2>2
<1>3. jobs' \in [Jobs -> F!Job]
  <2>1. jobs' = [j \in Jobs |-> jobs'[j]]
    BY DEF Step, F!Touched
  <2> QED BY <1>2, <2>1
<1> QED BY <1>2, <1>3

\* A step that touches no file of another job.
LEMMA SetSteps ==
  ASSUME FileInv, NEW i \in Jobs, NEW job, F!Set(i, job), UNCHANGED files, Keeping
  PROVE  Step(i, {}, job)
<1>1. F!Touched({}) = jobs
  <2>1. \A j \in Jobs : F!Touched({})[j] = jobs[j]
    BY DEF F!Touched
  <2> QED BY <2>1 DEF F!Touched, FileInv, F!TypeOK
<1> QED BY <1>1 DEF Step, F!Set

\* The records of a job that begins, goes on or answers.
LEMMA GoneOn ==
  ASSUME NEW k \in F!Job, NEW pc \in F!Committed \union {"compare", "aside"}, NEW l,
         l = [k EXCEPT !.pc = pc]
  PROVE  /\ l \in F!Job /\ l.op = k.op /\ l.pc = pc /\ l.name = k.name /\ l.other = k.other
         /\ l.seen = k.seen /\ l.to = k.to /\ l.moved = k.moved
BY DEF F!Job

\* What a job answers.
Replies == {"saved", "conflict", "failed", "deleted", "renamed", "uploaded", "extracted"}

\* A job that rests or answers has nothing in hand.
LEMMA RestingJob ==
  /\ F!Idle \in F!Job /\ Named(F!Idle) /\ Holds(F!Idle) /\ Holds(F!Idle)'
  /\ \A answer \in Replies :
       F!Answered(answer) \in F!Job /\ Named(F!Answered(answer)) /\ Holds(F!Answered(answer))'
<1>1. F!Idle.pc = "idle" /\ F!Idle \in F!Job
  BY DEF F!Idle, F!Job
<1>2. \A answer \in Replies : F!Answered(answer) \in F!Job /\ F!Answered(answer).pc = "answer"
  BY DEF F!Idle, F!Job, F!Answered, Replies
<1> QED BY <1>1, <1>2 DEF Named, Holds

\* What a job knows while it is at work.
LEMMA AtWork ==
  ASSUME FileInv, NEW j \in Jobs
  PROVE  jobs[j] \in F!Job /\ Named(jobs[j]) /\ Holds(jobs[j])
BY DEF FileInv, F!TypeOK

\* The types of everything but the jobs.
FileTypes ==
  /\ files \in [FileNames -> F!Contents \union {F!None}] /\ kept \subseteq F!Contents
  /\ recent \subseteq F!CopyOf /\ draft \in [FileNames -> F!Contents \union {F!None}]
  /\ staging \in [FileNames -> F!Contents \union {F!None}] /\ running \in BOOLEAN
  /\ last \in F!Contents \union {F!None}

\* The invariant after a step of one job.
LEMMA JobStep ==
  ASSUME FileInv, FileTypes', NEW i \in Jobs, NEW names, NEW job \in F!Job, Step(i, names, job),
         Named(job), Holds(job)'
  PROVE  FileInv'
<1>1. jobs' \in [Jobs -> F!Job] /\ \A j \in Jobs : Named(jobs'[j]) /\ Holds(jobs[j])'
  BY FileStepKeeps
<1>2. F!TypeOK'
  BY <1>1 DEF FileTypes, F!TypeOK
<1> QED BY <1>1, <1>2 DEF FileInv, Named

\* An editor that opens a file.
LEMMA OpensKeeps ==
  ASSUME F!ConstantsOK, FileInv, NEW j \in Jobs, NEW n \in FileNames,
         NEW op \in {"edit", "settings", "config", "map"}, NEW pc,
         pc = IF op \in {"edit", "settings"} THEN "snapshot" ELSE "backup", F!Opens(j, op, pc, n)
  PROVE  FileInv'
<1>1. PICK c \in F!Contents :
        /\ F!Fresh(c)
        /\ F!Set(j, [F!Idle EXCEPT !.op = op, !.pc = pc, !.name = n, !.seen = files[n], !.to = c])
        /\ UNCHANGED <<files, kept, recent, draft, staging, running>>
        /\ files[n] \in F!Contents
  BY DEF F!Opens, F!Begins, FileInv, F!TypeOK, F!backups
<1>2. PICK k, seen : /\ seen = files[n] /\ seen \in F!Contents
                    /\ k = [F!Idle EXCEPT !.op = op, !.pc = pc, !.name = n, !.seen = seen, !.to = c]
  BY <1>1
<1>3. /\ k \in F!Job /\ k.op = op /\ k.pc = pc /\ k.name = n /\ k.seen = seen /\ k.to = c
      /\ ~k.moved
  <2>1. /\ op \in {"edit", "settings", "config", "map", "delete", "upload", "extract"}
        /\ pc \in F!Committed \union {"snapshot", "backup", "unpack"}
        /\ seen \in F!Contents \union {F!None} /\ c \in F!Contents \union {F!None}
    BY <1>2
  <2> QED BY <1>2, <2>1 DEF F!Idle, F!Job
<1>4. Named(k) /\ Holds(k)'
  BY <1>2, <1>3 DEF Named, Holds
<1>5. Step(j, {}, k)
  BY <1>1, <1>2, SetSteps, StillKept
<1>6. FileTypes'
  BY <1>1 DEF FileTypes, FileInv, F!TypeOK, F!Fresh
<1> QED BY <1>3, <1>4, <1>5, <1>6, JobStep

\* A request that brings a new file.
LEMMA BringsKeeps ==
  ASSUME F!ConstantsOK, FileInv, NEW j \in Jobs, NEW n \in FileNames, NEW op, NEW pc,
         F!Brings(j, op, pc, n),
         \/ op = "upload" /\ pc = "place" /\ files[n] = F!None
         \/ op = "extract" /\ pc = "unpack"
  PROVE  FileInv'
<1>1. PICK c \in F!Contents :
        /\ F!Fresh(c)
        /\ F!Set(j, [F!Idle EXCEPT !.op = op, !.pc = pc, !.name = n, !.to = c])
        /\ UNCHANGED <<files, kept, recent, draft, staging, running>>
  BY DEF F!Brings, F!Begins, F!backups
<1>2. PICK k : k = [F!Idle EXCEPT !.op = op, !.pc = pc, !.name = n, !.to = c]
  OBVIOUS
<1>3. /\ k \in F!Job /\ k.op = op /\ k.pc = pc /\ k.name = n /\ k.seen = F!None /\ k.to = c
      /\ ~k.moved
  BY <1>2 DEF F!Idle, F!Job, F!Committed
<1>4. Named(k) /\ Holds(k)'
  BY <1>1, <1>2, <1>3 DEF Named, Holds
<1>6. Step(j, {}, k)
  BY <1>1, <1>2, SetSteps, StillKept
<1>7. FileTypes'
  BY <1>1 DEF FileTypes, FileInv, F!TypeOK, F!Fresh
<1> QED BY <1>3, <1>4, <1>6, <1>7, JobStep

\* A job that answers, or goes on, without a change of a file.
LEMMA AnswersKeep ==
  ASSUME FileInv, NEW j \in Jobs, NEW answer \in Replies, F!Answers(j, answer),
         UNCHANGED files, FileTypes', Keeping
  PROVE  FileInv'
BY SetSteps, RestingJob, JobStep DEF F!Answers

\* The editors.
LEMMA EditorsKeep ==
  ASSUME F!ConstantsOK, FileInv, NEW j \in Jobs,
         \/ F!Edit(j) \/ F!Settings(j) \/ F!RawSettings(j)
         \/ F!EnableLan(j) \/ F!WriteConfig(j) \/ F!LowResource(j)
  PROVE  FileInv'
BY OpensKeeps DEF F!Edit, F!Settings, F!RawSettings, F!EnableLan, F!WriteConfig,
   F!LowResource

LEMMA SnapshotKeeps == ASSUME FileInv, NEW j \in Jobs, F!Snapshot(j) PROVE FileInv'
<1>1. PICK k : k = jobs[j] /\ k \in F!Job /\ Named(k) /\ Holds(k)
  BY AtWork
<1>2. PICK l : l = [k EXCEPT !.pc = "compare"]
  OBVIOUS
<1>3. /\ l \in F!Job /\ l.op = k.op /\ l.pc = "compare" /\ l.name = k.name /\ l.seen = k.seen
      /\ l.to = k.to
  BY <1>1, <1>2, GoneOn
<1>4. Step(j, {}, l)
  BY <1>1, <1>2, SetSteps, StillKept DEF F!Snapshot, F!Goes, F!backups
<1>5. Named(l) /\ Holds(l)'
  BY <1>1, <1>3 DEF F!Snapshot, Named, Holds
<1>6. FileTypes'
  BY <1>1 DEF F!Snapshot, FileTypes, FileInv, F!TypeOK, Named, F!backups
<1> QED BY <1>3, <1>4, <1>5, <1>6, JobStep

LEMMA CompareKeeps == ASSUME FileInv, NEW j \in Jobs, F!Compare(j) PROVE FileInv'
<1>1. PICK k : k = jobs[j] /\ k \in F!Job /\ Named(k) /\ Holds(k)
  BY AtWork
<1>2. FileTypes' /\ UNCHANGED <<files, kept>> /\ Keeping
  BY StillKept DEF F!Compare, FileTypes, FileInv, F!TypeOK, F!backups
<1>3. CASE F!Answers(j, "conflict")
  BY <1>2, <1>3, AnswersKeep DEF Replies
<1>4. CASE files[k.name] = k.seen /\ F!Goes(j, "replace")
  <2>1. PICK l : l = [k EXCEPT !.pc = "replace"]
    OBVIOUS
  <2>2. /\ l \in F!Job /\ l.op = k.op /\ l.pc = "replace" /\ l.name = k.name /\ l.seen = k.seen
        /\ l.to = k.to
    BY <1>1, <2>1, GoneOn DEF F!Committed
  <2>3. Step(j, {}, l)
    BY <1>1, <1>2, <1>4, <2>1, SetSteps DEF F!Goes
  <2>4. Named(l) /\ Holds(l)'
    BY <1>1, <1>2, <1>4, <2>2 DEF F!Compare, Named, Holds
  <2> QED BY <1>2, <2>2, <2>3, <2>4, JobStep
<1> QED BY <1>1, <1>3, <1>4 DEF F!Compare

LEMMA KeepCopyKeeps == ASSUME FileInv, NEW j \in Jobs, F!KeepCopy(j) PROVE FileInv'
<1>1. PICK k : k = jobs[j] /\ k \in F!Job /\ Named(k) /\ Holds(k)
  BY AtWork
<1>2. /\ k.pc = "backup" /\ k.name \in FileNames /\ k.seen \in F!Contents
      /\ k.op \in {"config", "map"} /\ k.to \in F!Contents
      /\ UNCHANGED <<files, kept, staging, running, last>>
  BY <1>1 DEF F!KeepCopy, Named, Holds
<1>3. CASE /\ F!Answers(j, "failed") /\ draft' = F!Undrafted(j) /\ UNCHANGED recent
  <2>1. FileTypes' /\ Keeping
    BY <1>2, <1>3, StillKept DEF F!Undrafted, FileTypes, FileInv, F!TypeOK
  <2> QED BY <1>2, <1>3, <2>1, AnswersKeep DEF Replies
<1>4. CASE /\ files[k.name] # F!None
           /\ recent' = (recent \ F!Named(j)) \union {F!Backup(j, files[k.name])}
           /\ F!Copied(j) /\ UNCHANGED draft
  <2>0. PICK pc \in {"stage", "replace"} : F!Set(j, [k EXCEPT !.pc = pc])
    BY <1>1, <1>4 DEF F!Copied, F!Goes
  <2>1. PICK l : l = [k EXCEPT !.pc = pc] /\ F!Set(j, l)
    BY <2>0
  <2>2. /\ l \in F!Job /\ l.op = k.op /\ l.pc = pc /\ l.name = k.name /\ l.seen = k.seen
        /\ l.to = k.to
    BY <1>1, <2>1, GoneOn DEF F!Committed
  <2>3. PICK b : /\ b = [op |-> k.op, name |-> k.name, opened |-> k.seen, content |-> files[k.name]]
                 /\ recent' = (recent \ F!Named(j)) \union {b}
    BY <1>1, <1>4 DEF F!Backup
  <2>4. b.name = k.name /\ b.content = files[k.name] /\ b \in F!CopyOf
    BY <1>2, <1>4, <2>3 DEF F!CopyOf, FileInv, F!TypeOK
  <2>5. \A c \in recent : c.name # k.name => c \in recent'
    BY <1>1, <2>3 DEF F!Named
  <2>6. files[k.name] \in HeldFor(k.name)'
    BY <2>3, <2>4 DEF HeldFor
  <2>7. Keeping
    <3> SUFFICES ASSUME NEW n \in FileNames, files[n] \in HeldFor(n), n # k.name
                 PROVE  files[n] \in HeldFor(n)'
      BY <1>2, <2>6 DEF Keeping
    <3> QED BY <1>2, <2>5 DEF HeldFor
  <2>8. Step(j, {}, l)
    BY <1>2, <2>1, <2>7, SetSteps
  <2>9. Named(l) /\ Holds(l)'
    BY <1>1, <1>2, <2>2, <2>6 DEF Named, Holds
  <2>10. FileTypes'
    BY <1>2, <1>4, <2>3, <2>4 DEF FileTypes, FileInv, F!TypeOK
  <2> QED BY <2>2, <2>8, <2>9, <2>10, JobStep
<1> QED BY <1>1, <1>3, <1>4 DEF F!KeepCopy

LEMMA StageKeeps == ASSUME FileInv, NEW j \in Jobs, F!Stage(j) PROVE FileInv'
<1>1. PICK k : k = jobs[j] /\ k \in F!Job /\ Named(k) /\ Holds(k)
  BY AtWork
<1>2. PICK l : l = [k EXCEPT !.pc = "replace"]
  OBVIOUS
<1>3. /\ l \in F!Job /\ l.op = k.op /\ l.pc = "replace" /\ l.name = k.name /\ l.seen = k.seen
      /\ l.to = k.to /\ l.moved = k.moved
  BY <1>1, <1>2, GoneOn DEF F!Committed
<1>4. Keeping /\ UNCHANGED <<files, kept, recent>>
  BY StillKept DEF F!Stage
<1>5. Step(j, {}, l)
  BY <1>1, <1>2, <1>4, SetSteps DEF F!Stage, F!Goes
<1>6. Named(l) /\ Holds(l)'
  BY <1>1, <1>3, <1>4 DEF F!Stage, Named, Holds, HeldFor
<1>7. FileTypes'
  BY <1>1 DEF F!Stage, FileTypes, FileInv, F!TypeOK, Named
<1> QED BY <1>3, <1>5, <1>6, <1>7, JobStep

\* What replaces, removes or brings a file.
LEMMA ChangesKeep ==
  ASSUME FileInv, NEW j \in Jobs, NEW names, NEW answer \in Replies,
         F!Changes(j, names, F!Answered(answer)),
         \A n \in FileNames \ names : files'[n] = files[n], FileTypes', Keeping
  PROVE  FileInv'
<1>1. Step(j, names, F!Answered(answer))
  BY DEF F!Changes, Step
<1> QED BY <1>1, RestingJob, JobStep

LEMMA WritesKeep ==
  ASSUME FileInv, NEW j \in Jobs,
         F!Replace(j) \/ F!SwapIn(j) \/ F!Unlink(j) \/ F!Place(j) \/ F!Promote(j)
  PROVE  FileInv'
<1>1. PICK k : k = jobs[j] /\ k \in F!Job /\ Named(k) /\ Holds(k)
  BY AtWork
<1> USE DEF FileTypes, FileInv, F!TypeOK, Replies, F!backups
<1>2. CASE F!Replace(j)
  <2>1. FileTypes' /\ Keeping
    BY <1>1, <1>2, StillKept DEF F!Replace, Named
  <2>2. \A n \in FileNames \ {k.name} : files'[n] = files[n]
    BY <1>1, <1>2 DEF F!Replace
  <2> QED BY <1>1, <1>2, <2>1, <2>2, ChangesKeep DEF F!Replace
<1>3. CASE F!Unlink(j)
  <2>1. FileTypes' /\ Keeping
    BY <1>1, <1>3, StillKept DEF F!Unlink, Named
  <2>2. \A n \in FileNames \ {k.name} : files'[n] = files[n]
    BY <1>1, <1>3 DEF F!Unlink
  <2>3. CASE F!Answers(j, "failed") /\ UNCHANGED files
    BY <2>1, <2>3, AnswersKeep
  <2>4. CASE F!Changes(j, {k.name}, F!Answered("deleted"))
    BY <2>1, <2>2, <2>4, ChangesKeep
  <2> QED BY <1>1, <1>3, <2>3, <2>4 DEF F!Unlink
<1>4. CASE F!Place(j)
  <2>1. FileTypes' /\ Keeping
    BY <1>1, <1>4, StillKept DEF F!Place, Named
  <2>2. \A n \in FileNames \ {k.name} : files'[n] = files[n]
    BY <1>1, <1>4 DEF F!Place
  <2> QED BY <1>1, <1>4, <2>1, <2>2, ChangesKeep DEF F!Place
<1>5. CASE F!Promote(j)
  <2>1. FileTypes' /\ Keeping
    BY <1>1, <1>5, StillKept DEF F!Promote, Named
  <2>2. \A n \in FileNames \ {k.name} : files'[n] = files[n]
    BY <1>1, <1>5 DEF F!Promote
  <2>3. CASE F!Answers(j, "failed") /\ UNCHANGED files
    BY <2>1, <2>3, AnswersKeep
  <2>4. CASE F!Changes(j, {k.name}, F!Answered("extracted"))
    BY <2>1, <2>2, <2>4, ChangesKeep
  <2> QED BY <1>1, <1>5, <2>3, <2>4 DEF F!Promote
<1>6. CASE F!SwapIn(j)
  <2>1. FileTypes' /\ Keeping
    BY <1>1, <1>6, StillKept DEF F!SwapIn, Named
  <2>2. \A n \in FileNames \ {k.name} : files'[n] = files[n]
    BY <1>1, <1>6 DEF F!SwapIn
  <2>3. CASE F!Answers(j, "failed") /\ UNCHANGED files
    BY <2>1, <2>3, AnswersKeep
  <2>4. CASE F!Changes(j, {k.name}, F!Answered("saved"))
    BY <2>1, <2>2, <2>4, ChangesKeep
  <2> QED BY <1>1, <1>6, <2>3, <2>4 DEF F!SwapIn
<1> QED BY <1>2, <1>3, <1>4, <1>5, <1>6

LEMMA DeleteKeeps == ASSUME FileInv, NEW j \in Jobs, F!Delete(j) PROVE FileInv'
<1>1. PICK n \in FileNames, seen \in F!Contents :
        /\ seen = files[n]
        /\ F!Set(j, [F!Idle EXCEPT !.op = "delete", !.pc = "unlink", !.name = n, !.seen = files[n]])
        /\ UNCHANGED <<files, kept, recent, draft, staging, running, last>>
  BY DEF F!Delete, F!Begins, FileInv, F!TypeOK, F!backups
<1>2. PICK k : k = [F!Idle EXCEPT !.op = "delete", !.pc = "unlink", !.name = n, !.seen = seen]
  OBVIOUS
<1>3. /\ k \in F!Job /\ k.op = "delete" /\ k.pc = "unlink" /\ k.name = n /\ k.seen = seen
  BY <1>1, <1>2 DEF F!Idle, F!Job, F!Committed
<1>4. Named(k) /\ Holds(k)'
  BY <1>1, <1>3 DEF Named, Holds
<1>5. Step(j, {}, k)
  BY <1>1, <1>2, SetSteps, StillKept
<1>6. FileTypes'
  BY <1>1 DEF FileTypes, FileInv, F!TypeOK
<1> QED BY <1>3, <1>4, <1>5, <1>6, JobStep

LEMMA RenameKeeps == ASSUME FileInv, NEW j \in Jobs, F!Rename(j) PROVE FileInv'
<1>1. PICK n \in FileNames, m \in FileNames :
        /\ files[m] = F!None /\ n # m
        /\ F!Set(j, [F!Idle EXCEPT !.op = "rename", !.pc = "rename", !.name = n, !.other = m])
        /\ UNCHANGED <<files, kept, recent, draft, staging, running, last>>
  BY DEF F!Rename, F!Begins, F!backups
<1>2. PICK k : k = [F!Idle EXCEPT !.op = "rename", !.pc = "rename", !.name = n, !.other = m]
  OBVIOUS
<1>3. /\ k \in F!Job /\ k.pc = "rename" /\ k.name = n /\ k.other = m /\ k.seen = F!None
  BY <1>1, <1>2 DEF F!Idle, F!Job, F!Committed
<1>4. Named(k) /\ Holds(k)'
  BY <1>1, <1>3 DEF Named, Holds
<1>5. Step(j, {}, k)
  BY <1>1, <1>2, SetSteps, StillKept
<1>6. FileTypes'
  BY <1>1 DEF FileTypes, FileInv, F!TypeOK
<1> QED BY <1>3, <1>4, <1>5, <1>6, JobStep

LEMMA RenamesKeeps == ASSUME FileInv, NEW j \in Jobs, F!Renames(j) PROVE FileInv'
<1>1. PICK k : k = jobs[j] /\ k \in F!Job /\ Named(k) /\ Holds(k)
  BY AtWork
<1>2. k.name \in FileNames /\ k.other \in FileNames
  BY <1>1 DEF F!Renames, Named
<1>3. FileTypes' /\ Keeping
  BY <1>1, <1>2, StillKept DEF F!Renames, FileTypes, FileInv, F!TypeOK, F!backups
<1>4. CASE F!Answers(j, "failed") /\ UNCHANGED files
  BY <1>3, <1>4, AnswersKeep DEF Replies
<1>5. CASE /\ files' = [files EXCEPT ![k.other] = files[k.name], ![k.name] = F!None]
           /\ F!Changes(j, {k.name, k.other}, F!Answered("renamed"))
  <2>1. \A n \in FileNames \ {k.name, k.other} : files'[n] = files[n]
    BY <1>5 DEF FileInv, F!TypeOK
  <2> QED BY <1>3, <1>5, <2>1, ChangesKeep DEF Replies
<1> QED BY <1>1, <1>4, <1>5 DEF F!Renames

LEMMA ExtractKeeps ==
  ASSUME F!ConstantsOK, FileInv, NEW j \in Jobs, F!Upload(j) \/ F!Extract(j)
  PROVE  FileInv'
BY BringsKeeps DEF F!Upload, F!Extract

LEMMA FileUnpackKeeps == ASSUME FileInv, NEW j \in Jobs, F!Unpack(j) PROVE FileInv'
<1>1. PICK k : k = jobs[j] /\ k \in F!Job /\ Named(k) /\ Holds(k)
  BY AtWork
<1>2. FileTypes' /\ UNCHANGED <<files, kept>> /\ Keeping
  BY <1>1, StillKept DEF F!Unpack, FileTypes, FileInv, F!TypeOK, Named, F!backups
<1>3. PICK l : l = [k EXCEPT !.pc = "aside"]
  OBVIOUS
<1>4. /\ l \in F!Job /\ l.op = k.op /\ l.pc = "aside" /\ l.name = k.name /\ l.seen = k.seen
      /\ l.to = k.to
  BY <1>1, <1>3, GoneOn
<1>5. Step(j, {}, l)
  BY <1>1, <1>2, <1>3, SetSteps DEF F!Unpack, F!Goes
<1>6. Named(l) /\ Holds(l)'
  BY <1>1, <1>4 DEF F!Unpack, Named, Holds
<1> QED BY <1>2, <1>4, <1>5, <1>6, JobStep

LEMMA SetAsideKeeps == ASSUME FileInv, NEW j \in Jobs, F!SetAside(j) PROVE FileInv'
<1>1. PICK k : k = jobs[j] /\ k \in F!Job /\ Named(k) /\ Holds(k)
  BY AtWork
<1>2. k.name \in FileNames
  BY <1>1 DEF F!SetAside, Named
<1>3. FileTypes' /\ Keeping /\ files'[k.name] = F!None
      /\ \A n \in FileNames \ {k.name} : files'[n] = files[n]
  BY <1>1, <1>2, StillKept DEF F!SetAside, FileTypes, FileInv, F!TypeOK, F!backups
<1>4. PICK l : l = [k EXCEPT !.pc = "promote"]
  OBVIOUS
<1>5. /\ l \in F!Job /\ l.op = k.op /\ l.pc = "promote" /\ l.name = k.name /\ l.seen = k.seen
      /\ l.to = k.to
  BY <1>1, <1>4, GoneOn DEF F!Committed
<1>6. Named(l) /\ Holds(l)'
  BY <1>1, <1>3, <1>5 DEF F!SetAside, Named, Holds
<1>7. CASE UNCHANGED <<files, kept>> /\ F!Goes(j, "promote")
  BY <1>1, <1>3, <1>4, <1>5, <1>6, <1>7, SetSteps, JobStep DEF F!Goes
<1>8. CASE F!Changes(j, {k.name}, [k EXCEPT !.pc = "promote"])
  <2>1. Step(j, {k.name}, l)
    BY <1>3, <1>4, <1>8 DEF Step, F!Changes
  <2> QED BY <1>3, <1>5, <1>6, <2>1, JobStep
<1> QED BY <1>1, <1>7, <1>8 DEF F!SetAside

LEMMA FailsKeeps == ASSUME FileInv, NEW j \in Jobs, F!Fails(j) PROVE FileInv'
<1>1. FileTypes' /\ UNCHANGED files /\ Keeping
  BY StillKept DEF F!Fails, F!Undrafted, FileTypes, FileInv, F!TypeOK
<1> QED BY <1>1, AnswersKeep DEF F!Fails, Replies

LEMMA FileAnswerKeeps == ASSUME FileInv, NEW j \in Jobs, F!Answer(j) PROVE FileInv'
<1>1. FileTypes' /\ UNCHANGED files /\ Keeping
  BY StillKept DEF F!Answer, FileTypes, FileInv, F!TypeOK, F!backups
<1>2. Step(j, {}, F!Idle)
  BY <1>1, SetSteps DEF F!Answer
<1> QED BY <1>1, <1>2, RestingJob, JobStep

LEMMA WorldKeeps ==
  ASSUME F!ConstantsOK, FileInv, F!OthersWrite \/ F!NextSecond \/ F!StartOrStop \/ F!Crash
  PROVE  FileInv'
<1>1. CASE F!OthersWrite
  <2>1. PICK n \in FileNames, c \in F!Contents, names \in SUBSET FileNames :
          /\ names = {n} /\ F!Fresh(c)
          /\ files' = [files EXCEPT ![n] = c] /\ jobs' = F!Touched(names)
    BY <1>1 DEF F!OthersWrite
  <2>2. FileTypes' /\ Keeping
    BY <1>1, <2>1, StillKept DEF F!OthersWrite, FileTypes, FileInv, F!TypeOK, F!Fresh, F!backups
  <2>3. \A m \in FileNames \ names : files'[m] = files[m]
    BY <2>1 DEF FileInv, F!TypeOK
  <2>4. ASSUME NEW j \in Jobs PROVE jobs'[j] \in F!Job /\ Named(jobs'[j]) /\ Holds(jobs[j])'
    <3>1. PICK k, l : k = jobs[j] /\ l = jobs'[j]
      OBVIOUS
    <3>2. l = F!Touched(names)[j] /\ k \in F!Job /\ Named(k) /\ Holds(k) /\ jobs \in [Jobs -> F!Job]
      BY <2>1, <3>1, AtWork DEF FileInv, F!TypeOK
    <3>3. /\ l \in F!Job
          /\ l \in {k, [k EXCEPT !.moved = TRUE]}
          /\ k.pc \in F!Committed /\ {k.name, k.other} \intersect names # {}
               => l = [k EXCEPT !.moved = TRUE]
      BY <3>1, <3>2, TouchesFew
    <3>4. Named(l) /\ Holds(l)'
      BY <2>2, <2>3, <3>2, <3>3, OthersKeep
    <3> QED BY <3>1, <3>3, <3>4 DEF Holds
  <2>5. jobs' \in [Jobs -> F!Job]
    <3>1. jobs' = [j \in Jobs |-> jobs'[j]]
      BY <2>1 DEF F!Touched
    <3> QED BY <2>4, <3>1
  <2> QED BY <2>2, <2>4, <2>5 DEF FileInv, F!TypeOK, FileTypes, Named
<1>2. CASE F!StartOrStop
  BY <1>2 DEF F!StartOrStop, F!backups, FileInv, F!TypeOK, Named, Holds, HeldFor
<1>3. CASE F!Crash
  <2>1. \A j \in Jobs : jobs'[j] = F!Idle
    BY <1>3 DEF F!Crash
  <2>2. F!TypeOK'
    BY <1>3, RestingJob DEF F!Crash, F!backups, FileInv, F!TypeOK
  <2>3. F!Idle.pc = "idle"
    BY DEF F!Idle
  <2> QED BY <2>1, <2>2, <2>3 DEF FileInv, Named, Holds
<1>4. CASE F!NextSecond
  <2>1. /\ kept' = kept \union {b.content : b \in recent} /\ recent' = {}
        /\ UNCHANGED <<files, draft, staging, running, jobs, last>>
    BY <1>4 DEF F!NextSecond
  <2>2. F!TypeOK'
    BY <2>1 DEF FileInv, F!TypeOK, F!CopyOf
  <2>3. kept \subseteq kept' /\ \A n \in FileNames : HeldFor(n) \subseteq HeldFor(n)'
    BY <2>1 DEF HeldFor
  <2>4. ASSUME NEW j \in Jobs PROVE Named(jobs'[j]) /\ Holds(jobs[j])'
    <3>1. Named(jobs[j]) /\ Holds(jobs[j])
      BY AtWork
    <3>2. jobs[j].pc \in {"stage", "replace"} => jobs[j].name \in FileNames
      BY <3>1 DEF Named
    <3> QED BY <2>1, <2>3, <3>1, <3>2 DEF Holds
  <2> QED BY <2>2, <2>4 DEF FileInv, Named
<1> QED BY <1>1, <1>2, <1>3, <1>4

\* The invariant holds in every reachable state of the files and their jobs.
THEOREM FilesInvariance == ASSUME F!ConstantsOK PROVE F!Spec => []FileInv
<1>1. F!Init => FileInv
  <2> SUFFICES ASSUME F!Init PROVE FileInv
    OBVIOUS
  <2>1. /\ kept = {} /\ recent = {} /\ draft = [n \in FileNames |-> F!None]
        /\ staging = [n \in FileNames |-> F!None] /\ jobs = [j \in Jobs |-> F!Idle]
    BY DEF F!Init
  <2>2. F!TypeOK
    BY <2>1, RestingJob DEF F!ConstantsOK, F!Init, F!TypeOK, F!Contents, F!None
  <2>3. F!Idle.pc = "idle"
    BY DEF F!Idle
  <2> QED BY <2>2, <2>3 DEF F!Init, FileInv, Named, Holds
<1>2. FileInv /\ [F!Next]_(F!vars) => FileInv'
  <2> SUFFICES ASSUME FileInv, [F!Next]_(F!vars) PROVE FileInv'
    OBVIOUS
  <2>1. ASSUME NEW j \in Jobs, F!Works(j) PROVE FileInv'
    BY <2>1, EditorsKeep, SnapshotKeeps, CompareKeeps, KeepCopyKeeps, StageKeeps, WritesKeep,
       DeleteKeeps, RenameKeeps, RenamesKeeps, ExtractKeeps, FileUnpackKeeps,
       SetAsideKeeps, FailsKeeps, FileAnswerKeeps DEF F!Works
  <2>2. CASE UNCHANGED F!vars
    BY <2>2 DEF F!vars, F!backups, FileInv, F!TypeOK, Named, Holds, HeldFor
  <2> QED BY <2>1, <2>2, WorldKeeps DEF F!Next
<1> QED BY <1>1, <1>2, PTL DEF F!Spec

\* The variables keep their types; in particular every write has a content of its
\* own.
THEOREM FileTypesHold == ASSUME F!ConstantsOK PROVE F!Spec => []F!TypeOK
<1>1. FileInv => F!TypeOK
  BY DEF FileInv
<1> QED BY <1>1, FilesInvariance, PTL

\* The places that a job leaves.
Places == F!Committed \union {"snapshot", "compare", "backup", "unpack", "aside"}

\* Nothing that was there or kept is gone.
Same == UNCHANGED <<files, recent>> /\ kept \subseteq kept'

\* The step in which a job leaves a place is its own.
LEMMA StepOfItsOwn ==
  ASSUME FileInv, [F!Next]_(F!vars), NEW j \in Jobs, NEW pc \in Places, F!Does(j, pc)
  PROVE  \/ Same
         \/ F!Replace(j) \/ F!SwapIn(j) \/ F!KeepCopy(j) \/ F!Unlink(j) \/ F!Renames(j)
         \/ F!Place(j) \/ F!SetAside(j) \/ F!Promote(j)
<1>1. jobs[j].pc = pc /\ jobs'[j].pc # pc /\ jobs \in [Jobs -> F!Job]
  BY DEF F!Does, FileInv, F!TypeOK
<1> USE DEF Same, F!backups
<1>2. CASE UNCHANGED F!vars
  BY <1>2 DEF F!vars
<1>3. ASSUME NEW names PROVE F!Touched(names)[j].pc = pc
  BY <1>1, MovedJob DEF F!Touched
<1>4. CASE F!OthersWrite \/ F!NextSecond
  BY <1>1, <1>3, <1>4 DEF F!OthersWrite, F!NextSecond
<1>5. ASSUME NEW i \in Jobs, F!Works(i), i # j PROVE FALSE
  <2>1. ASSUME NEW job, F!Set(i, job) PROVE FALSE
    BY <1>1, <1>5, <2>1 DEF F!Set
  <2>2. ASSUME NEW names, NEW job, F!Changes(i, names, job) PROVE FALSE
    BY <1>1, <1>3, <1>5, <2>2 DEF F!Changes
  <2>3. ASSUME NEW answer, F!Answers(i, answer) PROVE FALSE
    BY <2>1, <2>3 DEF F!Answers
  <2>4. ASSUME NEW p, F!Goes(i, p) PROVE FALSE
    BY <2>1, <2>4 DEF F!Goes
  <2>5. ASSUME NEW job, F!Begins(i, job) PROVE FALSE
    BY <2>1, <2>5 DEF F!Begins
  <2>6. CASE \/ F!Edit(i) \/ F!Settings(i) \/ F!RawSettings(i) \/ F!EnableLan(i)
             \/ F!WriteConfig(i) \/ F!LowResource(i)
             \/ F!Delete(i) \/ F!Rename(i) \/ F!Upload(i) \/ F!Extract(i)
    BY <2>5, <2>6 DEF F!Edit, F!Settings, F!RawSettings, F!EnableLan, F!WriteConfig,
       F!LowResource, F!Opens, F!Delete, F!Rename, F!Upload, F!Extract, F!Brings
  <2>7. CASE \/ F!Snapshot(i) \/ F!Compare(i) \/ F!KeepCopy(i) \/ F!Stage(i)
             \/ F!Unpack(i) \/ F!Fails(i) \/ F!Answer(i)
    BY <2>1, <2>3, <2>4, <2>7 DEF F!Snapshot, F!Compare, F!KeepCopy, F!Copied, F!Stage,
       F!Unpack, F!Fails, F!Answer
  <2>8. CASE \/ F!Replace(i) \/ F!SwapIn(i) \/ F!Unlink(i) \/ F!Renames(i)
             \/ F!Place(i) \/ F!SetAside(i) \/ F!Promote(i)
    BY <2>2, <2>3, <2>4, <2>8 DEF F!Replace, F!SwapIn, F!Unlink, F!Renames, F!Place, F!SetAside,
       F!Promote
  <2> QED BY <1>5, <2>6, <2>7, <2>8 DEF F!Works
<1>6. CASE F!Works(j)
  BY <1>6 DEF F!Works, F!Edit, F!Settings, F!RawSettings, F!EnableLan, F!WriteConfig,
     F!LowResource, F!Opens, F!Delete, F!Rename, F!Upload, F!Extract, F!Brings,
     F!Snapshot, F!Compare, F!Stage, F!Unpack, F!Fails, F!Answer
<1>7. CASE F!StartOrStop \/ F!Crash
  BY <1>7 DEF F!StartOrStop, F!Crash
<1> QED BY <1>2, <1>4, <1>5, <1>6, <1>7 DEF F!Next

\* A step that changes at most one file, whose content was kept or may be destroyed.
LEMMA OneFile ==
  ASSUME FileInv, NEW j \in Jobs, kept \subseteq kept', recent' = recent,
         NEW m \in FileNames, \A n \in FileNames \ {m} : files'[n] = files[n],
         \/ files[m] = F!None \/ files[m] \in kept' \union {b.content : b \in recent}
         \/ files[m] \in F!Destroys(j)
  PROVE  F!Found \ F!Destroys(j) \subseteq F!Found'
BY DEF F!Found

\* The job of a step, at work on a file.
LEMMA ThisJob ==
  ASSUME FileInv, NEW j \in Jobs, jobs[j].pc \in F!Committed \union {"aside", "backup"}
  PROVE  /\ jobs[j].name \in FileNames /\ Named(jobs[j]) /\ Holds(jobs[j])
         /\ files \in [FileNames -> F!Contents \union {F!None}]
         /\ jobs[j].pc # "backup" /\ jobs[j].moved => files[jobs[j].name] \in F!Destroys(j)
BY AtWork DEF FileInv, F!TypeOK, Named, F!Committed, F!Destroys

\* No step of a job loses a content, whoever had put it into the file, beyond the
\* two exceptions (Destroys): what a job takes away without having looked at it
\* again, and the backup that has the name of the one it makes.
THEOREM FilesAreKept == ASSUME F!ConstantsOK PROVE F!Spec => NothingIsLost
<1>1. ASSUME FileInv, [F!Next]_(F!vars), NEW j \in Jobs, NEW pc \in Places, F!Does(j, pc)
      PROVE  F!Found \ F!Destroys(j) \subseteq F!Found'
  <2>1. CASE Same
    BY <2>1 DEF Same, F!Found
  <2> DEFINE k == jobs[j]
  <2>2. CASE F!Replace(j)
    <3>1. /\ k.name \in FileNames /\ UNCHANGED <<kept, recent>>
          /\ \A n \in FileNames \ {k.name} : files'[n] = files[n]
      BY <1>1, <2>2, ThisJob DEF F!Replace, F!backups, F!Committed
    <3>2. \/ files[k.name] \in kept' \union {b.content : b \in recent}
          \/ files[k.name] \in F!Destroys(j)
      BY <1>1, <2>2, <3>1, ThisJob DEF F!Replace, Holds, HeldFor, F!Committed
    <3> QED BY <1>1, <3>1, <3>2, OneFile
  <2>3. CASE F!SwapIn(j)
    <3>1. /\ k.name \in FileNames /\ UNCHANGED <<kept, recent>>
          /\ \A n \in FileNames \ {k.name} : files'[n] = files[n]
      BY <1>1, <2>3, ThisJob DEF F!SwapIn, F!Committed
    <3>2. \/ files[k.name] \in kept' \union {b.content : b \in recent}
          \/ files[k.name] \in F!Destroys(j)
      BY <1>1, <2>3, <3>1, ThisJob DEF F!SwapIn, Holds, HeldFor, F!Committed
    <3> QED BY <1>1, <3>1, <3>2, OneFile
  <2>4. CASE F!KeepCopy(j)
    <3>1. /\ UNCHANGED <<files, kept>> /\ recent \ F!Named(j) \subseteq recent'
          /\ k.pc = "backup"
      BY <2>4 DEF F!KeepCopy
    <3>2. F!Destroys(j) = {b.content : b \in F!Named(j)}
      BY <3>1 DEF F!Destroys
    <3> QED BY <3>1, <3>2 DEF F!Found
  <2>5. CASE F!Unlink(j)
    <3>1. /\ k.name \in FileNames /\ UNCHANGED recent /\ kept \subseteq kept'
          /\ \A n \in FileNames \ {k.name} : files'[n] = files[n]
      BY <1>1, <2>5, ThisJob DEF F!Unlink, F!backups, F!Committed
    <3>2. files[k.name] \in kept' \/ files[k.name] \in F!Destroys(j)
      BY <1>1, <2>5, ThisJob DEF F!Unlink, Holds, F!Committed
    <3> QED BY <1>1, <3>1, <3>2, OneFile
  <2>6. CASE F!Renames(j)
    <3>1. CASE UNCHANGED files
      BY <2>6, <3>1 DEF F!Renames, F!backups, F!Found
    <3>2. CASE files' = [files EXCEPT ![k.other] = files[k.name], ![k.name] = F!None]
      <4>1. /\ k.other \in FileNames /\ k.name \in FileNames /\ k.name # k.other
            /\ UNCHANGED <<kept, recent>> /\ k.pc = "rename"
        BY <1>1, <2>6, ThisJob DEF F!Renames, F!backups, Holds, Named, F!Committed
      <4>2. files'[k.other] = files[k.name]
        BY <1>1, <3>2, <4>1 DEF FileInv, F!TypeOK
      <4>3. \A n \in FileNames \ {k.name, k.other} : files'[n] = files[n]
        BY <1>1, <3>2 DEF FileInv, F!TypeOK
      <4>4. files[k.other] = F!None \/ files[k.other] \in F!Destroys(j)
        BY <1>1, <4>1, ThisJob DEF Holds, F!Destroys, F!Committed
      <4> QED BY <4>1, <4>2, <4>3, <4>4 DEF F!Found
    <3> QED BY <2>6, <3>1, <3>2 DEF F!Renames
  <2>7. CASE F!Place(j) \/ F!Promote(j)
    <3>1. /\ k.name \in FileNames /\ UNCHANGED <<kept, recent>>
          /\ \A n \in FileNames \ {k.name} : files'[n] = files[n]
      BY <1>1, <2>7, ThisJob DEF F!Place, F!Promote, F!backups, F!Committed
    <3>2. files[k.name] = F!None \/ files[k.name] \in F!Destroys(j)
      BY <1>1, <2>7, ThisJob DEF F!Place, F!Promote, Holds, F!Committed
    <3> QED BY <1>1, <3>1, <3>2, OneFile
  <2>8. CASE F!SetAside(j)
    <3>1. /\ k.name \in FileNames /\ UNCHANGED recent /\ kept \subseteq kept'
          /\ \A n \in FileNames \ {k.name} : files'[n] = files[n]
          /\ files[k.name] = F!None \/ files[k.name] \in kept'
      BY <1>1, <2>8, ThisJob DEF F!SetAside, F!backups, F!Committed
    <3> QED BY <1>1, <3>1, OneFile
  <2> QED BY <1>1, <2>1, <2>2, <2>3, <2>4, <2>5, <2>6, <2>7, <2>8, StepOfItsOwn
<1>2. FileInv /\ [F!Next]_(F!vars) =>
        [\A j \in Jobs,
            pc \in F!Committed \union {"snapshot", "compare", "backup", "unpack", "aside"} :
           F!Does(j, pc) => F!Found \ F!Destroys(j) \subseteq F!Found']_(F!vars)
  BY <1>1 DEF Places
<1> QED BY <1>2, FilesInvariance, PTL DEF F!Spec, NothingIsLost, F!NothingIsLost

\* A saved edit replaced the content its owner had opened, unless another changed
\* the file between the comparison and the replacement.
THEOREM EditsAreReviewed == ASSUME F!ConstantsOK PROVE F!Spec => SavesWhatWasReviewed
<1>1. ASSUME FileInv, [F!Next]_(F!vars), NEW j \in Jobs, F!Does(j, "replace"),
             jobs[j].op \in {"edit", "settings"}, ~jobs[j].moved
      PROVE  files[jobs[j].name] = jobs[j].seen
  BY <1>1, AtWork DEF F!Does, Holds
<1>2. FileInv /\ [F!Next]_(F!vars) =>
        [\A j \in Jobs :
           F!Does(j, "replace") /\ jobs[j].op \in {"edit", "settings"} /\ ~jobs[j].moved =>
             files[jobs[j].name] = jobs[j].seen]_(F!vars)
  BY <1>1
<1> QED BY <1>2, FilesInvariance, PTL DEF F!Spec, SavesWhatWasReviewed,
   F!SavesWhatWasReviewed

-----------------------------------------------------------------------------
(* The jars.  The invariant says where a jar of the owner's is: not in the *)
(* recovery copy of an update in progress, which may be discarded, but in  *)
(* a folder, in a staging folder or in another copy; and that the copy of  *)
(* an update in progress has the jar that its staging folder is to lose.   *)

\* An update that may still discard its recovery copy.
Pending(k) == k.op = "update" /\ k.pc \in {"download", "aside", "promote", "withdraw"}

\* What a request has in hand.
Formed(k) ==
  /\ k.op = "update" => k.sha \in Versions /\ \E e \in JarNames : k.retire = {e}
  /\ k.op \notin {"update", "undo"} => k.retire = {} /\ k.bundle = NoBundle
  /\ k.pc \in {"resolve", "prepare"} => k.op = "update" /\ k.bundle = NoBundle
  /\ k.pc \in {"download", "aside", "promote", "withdraw"} => k.op # "undo"
  /\ Pending(k) => k.bundle \in Bundles
  /\ k.aside # L!Empty => Pending(k) /\ k.pc \in {"promote", "withdraw"}

\* The recovery copy has the jar that is to be retired, or has been.
Backed(k, copies, given) ==
  Pending(k) =>
    /\ copies[k.bundle] # NoBundle
    /\ k.pc \in {"download", "aside"} =>
         \A n \in k.retire : \/ <<n, k.sha>> \in given
                             \/ copies[k.bundle].old = n /\ copies[k.bundle].kept = k.sha
    /\ k.pc = "promote" =>
         \A n \in JarNames, v \in Versions : k.aside[n] = v =>
           \/ <<n, v>> \in given
           \/ copies[k.bundle].old = n /\ copies[k.bundle].kept = v

\* No two updates share a recovery copy.
Alone ==
  \A t, u \in Tasks :
    /\ changing[t].op = "update" /\ changing[u].op = "update"
    /\ changing[t].bundle = changing[u].bundle /\ changing[t].bundle \in Bundles
    => t = u

\* A recovery copy has this jar, and no update in progress may discard it.
HasJar(b, n, v) ==
  /\ bundles[b] # NoBundle
  /\ (bundles[b].old = n /\ bundles[b].kept = v) \/ bundles[b].displaced[n] = v
Settled(b) == \A u \in Tasks : Pending(changing[u]) => changing[u].bundle # b

\* Where a jar is, if nothing has put it at risk.
Fine(n, v) ==
  \/ <<n, v>> \in risked \union abandoned
  \/ live[n] = v \/ disabled[n] = v
  \/ \E u \in Tasks : changing[u].aside[n] = v
  \/ \E b \in Bundles : Settled(b) /\ HasJar(b, n, v)

SafeInv == \A n \in JarNames, v \in Versions : <<n, v>> \in owned => Fine(n, v)

JarTypes ==
  /\ live \in L!Folder /\ disabled \in L!Folder /\ review \in L!Folder
  /\ turn \in Tasks \union {NoTask}
  /\ bundles \in [Bundles -> L!Bundle \union {NoBundle}]
  /\ batches \subseteq L!Folder
  /\ process \in {"stopped", "starting", "running"}
  /\ abandoned \subseteq JarNames \X Versions /\ owned \subseteq JarNames \X Versions
  /\ risked \subseteq JarNames \X Versions /\ asked \in 0 .. JarRequests

\* The inductive invariant, the history of touched files apart.
JarInv ==
  /\ JarTypes /\ changing \in [Tasks -> L!Task]
  /\ \A t \in Tasks : Formed(changing[t]) /\ Backed(changing[t], bundles, risked)
  /\ Alone /\ SafeInv

-----------------------------------------------------------------------------
(* Folders of jars.                                                        *)

LEMMA JarFolders ==
  ASSUME NEW f \in L!Folder, NEW g \in L!Folder, NEW S
  PROVE  L!Without(f, S) \in L!Folder /\ L!Only(f, S) \in L!Folder /\ L!With(f, g) \in L!Folder
BY DEF L!Folder, L!Without, L!Only, L!With

LEMMA UniformFolder ==
  /\ L!Empty \in L!Folder
  /\ \A S : \A v \in Versions \union {NoJar} : L!Of(S, v) \in L!Folder
BY DEF L!Folder, L!Empty, L!Of

LEMMA JarIn ==
  ASSUME NEW f, NEW n, NEW v
  PROVE  <<n, v>> \in L!Jars(f) <=> n \in JarNames /\ f[n] # NoJar /\ v = f[n]
BY DEF L!Jars, L!Has

LEMMA JarsTyped ==
  ASSUME NEW f \in L!Folder
  PROVE  L!Jars(f) \subseteq JarNames \X Versions
BY DEF L!Jars, L!Has, L!Folder

LEMMA TaskIn == ASSUME JarInv, NEW t \in Tasks
                PROVE  changing[t] \in L!Task /\ Formed(changing[t])
                       /\ Backed(changing[t], bundles, risked)
BY DEF JarInv

LEMMA IdleForm ==
  ASSUME L!ConstantsOK
  PROVE  /\ L!Idle \in L!Task /\ Formed(L!Idle) /\ ~Pending(L!Idle)
         /\ L!Idle.pc = "idle" /\ L!Idle.op = "none" /\ L!Idle.aside = L!Empty
         /\ L!Idle.bundle = NoBundle
<1>1. L!Idle \in L!Task
  BY UniformFolder DEF L!Idle, L!Task, L!ConstantsOK
<1> QED BY <1>1 DEF Formed, Pending, L!Idle

-----------------------------------------------------------------------------
(* What a step of one request has to keep.                                 *)

\* The request goes on without a new claim on a recovery copy.
Onward(r, k) ==
  /\ k.op = "update" /\ k.bundle \in Bundles => r.op = "update" /\ k.bundle = r.bundle
  /\ Pending(k) => Pending(r) /\ k.bundle = r.bundle

LEMMA MoveKeeps ==
  ASSUME L!ConstantsOK, JarInv, NEW t \in Tasks, NEW k \in L!Task, L!Set(t, k), JarTypes',
         Formed(k), Backed(k, bundles', risked'),
         \/ Onward(changing[t], k)
         \/ k.bundle \in Bundles /\ bundles[k.bundle] = NoBundle
            /\ \A u \in Tasks : changing[u].bundle # k.bundle,
         risked \subseteq risked', abandoned \subseteq abandoned',
         \A u \in Tasks \ {t} : Pending(changing[u]) =>
           LET c == bundles[changing[u].bundle]
               d == bundles'[changing[u].bundle]
           IN d = c \/ (d # NoBundle /\ d.old = c.old
                        /\ (d.kept = c.kept \/ c.kept = NoJar \/ <<c.old, c.kept>> \in risked')),
         \A n \in JarNames, v \in Versions : <<n, v>> \in owned' =>
           /\ <<n, v>> \notin owned => Fine(n, v)'
           /\ live[n] = v \/ disabled[n] = v => Fine(n, v)'
           /\ changing[t].aside[n] = v => Fine(n, v)'
           /\ \A b \in Bundles : Settled(b) /\ HasJar(b, n, v) /\ bundles'[b] # bundles[b] => Fine(n, v)'
  PROVE  JarInv'
<1>1. /\ changing' \in [Tasks -> L!Task] /\ changing'[t] = k
      /\ \A u \in Tasks \ {t} : changing'[u] = changing[u]
  BY DEF JarInv, L!Set
<1>2. ASSUME NEW u \in Tasks PROVE Formed(changing'[u]) /\ Backed(changing'[u], bundles', risked')
  <2>1. CASE u = t
    BY <1>1, <2>1
  <2>2. CASE u # t
    <3>1. changing'[u] = changing[u] /\ Formed(changing[u]) /\ Backed(changing[u], bundles, risked)
      BY <1>1, <2>2 DEF JarInv
    <3>2. CASE Pending(changing[u])
      <4> DEFINE c == bundles[changing[u].bundle]
                 d == bundles'[changing[u].bundle]
      <4>1. d = c \/ (d # NoBundle /\ d.old = c.old
                      /\ (d.kept = c.kept \/ c.kept = NoJar \/ <<c.old, c.kept>> \in risked'))
        BY <2>2, <3>2
      <4>2. c # NoBundle /\ d # NoBundle
        BY <3>1, <3>2, <4>1 DEF Backed
      <4>3. ASSUME NEW n, NEW v \in Versions, <<n, v>> \in risked \/ (c.old = n /\ c.kept = v)
            PROVE  <<n, v>> \in risked' \/ (d.old = n /\ d.kept = v)
        BY <4>1, <4>3 DEF L!ConstantsOK
      <4>4. changing[u].sha \in Versions
        BY <3>1, <3>2 DEF Formed, Pending
      <4> HIDE DEF c, d
      <4>5. changing[u].pc \in {"download", "aside"} =>
              \A n \in changing[u].retire :
                <<n, changing[u].sha>> \in risked' \/ (d.old = n /\ d.kept = changing[u].sha)
        BY <3>1, <3>2, <4>3, <4>4 DEF Backed, c
      <4>6. changing[u].pc = "promote" =>
              \A n \in JarNames, v \in Versions : changing[u].aside[n] = v =>
                <<n, v>> \in risked' \/ (d.old = n /\ d.kept = v)
        BY <3>1, <3>2, <4>3 DEF Backed, c
      <4> QED BY <3>1, <4>2, <4>5, <4>6 DEF Backed, d
    <3>3. CASE ~Pending(changing[u])
      BY <3>1, <3>3 DEF Backed
    <3> QED BY <3>2, <3>3
  <2> QED BY <2>1, <2>2
<1>3. Alone'
  <2> SUFFICES ASSUME NEW u \in Tasks, NEW w \in Tasks, changing'[u].op = "update",
                      changing'[w].op = "update", changing'[u].bundle = changing'[w].bundle,
                      changing'[u].bundle \in Bundles, u # w
               PROVE  FALSE
    BY DEF Alone
  <2> QED BY <1>1 DEF JarInv, Alone, Onward
<1>4. SafeInv'
  <2> SUFFICES ASSUME NEW n \in JarNames, NEW v \in Versions, <<n, v>> \in owned', ~Fine(n, v)'
               PROVE  FALSE
    BY DEF SafeInv
  <2>1. Fine(n, v)
    BY DEF JarInv, SafeInv
  <2>2. <<n, v>> \notin risked \union abandoned
    BY DEF Fine
  <2>3. ASSUME NEW u \in Tasks, changing[u].aside[n] = v PROVE FALSE
    BY <1>1, <2>3 DEF Fine
  <2>4. ASSUME NEW b \in Bundles, Settled(b), HasJar(b, n, v) PROVE FALSE
    <3>1. bundles'[b] = bundles[b]
      BY <2>4
    <3>2. HasJar(b, n, v)'
      BY <2>4, <3>1 DEF HasJar
    <3>3. Settled(b)'
      <4> SUFFICES ASSUME NEW u \in Tasks, Pending(changing'[u]), changing'[u].bundle = b
                   PROVE  FALSE
        BY DEF Settled, Pending
      <4>1. u = t /\ Pending(k) /\ k.bundle = b
        BY <1>1, <2>4 DEF Settled
      <4> QED BY <2>4, <4>1 DEF Onward, Settled, HasJar
    <3> QED BY <3>2, <3>3 DEF Fine
  <2> QED BY <2>1, <2>2, <2>3, <2>4 DEF Fine
<1> QED BY <1>1, <1>2, <1>3, <1>4 DEF JarInv

\* A step that moves no jar.
LEMMA QuietKeeps ==
  ASSUME L!ConstantsOK, JarInv, NEW t \in Tasks, NEW k \in L!Task, L!Set(t, k), JarTypes',
         Formed(k), Onward(changing[t], k),
         UNCHANGED <<live, disabled, bundles, abandoned, owned, risked>>,
         k.pc \in {"download", "aside"} /\ k.op = "update" =>
           /\ changing[t].pc \in {"download", "aside"}
           /\ k.retire = changing[t].retire /\ k.sha = changing[t].sha,
         k.pc = "promote" => changing[t].pc = "promote",
         k.aside = changing[t].aside
  PROVE  JarInv'
<1>1. changing[t] \in L!Task /\ Backed(changing[t], bundles, risked)
  BY TaskIn
<1>2. Backed(k, bundles', risked')
  BY <1>1 DEF Backed, Onward, Pending
<1>3. changing' = [changing EXCEPT ![t] = k] /\ changing'[t] = k
  BY DEF L!Set, JarInv
<1>4. ASSUME NEW n \in JarNames, NEW v \in Versions, live[n] = v \/ disabled[n] = v
      PROVE Fine(n, v)'
  BY <1>4 DEF Fine
<1>5. ASSUME NEW n \in JarNames, NEW v \in Versions, changing[t].aside[n] = v
      PROVE Fine(n, v)'
  BY <1>3, <1>5 DEF Fine
<1> QED BY <1>2, <1>4, <1>5, MoveKeeps

\* A step of no request.
LEMMA JarsRest ==
  ASSUME JarInv, JarTypes', UNCHANGED <<changing, bundles, abandoned, risked>>,
         \A n \in JarNames, v \in Versions : <<n, v>> \in owned' =>
           /\ <<n, v>> \in owned
           /\ live[n] = v \/ disabled[n] = v => live'[n] = v \/ disabled'[n] = v
  PROVE  JarInv'
<1>1. Alone'
  BY DEF JarInv, Alone
<1>2. SafeInv'
  <2> SUFFICES ASSUME NEW n \in JarNames, NEW v \in Versions, <<n, v>> \in owned'
               PROVE  Fine(n, v)'
    BY DEF SafeInv
  <2>1. Fine(n, v)
    BY DEF JarInv, SafeInv
  <2>2. ASSUME NEW b \in Bundles, Settled(b), HasJar(b, n, v) PROVE Settled(b)' /\ HasJar(b, n, v)'
    BY <2>2 DEF Settled, HasJar
  <2> QED BY <2>1, <2>2 DEF Fine
<1> QED BY <1>1, <1>2 DEF JarInv

-----------------------------------------------------------------------------
(* OneStep that move no jar.                                                 *)

LEMMA JarTypesNow == ASSUME JarInv PROVE JarTypes
BY DEF JarInv

LEMMA NothingAside ==
  ASSUME JarInv, NEW t \in Tasks, changing[t].pc \notin {"promote", "withdraw"}
  PROVE  changing[t].aside = L!Empty
BY TaskIn DEF Formed

\* A request begins.
LEMMA JarBegins ==
  ASSUME L!ConstantsOK, JarInv, NEW t \in Tasks, NEW k \in L!Task, L!Starts(t, k), JarTypes',
         Formed(k), ~Pending(k), k.op = "update" => k.bundle = NoBundle, k.aside = L!Empty,
         k.pc # "promote"
  PROVE  JarInv'
<1>1. /\ changing[t] = L!Idle /\ L!Set(t, k)
      /\ UNCHANGED <<live, disabled, bundles, abandoned, owned, risked>>
  BY DEF L!Starts, L!folders, L!records, L!history
<1>2. Onward(changing[t], k) /\ k.aside = changing[t].aside
  BY <1>1, IdleForm DEF Onward, L!ConstantsOK
<1>3. ~(k.pc \in {"download", "aside"} /\ k.op = "update")
  BY DEF Pending
<1> QED BY <1>1, <1>2, <1>3, QuietKeeps

LEMMA StartTypes ==
  ASSUME L!ConstantsOK, JarInv, NEW t \in Tasks, NEW k, L!Starts(t, k), turn' \in Tasks \union {NoTask}
  PROVE  JarTypes'
BY JarTypesNow DEF L!Starts, L!Request, L!folders, L!records, L!history, JarTypes, L!ConstantsOK

\* A request goes on, away from the recovery copy of an update.
LEMMA GoesOn ==
  ASSUME L!ConstantsOK, JarInv, NEW t \in Tasks, NEW k \in L!Task, L!Set(t, k), JarTypes',
         changing[t].pc \notin {"promote", "withdraw"}, k.aside \in {changing[t].aside, L!Empty},
         k.op = changing[t].op, k.bundle = changing[t].bundle,
         k.pc \notin {"resolve", "prepare", "download", "aside", "promote", "withdraw"},
         k.retire = changing[t].retire /\ k.sha = changing[t].sha,
         UNCHANGED <<live, disabled, bundles, abandoned, owned, risked>>
  PROVE  JarInv'
<1>1. changing[t].aside = L!Empty /\ Formed(changing[t])
  BY NothingAside, TaskIn
<1>2. Formed(k) /\ Onward(changing[t], k) /\ k.aside = changing[t].aside
  BY <1>1 DEF Formed, Onward, Pending
<1> QED BY <1>2, QuietKeeps

\* A request ends.
LEMMA Ends ==
  ASSUME L!ConstantsOK, JarInv, NEW t \in Tasks, L!Set(t, L!Idle), JarTypes',
         changing[t].pc \notin {"promote", "withdraw"},
         UNCHANGED <<live, disabled, bundles, abandoned, owned, risked>>
  PROVE  JarInv'
<1>1. Onward(changing[t], L!Idle) /\ L!Idle.aside = changing[t].aside
  BY IdleForm, NothingAside DEF Onward
<1> QED BY <1>1, IdleForm, QuietKeeps

LEMMA ToggleBegins == ASSUME L!ConstantsOK, JarInv, NEW t \in Tasks, L!Toggle(t) PROVE JarInv'
<1>1. PICK op \in {"disable", "enable"}, todo \in SUBSET JarNames :
        L!Starts(t, [L!Idle EXCEPT !.pc = "look", !.op = op, !.todo = todo])
  BY DEF L!Toggle, L!Has
<1> DEFINE k == [L!Idle EXCEPT !.pc = "look", !.op = op, !.todo = todo]
<1>2. k \in L!Task
  BY IdleForm DEF L!Task, L!InThread
<1>3. Formed(k) /\ ~Pending(k) /\ k.op # "update" /\ k.aside = L!Empty /\ k.pc # "promote"
  BY DEF Formed, Pending, L!Idle
<1>4. JarTypes'
  BY <1>1, StartTypes, JarTypesNow DEF L!Toggle, JarTypes
<1>5. L!Starts(t, k)
  BY <1>1
<1> HIDE DEF k
<1> QED BY <1>2, <1>3, <1>4, <1>5, JarBegins

LEMMA LookKeeps == ASSUME L!ConstantsOK, JarInv, NEW t \in Tasks, L!Look(t) PROVE JarInv'
<1>1. changing[t] \in L!Task /\ changing[t].pc = "look"
      /\ UNCHANGED <<live, disabled, bundles, abandoned, owned, risked>> /\ JarTypes'
  BY TaskIn, JarTypesNow DEF L!Look, L!folders, L!records, L!history, JarTypes
<1>2. PICK n \in changing[t].todo :
        \/ L!Set(t, L!Past(t, n))
        \/ L!Set(t, [changing[t] EXCEPT !.pc = "rename", !.moved = {n}])
  BY DEF L!Look
<1>3. n \in JarNames
  BY <1>1 DEF L!Task
<1>4. CASE L!Set(t, L!Idle)
  BY <1>1, <1>4, Ends
<1>5. CASE L!Set(t, [changing[t] EXCEPT !.pc = "look", !.todo = @ \ {n}, !.moved = {}])
  <2> DEFINE k == [changing[t] EXCEPT !.pc = "look", !.todo = @ \ {n}, !.moved = {}]
  <2>1. k \in L!Task
    BY <1>1 DEF L!Task
  <2>2. /\ k.pc = "look" /\ k.aside = changing[t].aside /\ k.op = changing[t].op
        /\ k.bundle = changing[t].bundle /\ k.retire = changing[t].retire
        /\ k.sha = changing[t].sha
    BY <1>1 DEF L!Task
  <2>3. L!Set(t, k)
    BY <1>5
  <2> HIDE DEF k
  <2> QED BY <1>1, <2>1, <2>2, <2>3, GoesOn
<1>6. CASE L!Set(t, [changing[t] EXCEPT !.pc = "rename", !.moved = {n}])
  <2> DEFINE k == [changing[t] EXCEPT !.pc = "rename", !.moved = {n}]
  <2>1. k \in L!Task
    BY <1>1, <1>3 DEF L!Task
  <2>2. /\ k.pc = "rename" /\ k.aside = changing[t].aside /\ k.op = changing[t].op
        /\ k.bundle = changing[t].bundle /\ k.retire = changing[t].retire
        /\ k.sha = changing[t].sha
    BY <1>1 DEF L!Task
  <2>3. L!Set(t, k)
    BY <1>6
  <2> HIDE DEF k
  <2> QED BY <1>1, <2>1, <2>2, <2>3, GoesOn
<1> QED BY <1>2, <1>4, <1>5, <1>6 DEF L!Past

LEMMA EndingsKeep ==
  ASSUME L!ConstantsOK, JarInv, NEW t \in Tasks,
         L!RenameFails(t) \/ L!NothingStaged(t) \/ L!Answer(t)
  PROVE  JarInv'
<1>1. /\ L!Set(t, L!Idle) /\ changing[t].pc \notin {"promote", "withdraw"}
      /\ UNCHANGED <<live, disabled, bundles, abandoned, owned, risked>> /\ JarTypes'
  BY JarTypesNow DEF L!RenameFails, L!NothingStaged, L!Answer, L!folders, L!records, L!history,
     JarTypes
<1> QED BY <1>1, Ends

LEMMA UploadBegins == ASSUME L!ConstantsOK, JarInv, NEW t \in Tasks, L!Upload(t) PROVE JarInv'
<1>1. PICK n \in JarNames :
        L!Starts(t, [L!Idle EXCEPT !.pc = "place", !.op = "upload", !.staged = L!Of({n}, Local)])
  BY DEF L!Upload
<1> DEFINE k == [L!Idle EXCEPT !.pc = "place", !.op = "upload", !.staged = L!Of({n}, Local)]
<1>2. k \in L!Task
  <2>1. L!Of({n}, Local) \in L!Folder
    BY UniformFolder DEF L!ConstantsOK
  <2> QED BY <2>1, IdleForm DEF L!Task
<1>3. Formed(k) /\ ~Pending(k) /\ k.op # "update" /\ k.aside = L!Empty /\ k.pc # "promote"
  BY DEF Formed, Pending, L!Idle
<1>4. JarTypes'
  BY <1>1, StartTypes DEF L!Upload
<1>5. L!Starts(t, k)
  BY <1>1
<1> HIDE DEF k
<1> QED BY <1>2, <1>3, <1>4, <1>5, JarBegins

LEMMA InstallBegins == ASSUME L!ConstantsOK, JarInv, NEW t \in Tasks, L!Install(t) PROVE JarInv'
<1>1. PICK plan \in SUBSET JarNames :
        L!Starts(t, [L!Idle EXCEPT !.pc = "download", !.op = "install", !.todo = plan])
  BY DEF L!Install
<1> DEFINE k == [L!Idle EXCEPT !.pc = "download", !.op = "install", !.todo = plan]
<1>2. k \in L!Task
  BY IdleForm DEF L!Task
<1>3. Formed(k) /\ ~Pending(k) /\ k.op # "update" /\ k.aside = L!Empty /\ k.pc # "promote"
  BY DEF Formed, Pending, L!Idle
<1>4. JarTypes'
  BY <1>1, StartTypes, JarTypesNow DEF L!Install, JarTypes
<1>5. L!Starts(t, k)
  BY <1>1
<1> HIDE DEF k
<1> QED BY <1>2, <1>3, <1>4, <1>5, JarBegins

LEMMA UpdateBegins == ASSUME L!ConstantsOK, JarInv, NEW t \in Tasks, L!Update(t) PROVE JarInv'
<1>1. PICK e \in L!Has(live), r \in JarNames, needs \in SUBSET JarNames :
        L!Starts(t, [L!Idle EXCEPT !.pc = "resolve", !.op = "update", !.retire = {e},
                                   !.sha = live[e], !.root = {r}, !.todo = {r} \union needs])
  BY DEF L!Update
<1> DEFINE k == [L!Idle EXCEPT !.pc = "resolve", !.op = "update", !.retire = {e},
                               !.sha = live[e], !.root = {r}, !.todo = {r} \union needs]
<1>2. e \in JarNames /\ live[e] \in Versions
  BY JarTypesNow DEF JarTypes, L!Folder, L!Has
<1>3. k \in L!Task
  <2>1. [L!Idle EXCEPT !.pc = "resolve", !.op = "update", !.retire = {e}] \in L!Task
    BY <1>2, IdleForm DEF L!Task
  <2>2. /\ \A z \in L!Task : [z EXCEPT !.sha = live[e]] \in L!Task
        /\ \A z \in L!Task : [z EXCEPT !.root = {r}] \in L!Task
    BY <1>2 DEF L!Task
  <2>3. \A z \in L!Task : [z EXCEPT !.todo = {r} \union needs] \in L!Task
    BY DEF L!Task
  <2>4. k = [[[[L!Idle EXCEPT !.pc = "resolve", !.op = "update", !.retire = {e}]
               EXCEPT !.sha = live[e]] EXCEPT !.root = {r}] EXCEPT !.todo = {r} \union needs]
    BY DEF L!Idle
  <2> QED BY <2>1, <2>2, <2>3, <2>4
<1>4. /\ k.pc = "resolve" /\ k.op = "update" /\ k.retire = {e} /\ k.sha = live[e]
      /\ k.bundle = NoBundle /\ k.aside = L!Empty
  BY DEF L!Idle
<1>5. JarTypes'
  BY <1>1, StartTypes, JarTypesNow DEF L!Update, JarTypes
<1>6. L!Starts(t, k)
  BY <1>1
<1> HIDE DEF k
<1>7. Formed(k) /\ ~Pending(k)
  BY <1>2, <1>4 DEF Formed, Pending
<1> QED BY <1>3, <1>4, <1>5, <1>6, <1>7, JarBegins

LEMMA ImportBegins == ASSUME L!ConstantsOK, JarInv, NEW t \in Tasks, L!ImportApply(t) PROVE JarInv'
<1> DEFINE k == L!From([L!Idle EXCEPT !.pc = "aside", !.op = "import", !.staged = review])
<1>1. L!Starts(t, k)
  BY DEF L!ImportApply
<1>2. k \in L!Task
  BY IdleForm, JarTypesNow DEF L!Task, L!From, JarTypes, L!InThread
<1>3. Formed(k) /\ ~Pending(k) /\ k.op # "update" /\ k.aside = L!Empty /\ k.pc # "promote"
  BY DEF Formed, Pending, L!Idle, L!From
<1>4. JarTypes'
  BY <1>1, StartTypes, JarTypesNow DEF L!ImportApply, JarTypes
<1> HIDE DEF k
<1> QED BY <1>1, <1>2, <1>3, <1>4, JarBegins

LEMMA UndoStarts == ASSUME L!ConstantsOK, JarInv, NEW t \in Tasks, L!Undo(t) PROVE JarInv'
<1>1. PICK b \in Bundles :
        L!Starts(t, L!From([L!Idle EXCEPT !.pc = "undo", !.op = "undo", !.bundle = b]))
  BY DEF L!Undo
<1> DEFINE k == L!From([L!Idle EXCEPT !.pc = "undo", !.op = "undo", !.bundle = b])
<1>2. k \in L!Task
  BY IdleForm, JarTypesNow DEF L!Task, L!From, JarTypes, L!InThread
<1>3. Formed(k) /\ ~Pending(k) /\ k.op # "update" /\ k.aside = L!Empty /\ k.pc # "promote"
  BY DEF Formed, Pending, L!Idle, L!From
<1>4. JarTypes'
  BY <1>1, StartTypes, JarTypesNow DEF L!Undo, JarTypes
<1>5. L!Starts(t, k)
  BY <1>1
<1> HIDE DEF k
<1> QED BY <1>2, <1>3, <1>4, <1>5, JarBegins

LEMMA TestBegins == ASSUME L!ConstantsOK, JarInv, NEW t \in Tasks, L!Test(t) PROVE JarInv'
<1>1. PICK b \in batches' \union {L!Empty} :
        L!Set(t, L!From([L!Idle EXCEPT !.pc = "clone", !.op = "test", !.batch = b]))
  BY DEF L!Test
<1> DEFINE k == L!From([L!Idle EXCEPT !.pc = "clone", !.op = "test", !.batch = b])
<1>2. b \in L!Folder
  BY UniformFolder, JarTypesNow DEF L!Test, JarTypes
<1>3. k \in L!Task
  BY <1>2, IdleForm, JarTypesNow DEF L!Task, L!From, JarTypes
<1>4. Formed(k) /\ ~Pending(k) /\ k.op = "test" /\ k.aside = L!Empty /\ k.pc = "clone"
  BY DEF Formed, Pending, L!Idle, L!From
<1>5. JarTypes'
  BY JarTypesNow DEF L!Test, L!Request, JarTypes, L!folders, L!history, L!ConstantsOK
<1>6. /\ changing[t] = L!Idle /\ L!Set(t, k)
      /\ UNCHANGED <<live, disabled, bundles, abandoned, owned, risked>>
  BY <1>1 DEF L!Test, L!folders, L!history
<1> HIDE DEF k
<1>7. Onward(changing[t], k) /\ k.aside = changing[t].aside
  BY <1>4, <1>6, IdleForm DEF Onward
<1> QED BY <1>3, <1>4, <1>5, <1>6, <1>7, QuietKeeps

LEMMA ResolveKeeps == ASSUME L!ConstantsOK, JarInv, NEW t \in Tasks, L!Resolve(t) PROVE JarInv'
<1> DEFINE k == [changing[t] EXCEPT !.pc = "prepare", !.changed = L!Changed(t)]
<1>1. changing[t] \in L!Task /\ Formed(changing[t]) /\ changing[t].pc = "resolve"
  BY TaskIn DEF L!Resolve
<1>2. k \in L!Task
  BY <1>1 DEF L!Task, L!Changed
<1>3. /\ k.pc = "prepare" /\ k.aside = changing[t].aside /\ k.op = changing[t].op
      /\ k.bundle = changing[t].bundle /\ k.retire = changing[t].retire /\ k.sha = changing[t].sha
  BY <1>1 DEF L!Task
<1>4. /\ L!Set(t, k) /\ UNCHANGED <<live, disabled, bundles, abandoned, owned, risked>>
      /\ JarTypes'
  BY JarTypesNow DEF L!Resolve, L!folders, L!records, L!history, JarTypes
<1> HIDE DEF k
<1>5. Formed(k) /\ Onward(changing[t], k)
  BY <1>1, <1>3 DEF Formed, Onward, Pending
<1> QED BY <1>2, <1>3, <1>4, <1>5, QuietKeeps

LEMMA DownloadKeeps == ASSUME L!ConstantsOK, JarInv, NEW t \in Tasks, L!Download(t) PROVE JarInv'
<1>1. changing[t] \in L!Task /\ Formed(changing[t]) /\ changing[t].pc = "download"
  BY TaskIn DEF L!Download
<1>2. PICK n \in JarNames, staged \in L!Folder :
        L!Set(t, [changing[t] EXCEPT !.todo = @ \ {n}, !.staged = staged])
  <2>1. PICK n \in changing[t].todo :
          \/ L!Set(t, [changing[t] EXCEPT !.todo = @ \ {n}])
          \/ L!Set(t, [changing[t] EXCEPT !.todo = @ \ {n}, !.staged[n] = Published])
    BY DEF L!Download
  <2>2. n \in JarNames /\ changing[t].staged \in L!Folder
    BY <1>1 DEF L!Task
  <2>3. CASE L!Set(t, [changing[t] EXCEPT !.todo = @ \ {n}])
    <3>1. [changing[t] EXCEPT !.todo = @ \ {n}]
            = [changing[t] EXCEPT !.todo = @ \ {n}, !.staged = changing[t].staged]
      BY <1>1 DEF L!Task
    <3> QED BY <2>2, <2>3, <3>1
  <2>4. CASE L!Set(t, [changing[t] EXCEPT !.todo = @ \ {n}, !.staged[n] = Published])
    <3>1. [changing[t].staged EXCEPT ![n] = Published] \in L!Folder
      BY <2>2 DEF L!Folder, L!ConstantsOK
    <3> QED BY <2>2, <2>4, <3>1
  <2> QED BY <2>1, <2>3, <2>4
<1> DEFINE k == [changing[t] EXCEPT !.todo = @ \ {n}, !.staged = staged]
<1>3. /\ k \in L!Task /\ k.pc = changing[t].pc /\ k.op = changing[t].op
      /\ k.bundle = changing[t].bundle /\ k.retire = changing[t].retire
      /\ k.sha = changing[t].sha /\ k.aside = changing[t].aside
  BY <1>1 DEF L!Task
<1>4. /\ L!Set(t, k) /\ UNCHANGED <<live, disabled, bundles, abandoned, owned, risked>>
      /\ JarTypes'
  BY <1>2, JarTypesNow DEF L!Download, L!folders, L!records, L!history, JarTypes
<1> HIDE DEF k
<1>5. Formed(k) /\ Onward(changing[t], k)
  BY <1>1, <1>3 DEF Formed, Onward, Pending
<1> QED BY <1>1, <1>3, <1>4, <1>5, QuietKeeps

LEMMA PromoteKeeps == ASSUME L!ConstantsOK, JarInv, NEW t \in Tasks, L!Promote(t) PROVE JarInv'
<1> DEFINE k == L!From([changing[t] EXCEPT !.pc = "aside"])
<1>1. changing[t] \in L!Task /\ Formed(changing[t]) /\ changing[t].pc = "download"
  BY TaskIn DEF L!Promote
<1>2. /\ k.pc = "aside" /\ k.op = changing[t].op
      /\ k.bundle = changing[t].bundle /\ k.retire = changing[t].retire
      /\ k.sha = changing[t].sha /\ k.aside = changing[t].aside
  BY <1>1 DEF L!Task, L!From
<1>3. k \in L!Task
  <2>1. [changing[t] EXCEPT !.pc = "aside"] \in L!Task
    BY <1>1 DEF L!Task
  <2>2. live \in L!Folder /\ disabled \in L!Folder
    BY JarTypesNow DEF JarTypes
  <2>3. /\ \A z \in L!Task : [z EXCEPT !.live0 = live] \in L!Task
        /\ \A z \in L!Task : [z EXCEPT !.disabled0 = disabled] \in L!Task
    BY <2>2 DEF L!Task
  <2>4. \A z \in L!Task : L!From(z) = [[z EXCEPT !.live0 = live] EXCEPT !.disabled0 = disabled]
    BY DEF L!From, L!Task
  <2> QED BY <2>1, <2>3, <2>4
<1>4. /\ L!Set(t, k) /\ UNCHANGED <<live, disabled, bundles, abandoned, owned, risked>>
      /\ JarTypes'
  BY JarTypesNow DEF L!Promote, L!folders, L!records, L!history, JarTypes
<1> HIDE DEF k
<1>5. Formed(k) /\ Onward(changing[t], k)
  BY <1>1, <1>2, NothingAside DEF Formed, Onward, Pending
<1> QED BY <1>1, <1>2, <1>3, <1>4, <1>5, QuietKeeps

LEMMA PromoteFailsKeeps ==
  ASSUME L!ConstantsOK, JarInv, NEW t \in Tasks, L!PromoteFails(t) PROVE JarInv'
<1> DEFINE k == [changing[t] EXCEPT !.pc = "withdraw", !.answer = "restored"]
<1>1. changing[t] \in L!Task /\ Formed(changing[t]) /\ changing[t].pc \in {"aside", "promote"}
  BY TaskIn DEF L!PromoteFails
<1>2. /\ k.pc = "withdraw" /\ k.op = changing[t].op
      /\ k.bundle = changing[t].bundle /\ k.retire = changing[t].retire
      /\ k.sha = changing[t].sha /\ k.aside = changing[t].aside
  BY <1>1 DEF L!Task
<1>3. k \in L!Task
  BY <1>1 DEF L!Task
<1>4. /\ L!Set(t, k) /\ UNCHANGED <<live, disabled, bundles, abandoned, owned, risked>>
      /\ JarTypes'
  BY JarTypesNow DEF L!PromoteFails, L!folders, L!records, L!history, JarTypes
<1> HIDE DEF k
<1>5. Formed(k) /\ Onward(changing[t], k)
  BY <1>1, <1>2 DEF Formed, Onward, Pending
<1> QED BY <1>2, <1>3, <1>4, <1>5, QuietKeeps

\* A request that answers, or takes another step, and keeps what it has in hand.
SameHand(r, k) ==
  /\ k.op = r.op /\ k.bundle = r.bundle /\ k.retire = r.retire /\ k.sha = r.sha
  /\ k.aside \in {r.aside, L!Empty}

Verdicts == {"none", "done", "failed", "restored", "undone", "refused", "inspect", "launch_error",
            "ready", "crashed", "timeout", "passed", "quarantined"}
Onwards == {"rename", "undo", "displace", "restore", "record", "reinstate", "return", "launch",
            "waiting", "stopping", "judge", "quarantine", "bring_back"}

LEMMA OneStep ==
  ASSUME NEW r \in L!Task, NEW p \in Onwards, NEW a \in Verdicts
  PROVE  /\ [r EXCEPT !.pc = p] \in L!Task
         /\ [r EXCEPT !.pc = p, !.answer = a] \in L!Task
         /\ [r EXCEPT !.pc = "answer", !.answer = a, !.aside = L!Empty] \in L!Task
         /\ SameHand(r, [r EXCEPT !.pc = p]) /\ SameHand(r, [r EXCEPT !.pc = p, !.answer = a])
         /\ SameHand(r, [r EXCEPT !.pc = "answer", !.answer = a, !.aside = L!Empty])
<1>1. \A q \in L!Task : [q EXCEPT !.answer = a] \in L!Task
  BY DEF L!Task, Verdicts
<1>2. \A q \in L!Task : [q EXCEPT !.pc = p] \in L!Task
  BY DEF L!Task, Onwards
<1>5. [r EXCEPT !.pc = p, !.answer = a] \in L!Task
  <2>1. [r EXCEPT !.pc = p, !.answer = a] = [[r EXCEPT !.pc = p] EXCEPT !.answer = a]
    BY DEF L!Task
  <2> QED BY <1>1, <1>2, <2>1
<1>6. [r EXCEPT !.pc = "answer", !.answer = a, !.aside = L!Empty] \in L!Task
  <2> DEFINE q == [r EXCEPT !.pc = "answer", !.aside = L!Empty]
  <2>3. \A z \in L!Task : [z EXCEPT !.aside = L!Empty] \in L!Task
    BY UniformFolder DEF L!Task
  <2>4. [r EXCEPT !.pc = "answer"] \in L!Task /\ q = [[r EXCEPT !.pc = "answer"] EXCEPT !.aside = L!Empty]
    BY DEF L!Task
  <2>1. q \in L!Task
    BY <2>3, <2>4
  <2>2. [r EXCEPT !.pc = "answer", !.answer = a, !.aside = L!Empty] = [q EXCEPT !.answer = a]
    BY DEF L!Task
  <2> HIDE DEF q
  <2> QED BY <1>1, <2>1, <2>2
<1>3. SameHand(r, [r EXCEPT !.pc = p]) /\ SameHand(r, [r EXCEPT !.pc = p, !.answer = a])
  BY DEF L!Task, SameHand
<1>4. SameHand(r, [r EXCEPT !.pc = "answer", !.answer = a, !.aside = L!Empty])
  BY DEF L!Task, SameHand
<1> QED BY <1>2, <1>3, <1>4, <1>5, <1>6

\* A request goes on to this place, with this answer perhaps, or answers.
LEMMA GoesTo ==
  ASSUME L!ConstantsOK, JarInv, NEW t \in Tasks, NEW p \in Onwards, NEW a \in Verdicts, JarTypes',
         changing[t].pc \notin {"promote", "withdraw"},
         \/ L!Set(t, [changing[t] EXCEPT !.pc = p])
         \/ L!Set(t, [changing[t] EXCEPT !.pc = p, !.answer = a])
         \/ L!Set(t, [changing[t] EXCEPT !.pc = "answer", !.answer = a, !.aside = L!Empty]),
         UNCHANGED <<live, disabled, bundles, abandoned, owned, risked>>
  PROVE  JarInv'
<1>1. changing[t] \in L!Task
  BY TaskIn
<1>2. PICK k \in L!Task :
        L!Set(t, k) /\ SameHand(changing[t], k) /\ k.pc \in Onwards \union {"answer"}
  <2>1. /\ [changing[t] EXCEPT !.pc = p].pc = p
        /\ [changing[t] EXCEPT !.pc = p, !.answer = a].pc = p
        /\ [changing[t] EXCEPT !.pc = "answer", !.answer = a, !.aside = L!Empty].pc = "answer"
    BY <1>1 DEF L!Task
  <2> QED BY <1>1, <2>1, OneStep
<1>3. k.pc \notin {"resolve", "prepare", "download", "aside", "promote", "withdraw"}
  BY <1>2 DEF Onwards
<1> QED BY <1>2, <1>3, GoesOn DEF SameHand

\* The answers the handlers give.
LEMMA Given ==
  ASSUME L!ConstantsOK, JarInv, NEW t \in Tasks
  PROVE  changing[t].answer \in Verdicts /\ L!Unmade(t) \in Verdicts
BY TaskIn DEF L!Task, L!Unmade, Verdicts

LEMMA QuietSteps ==
  ASSUME L!ConstantsOK, JarInv, NEW t \in Tasks,
         \/ L!UndoRefused(t) \/ L!OldNameIsFree(t) \/ L!UndoFails(t) \/ L!Returned(t)
         \/ L!Launch(t) \/ L!Poll(t) \/ L!StopValidation(t) \/ L!Judge(t) \/ L!QuarantineFails(t)
         \/ L!BroughtBack(t) \/ L!Quarantined(t)
  PROVE  JarInv'
<1>1. /\ UNCHANGED <<live, disabled, bundles, abandoned, owned, risked, review, asked>>
      /\ changing[t].pc \notin {"promote", "withdraw"}
  BY DEF L!UndoRefused, L!OldNameIsFree, L!UndoFails, L!Returned, L!Launch, L!Poll,
     L!StopValidation, L!Judge, L!QuarantineFails, L!BroughtBack, L!Quarantined,
     L!folders, L!records, L!history
<1>2. batches' \subseteq batches /\ process' \in {"stopped", "starting", process}
      /\ turn' \in {turn, t, NoTask}
  BY DEF L!UndoRefused, L!OldNameIsFree, L!UndoFails, L!Returned, L!Launch, L!Poll,
     L!StopValidation, L!Judge, L!QuarantineFails, L!BroughtBack, L!Quarantined,
     L!records, L!Answers, L!Leaves, L!Forgotten
<1>3. JarTypes'
  BY <1>1, <1>2, JarTypesNow DEF JarTypes
<1>4. CASE L!UndoRefused(t) \/ L!Returned(t) \/ L!BroughtBack(t)
  <2>1. PICK a \in Verdicts :
          L!Set(t, [changing[t] EXCEPT !.pc = "answer", !.answer = a, !.aside = L!Empty])
    BY <1>4, Given DEF L!UndoRefused, L!Returned, L!BroughtBack, L!Answers
  <2> QED BY <1>1, <1>3, <2>1, GoesTo DEF Onwards
<1>5. CASE L!OldNameIsFree(t) \/ L!UndoFails(t) \/ L!StopValidation(t)
  <2>1. PICK p \in Onwards : L!Set(t, [changing[t] EXCEPT !.pc = p])
    BY <1>5 DEF L!OldNameIsFree, L!UndoFails, L!StopValidation, Onwards
  <2> QED BY <1>1, <1>3, <2>1, GoesTo DEF Verdicts
<1>6. CASE L!Launch(t) \/ L!QuarantineFails(t)
  <2>1. PICK p \in Onwards, a \in Verdicts :
          \/ L!Set(t, [changing[t] EXCEPT !.pc = p])
          \/ L!Set(t, [changing[t] EXCEPT !.pc = p, !.answer = a])
    BY <1>6 DEF L!Launch, L!QuarantineFails, Onwards, Verdicts
  <2> QED BY <1>1, <1>3, <2>1, GoesTo
<1>7. CASE L!Poll(t)
  <2> DEFINE a == CASE process = "running" -> "ready" [] process = "stopped" -> "crashed"
                    [] OTHER -> "timeout"
  <2>1. L!Set(t, [changing[t] EXCEPT !.pc = "stopping", !.answer = a])
    BY <1>7 DEF L!Poll
  <2>2. a \in Verdicts /\ "stopping" \in Onwards
    BY DEF Verdicts, Onwards
  <2> HIDE DEF a
  <2> QED BY <1>1, <1>3, <2>1, <2>2, GoesTo
<1>8. CASE L!Judge(t) \/ L!Quarantined(t)
  <2>1. PICK p \in Onwards, a \in Verdicts :
          \/ L!Set(t, [changing[t] EXCEPT !.pc = p])
          \/ L!Set(t, [changing[t] EXCEPT !.pc = "answer", !.answer = a, !.aside = L!Empty])
    BY <1>8 DEF L!Judge, L!Quarantined, L!Answers, Onwards, Verdicts
  <2> QED BY <1>1, <1>3, <2>1, GoesTo
<1> QED BY <1>4, <1>5, <1>6, <1>7, <1>8

LEMMA CommitKeeps == ASSUME L!ConstantsOK, JarInv, NEW t \in Tasks, L!Commit(t) PROVE JarInv'
<1>1. /\ UNCHANGED <<live, disabled, bundles, abandoned, owned, risked, review, process, asked>>
      /\ changing[t].pc = "commit" /\ changing[t] \in L!Task
  BY TaskIn DEF L!Commit, L!folders, L!history
<1>2. batches' \in {batches, batches \union {L!Batch(t)}} /\ turn' \in {turn, NoTask}
  BY DEF L!Commit, L!Recorded, L!Answers, L!Leaves
<1>3. L!Batch(t) \in L!Folder
  BY JarFolders, JarTypesNow DEF L!Batch, JarTypes
<1>4. JarTypes'
  BY <1>1, <1>2, <1>3, JarTypesNow DEF JarTypes
<1>5. CASE \E a \in Verdicts : L!Answers(t, a)
  BY <1>1, <1>4, <1>5, GoesTo DEF L!Answers, Onwards
<1>6. CASE L!Set(t, [changing[t] EXCEPT !.pc = "undo", !.moved = {}, !.batch = L!Batch(t)])
  <2> DEFINE k == [changing[t] EXCEPT !.pc = "undo", !.moved = {}, !.batch = L!Batch(t)]
  <2>1. k \in L!Task
    BY <1>1, <1>3 DEF L!Task
  <2>2. SameHand(changing[t], k) /\ k.pc = "undo"
    BY <1>1 DEF L!Task, SameHand
  <2>3. L!Set(t, k)
    BY <1>6
  <2> HIDE DEF k
  <2> QED BY <1>1, <1>4, <2>1, <2>2, <2>3, GoesOn DEF SameHand
<1> QED BY <1>5, <1>6 DEF L!Commit, Verdicts

LEMMA UndoBeginsKeeps ==
  ASSUME L!ConstantsOK, JarInv, NEW t \in Tasks, L!UndoBegins(t) PROVE JarInv'
<1> DEFINE c == bundles[changing[t].bundle]
           k == [changing[t] EXCEPT !.pc = "claim", !.retire = {c.old}, !.sha = c.sha,
                                    !.changed = L!Has(c.new)]
<1>1. /\ changing[t] \in L!Task /\ Formed(changing[t]) /\ changing[t].pc = "undo"
      /\ changing[t].aside = L!Empty /\ c \in L!Bundle
  BY TaskIn, NothingAside, JarTypesNow DEF L!UndoBegins, L!There, JarTypes
<1>2. c.old \in JarNames /\ c.sha \in Versions /\ L!Has(c.new) \subseteq JarNames
  BY <1>1 DEF L!Bundle, L!Has
<1>3. k \in L!Task
  BY <1>1, <1>2 DEF L!Task
<1>4. /\ k.pc = "claim" /\ k.op = changing[t].op /\ k.bundle = changing[t].bundle
      /\ k.aside = changing[t].aside /\ k.retire = {c.old} /\ k.sha = c.sha
  BY <1>1 DEF L!Task
<1>5. /\ L!Set(t, k) /\ UNCHANGED <<live, disabled, bundles, abandoned, owned, risked>>
      /\ JarTypes'
  BY JarTypesNow DEF L!UndoBegins, L!Kept, L!folders, L!records, L!history, JarTypes
<1>6. changing[t].op \in {"update", "undo"}
  BY <1>1, JarTypesNow DEF L!UndoBegins, L!There, Formed, L!ConstantsOK
<1> HIDE DEF k, c
<1>7. Formed(k) /\ Onward(changing[t], k)
  BY <1>1, <1>2, <1>4, <1>6 DEF Formed, Onward, Pending
<1> QED BY <1>1, <1>3, <1>4, <1>5, <1>7, QuietKeeps

LEMMA CloneKeeps == ASSUME L!ConstantsOK, JarInv, NEW t \in Tasks, L!Clone(t) PROVE JarInv'
<1> DEFINE k == [changing[t] EXCEPT !.pc = "launch", !.clone = live]
<1>1. /\ changing[t] \in L!Task /\ changing[t].pc = "clone" /\ L!Set(t, k)
      /\ UNCHANGED <<live, disabled, bundles, abandoned, owned, risked>> /\ JarTypes'
  BY TaskIn, JarTypesNow DEF L!Clone, L!Cloned, L!folders, L!records, L!history, JarTypes
<1>2. k \in L!Task
  BY <1>1, JarTypesNow DEF L!Task, JarTypes
<1>3. SameHand(changing[t], k) /\ k.pc = "launch"
  BY <1>1 DEF L!Task, SameHand
<1> HIDE DEF k
<1> QED BY <1>1, <1>2, <1>3, GoesOn DEF SameHand

-----------------------------------------------------------------------------
(* Renames.                                                                *)

LEMMA RenameMeets ==
  ASSUME NEW f \in L!Folder, NEW g \in L!Folder, NEW n \in JarNames, NEW v \in Versions,
         L!ConstantsOK
  PROVE  /\ f[n] = v => L!With(f, g)[n] = v \/ <<n, v>> \in L!Covered(f, g)
         /\ g[n] = v => L!With(f, g)[n] = v
         /\ \A S : f[n] = v => L!Without(f, S)[n] = v \/ L!Only(f, S)[n] = v
         /\ <<n, v>> \in L!Jars(g) <=> g[n] = v
<1>1. <<n, v>> \in L!Covered(f, g) <=> f[n] = v /\ g[n] # NoJar
  BY JarIn DEF L!Covered, L!Only, L!Has, L!ConstantsOK
<1>2. <<n, v>> \in L!Jars(g) <=> g[n] = v
  BY JarIn DEF L!ConstantsOK
<1> QED BY <1>1, <1>2 DEF L!With, L!Without, L!Only, L!ConstantsOK

LEMMA CoveredTyped ==
  ASSUME NEW f \in L!Folder, NEW g
  PROVE  L!Covered(f, g) \subseteq JarNames \X Versions
<1>1. L!Only(f, L!Has(g)) \in L!Folder
  BY DEF L!Only, L!Folder
<1> QED BY <1>1, JarsTyped DEF L!Covered

LEMMA DisableKeeps ==
  ASSUME L!ConstantsOK, JarTypes, NEW S, L!Disables(S) \/ L!Enables(S)
  PROVE  /\ live' \in L!Folder /\ disabled' \in L!Folder
         /\ risked' \subseteq JarNames \X Versions /\ risked \subseteq risked'
         /\ \A n \in JarNames, v \in Versions :
              live[n] = v \/ disabled[n] = v =>
                live'[n] = v \/ disabled'[n] = v \/ <<n, v>> \in risked'
<1>1. /\ L!Only(live, S) \in L!Folder /\ L!Only(disabled, S) \in L!Folder
      /\ live \in L!Folder /\ disabled \in L!Folder /\ risked \subseteq JarNames \X Versions
  BY JarFolders DEF JarTypes
<1>2. live' \in L!Folder /\ disabled' \in L!Folder
  BY <1>1, JarFolders DEF L!Disables, L!Enables
<1>3. risked' \subseteq JarNames \X Versions /\ risked \subseteq risked'
  BY <1>1, CoveredTyped DEF L!Disables, L!Enables
<1>4. ASSUME NEW n \in JarNames, NEW v \in Versions, live[n] = v \/ disabled[n] = v
      PROVE  live'[n] = v \/ disabled'[n] = v \/ <<n, v>> \in risked'
  BY <1>1, <1>4, RenameMeets DEF L!Disables, L!Enables
<1> QED BY <1>2, <1>3, <1>4

\* A recovery copy that no update may discard stays so.
LEMMA StaysSettled ==
  ASSUME JarInv, NEW t \in Tasks, NEW k, L!Set(t, k), NEW b \in Bundles, Settled(b),
         Pending(k) => Pending(changing[t]) /\ k.bundle = changing[t].bundle
  PROVE  Settled(b)'
<1>1. changing'[t] = k /\ \A u \in Tasks \ {t} : changing'[u] = changing[u]
  BY DEF L!Set, JarInv
<1> SUFFICES ASSUME NEW u \in Tasks, Pending(changing'[u]), changing'[u].bundle = b
             PROVE  FALSE
  BY DEF Settled, Pending
<1> QED BY <1>1 DEF Settled

\* A step that touches no recovery copy but may move jars in the folders.
LEMMA FoldersKeep ==
  ASSUME L!ConstantsOK, JarInv, NEW t \in Tasks, NEW k \in L!Task, L!Set(t, k), JarTypes',
         Formed(k), Backed(k, bundles', risked'), Onward(changing[t], k),
         risked \subseteq risked', abandoned \subseteq abandoned', UNCHANGED bundles,
         \A n \in JarNames, v \in Versions : <<n, v>> \in owned' =>
           /\ <<n, v>> \notin owned => Fine(n, v)'
           /\ live[n] = v \/ disabled[n] = v => Fine(n, v)'
           /\ changing[t].aside[n] = v => Fine(n, v)'
  PROVE  JarInv'
BY MoveKeeps

LEMMA TogglesKeep ==
  ASSUME L!ConstantsOK, JarInv, NEW t \in Tasks,
         L!Rename(t) \/ L!QuarantineOne(t) \/ L!BringBack(t)
  PROVE  JarInv'
<1>1. /\ changing[t] \in L!Task /\ changing[t].pc \in {"rename", "quarantine", "bring_back"}
      /\ changing[t].aside = L!Empty /\ Formed(changing[t])
  BY TaskIn, NothingAside DEF L!Rename, L!QuarantineOne, L!BringBack
<1>2. PICK S : L!Disables(S) \/ L!Enables(S) \/ UNCHANGED <<live, disabled, risked>>
  BY DEF L!Rename, L!QuarantineOne, L!BringBack, L!folders
<1>3. /\ JarTypes' /\ risked \subseteq risked'
      /\ \A n \in JarNames, v \in Versions :
           live[n] = v \/ disabled[n] = v =>
             live'[n] = v \/ disabled'[n] = v \/ <<n, v>> \in risked'
  <2>1. UNCHANGED <<turn, bundles, batches, review, process, abandoned, owned, asked>>
    BY DEF L!Rename, L!QuarantineOne, L!BringBack, L!records
  <2> QED BY <1>2, <2>1, DisableKeeps, JarTypesNow DEF JarTypes
<1>4. PICK k \in L!Task : /\ L!Set(t, k) /\ k.aside = L!Empty
                          /\ k = L!Idle \/ SameHand(changing[t], k)
                          /\ k.pc \in {"idle", "look", "quarantine", "bring_back"}
  <2>1. CASE \E n \in changing[t].moved : L!Set(t, L!Past(t, n))
    <3>1. PICK n \in changing[t].moved : L!Set(t, L!Past(t, n))
      BY <2>1
    <3> DEFINE k == [changing[t] EXCEPT !.pc = "look", !.todo = @ \ {n}, !.moved = {}]
    <3>2. k \in L!Task
      <4>1. \A z \in L!Task : [z EXCEPT !.moved = {}] \in L!Task
        BY DEF L!Task
      <4>2. [changing[t] EXCEPT !.pc = "look", !.todo = @ \ {n}] \in L!Task
        <5>1. \A z \in L!Task : [z EXCEPT !.pc = "look"] \in L!Task
          BY DEF L!Task
        <5>2. [changing[t] EXCEPT !.todo = @ \ {n}] \in L!Task
          BY <1>1 DEF L!Task
        <5>3. [changing[t] EXCEPT !.pc = "look", !.todo = @ \ {n}]
                = [[changing[t] EXCEPT !.todo = @ \ {n}] EXCEPT !.pc = "look"]
          BY <1>1 DEF L!Task
        <5> QED BY <5>1, <5>2, <5>3
      <4>3. k = [[changing[t] EXCEPT !.pc = "look", !.todo = @ \ {n}] EXCEPT !.moved = {}]
        BY <1>1 DEF L!Task
      <4> QED BY <4>1, <4>2, <4>3
    <3>3. k.aside = L!Empty /\ SameHand(changing[t], k) /\ k.pc = "look"
      BY <1>1 DEF L!Task, SameHand
    <3>4. L!Set(t, k) \/ L!Set(t, L!Idle)
      BY <3>1 DEF L!Past
    <3> HIDE DEF k
    <3> QED BY <3>2, <3>3, <3>4, IdleForm
  <2>2. CASE \E n \in L!Has(changing[t].batch) :
               L!Set(t, [changing[t] EXCEPT !.moved = @ \union {n}]) /\ L!QuarantineOne(t)
    <3>1. PICK n \in JarNames : L!Set(t, [changing[t] EXCEPT !.moved = @ \union {n}])
      BY <2>2 DEF L!Has
    <3> DEFINE k == [changing[t] EXCEPT !.moved = @ \union {n}]
    <3>2. k \in L!Task
      BY <1>1 DEF L!Task
    <3>3. k.aside = L!Empty /\ SameHand(changing[t], k) /\ k.pc = changing[t].pc
      BY <1>1 DEF L!Task, SameHand
    <3>4. L!Set(t, k)
      BY <3>1
    <3> HIDE DEF k
    <3> QED BY <2>2, <3>2, <3>3, <3>4 DEF L!QuarantineOne
  <2>3. CASE L!BringBack(t)
    <3>1. PICK n \in changing[t].moved :
            \/ L!Set(t, [changing[t] EXCEPT !.moved = @ \ {n}])
            \/ L!Set(t, [changing[t] EXCEPT !.moved = @ \ {n}, !.answer = "inspect"])
      BY <2>3 DEF L!BringBack
    <3> DEFINE k == [changing[t] EXCEPT !.moved = @ \ {n}]
               l == [changing[t] EXCEPT !.moved = @ \ {n}, !.answer = "inspect"]
    <3>2. k \in L!Task
      BY <1>1 DEF L!Task
    <3>5. l \in L!Task
      <4>1. l = [k EXCEPT !.answer = "inspect"]
        BY <1>1 DEF L!Task
      <4>2. \A q \in L!Task : [q EXCEPT !.answer = "inspect"] \in L!Task
        BY DEF L!Task
      <4> HIDE DEF k, l
      <4> QED BY <3>2, <4>1, <4>2
    <3>3. k.aside = L!Empty /\ SameHand(changing[t], k) /\ k.pc = changing[t].pc
          /\ l.aside = L!Empty /\ SameHand(changing[t], l) /\ l.pc = changing[t].pc
      BY <1>1 DEF L!Task, SameHand
    <3>4. L!Set(t, k) \/ L!Set(t, l)
      BY <3>1
    <3> HIDE DEF k, l
    <3> QED BY <2>3, <3>2, <3>3, <3>4, <3>5 DEF L!BringBack
  <2> QED BY <2>1, <2>2, <2>3 DEF L!Rename, L!QuarantineOne
<1>5. Formed(k) /\ Backed(k, bundles', risked') /\ Onward(changing[t], k)
  BY <1>1, <1>4, IdleForm DEF Formed, Backed, Onward, Pending, SameHand
<1>6. UNCHANGED <<bundles, abandoned, owned>>
  BY DEF L!Rename, L!QuarantineOne, L!BringBack, L!records
<1>7. ASSUME NEW n \in JarNames, NEW v \in Versions, changing[t].aside[n] = v PROVE FALSE
  BY <1>1, <1>7 DEF L!Empty, L!ConstantsOK
<1>8. ASSUME NEW n \in JarNames, NEW v \in Versions, live[n] = v \/ disabled[n] = v
      PROVE  Fine(n, v)'
  BY <1>3, <1>8 DEF Fine
<1> QED BY <1>3, <1>4, <1>5, <1>6, <1>7, <1>8, FoldersKeep

LEMMA PlaceKeeps == ASSUME L!ConstantsOK, JarInv, NEW t \in Tasks, L!Place(t) PROVE JarInv'
<1>1. /\ changing[t] \in L!Task /\ changing[t].pc = "place" /\ changing[t].aside = L!Empty
      /\ L!Set(t, L!Idle) /\ UNCHANGED <<disabled, bundles, abandoned>>
      /\ L!Jars(changing[t].staged) \subseteq JarNames \X Versions
  BY TaskIn, NothingAside, JarsTyped DEF L!Place, L!records, L!Task
<1> DEFINE added == changing[t].staged
<1>3. added \in L!Folder /\ live \in L!Folder
  BY <1>1, JarTypesNow DEF L!Task, JarTypes
<1>4. CASE UNCHANGED <<live, owned, risked>>
  <2>1. JarTypes'
    BY <1>1, <1>4, JarTypesNow DEF L!Place, L!records, L!Leaves, JarTypes
  <2> QED BY <1>1, <1>4, <2>1, Ends
<1>5. CASE /\ live' = L!With(live, added) /\ risked' = risked \union L!Covered(live, added)
           /\ owned' = owned \union L!Jars(added)
  <2> HIDE DEF added
  <2>1. JarTypes'
    <3>1. turn' \in {turn, NoTask} /\ UNCHANGED <<batches, review, process, asked>>
      BY DEF L!Place, L!Leaves, L!records
    <3>2. /\ L!With(live, added) \in L!Folder /\ L!Covered(live, added) \subseteq JarNames \X Versions
          /\ L!Jars(added) \subseteq JarNames \X Versions
      BY <1>3, JarFolders, CoveredTyped, JarsTyped
    <3> QED BY <1>1, <1>5, <3>1, <3>2, JarTypesNow DEF JarTypes
  <2>2. ASSUME NEW n \in JarNames, NEW v \in Versions
        PROVE  /\ <<n, v>> \in owned' /\ <<n, v>> \notin owned => Fine(n, v)'
               /\ live[n] = v \/ disabled[n] = v => Fine(n, v)'
               /\ changing[t].aside[n] # v
    BY <1>1, <1>3, <1>5, RenameMeets DEF Fine, L!Empty, L!ConstantsOK
  <2>3. Formed(L!Idle) /\ Backed(L!Idle, bundles', risked') /\ Onward(changing[t], L!Idle)
        /\ L!Idle \in L!Task
    BY <1>1, IdleForm DEF Backed, Onward
  <2> QED BY <1>1, <1>5, <2>1, <2>2, <2>3, FoldersKeep
<1> QED BY <1>4, <1>5 DEF L!Place, L!history

\* Preparing the recovery copy of an update.
LEMMA PrepareKeeps == ASSUME L!ConstantsOK, JarInv, NEW t \in Tasks, L!Prepare(t) PROVE JarInv'
<1>1. PICK b \in Bundles, e \in changing[t].retire \intersect L!Has(live) :
        /\ bundles[b] = NoBundle /\ \A u \in Tasks : changing[u].bundle # b
        /\ bundles' = [bundles EXCEPT ![b] =
             [old |-> e, sha |-> changing[t].sha, kept |-> live[e],
              new |-> L!Of(changing[t].changed, Published),
              used |-> FALSE, displaced |-> L!Empty, stuck |-> FALSE]]
        /\ L!Set(t, [changing[t] EXCEPT !.pc = "download", !.bundle = b])
        /\ risked' = risked \union
             (IF live[e] = changing[t].sha THEN {} ELSE {<<e, changing[t].sha>>})
  BY DEF L!Prepare
<1>2. /\ changing[t] \in L!Task /\ Formed(changing[t]) /\ changing[t].pc = "prepare"
      /\ changing[t].aside = L!Empty
      /\ UNCHANGED <<live, disabled, turn, batches, review, process, abandoned, owned, asked>>
  BY TaskIn, NothingAside DEF L!Prepare, L!folders
<1>3. /\ e \in JarNames /\ live[e] \in Versions /\ changing[t].sha \in Versions
      /\ changing[t].retire = {e} /\ changing[t].op = "update"
  BY <1>1, <1>2, JarTypesNow DEF Formed, JarTypes, L!Folder, L!Has
<1> DEFINE c == [old |-> e, sha |-> changing[t].sha, kept |-> live[e],
                 new |-> L!Of(changing[t].changed, Published),
                 used |-> FALSE, displaced |-> L!Empty, stuck |-> FALSE]
           k == [changing[t] EXCEPT !.pc = "download", !.bundle = b]
<1>4. c \in L!Bundle /\ c.old = e /\ c.kept = live[e] /\ c # NoBundle
  <2>1. L!Of(changing[t].changed, Published) \in L!Folder /\ L!Empty \in L!Folder
    BY UniformFolder DEF L!ConstantsOK
  <2>2. c \in L!Bundle
    BY <1>3, <2>1 DEF L!Bundle
  <2> QED BY <2>2 DEF L!ConstantsOK
<1>15. k \in L!Task
  BY <1>2 DEF L!Task
<1>5. /\ k.pc = "download" /\ k.op = "update" /\ k.bundle = b
      /\ k.aside = L!Empty /\ k.retire = {e} /\ k.sha = changing[t].sha
  BY <1>2, <1>3 DEF L!Task
<1>6. L!Set(t, k) /\ bundles' = [bundles EXCEPT ![b] = c]
  BY <1>1
<1> HIDE DEF c, k
<1>7. JarTypes'
  <2>1. bundles' \in [Bundles -> L!Bundle \union {NoBundle}]
    BY <1>4, <1>6, JarTypesNow DEF JarTypes
  <2>2. risked' \subseteq JarNames \X Versions
    BY <1>1, <1>3, JarTypesNow DEF JarTypes
  <2> QED BY <1>2, <2>1, <2>2, JarTypesNow DEF JarTypes
<1>8. bundles'[b] = c /\ \A d \in Bundles \ {b} : bundles'[d] = bundles[d]
  BY <1>6, JarTypesNow DEF JarTypes
<1>9. Formed(k) /\ Backed(k, bundles', risked')
  BY <1>1, <1>3, <1>4, <1>5, <1>8 DEF Formed, Backed, Pending
<1>10. ASSUME NEW n \in JarNames, NEW v \in Versions
       PROVE  /\ live[n] = v \/ disabled[n] = v => Fine(n, v)'
              /\ changing[t].aside[n] # v
              /\ \A d \in Bundles : HasJar(d, n, v) => bundles'[d] = bundles[d]
  BY <1>1, <1>2, <1>8 DEF Fine, L!Empty, L!ConstantsOK, HasJar
<1>11. ASSUME NEW u \in Tasks \ {t}, Pending(changing[u])
       PROVE  bundles'[changing[u].bundle] = bundles[changing[u].bundle]
  BY <1>1, <1>8, <1>11, TaskIn DEF Formed
<1>12. risked \subseteq risked' /\ abandoned \subseteq abandoned' /\ owned' = owned
  BY <1>1, <1>2
<1>13. k.bundle \in Bundles /\ bundles[k.bundle] = NoBundle
       /\ \A u \in Tasks : changing[u].bundle # k.bundle
  BY <1>1, <1>5
<1>14. L!Set(t, k)
  BY <1>6
<1> QED BY <1>7, <1>9, <1>10, <1>11, <1>12, <1>13, <1>14, <1>15, MoveKeeps

-----------------------------------------------------------------------------
(* Discarding a recovery copy, and the steps of a promotion.               *)

LEMMA DiscardKeeps ==
  ASSUME L!ConstantsOK, JarInv, NEW t \in Tasks, bundles' = L!Discarded(changing[t].bundle),
         changing[t].pc \in {"resolve", "prepare", "download", "aside", "promote", "withdraw"}
  PROVE  /\ bundles' \in [Bundles -> L!Bundle \union {NoBundle}]
         /\ \A u \in Tasks \ {t} : Pending(changing[u]) =>
              bundles'[changing[u].bundle] = bundles[changing[u].bundle]
         /\ \A b \in Bundles : bundles'[b] # bundles[b] => ~Settled(b)
<1> DEFINE own == changing[t].bundle
<1>1. bundles \in [Bundles -> L!Bundle \union {NoBundle}] /\ Formed(changing[t])
  BY JarTypesNow, TaskIn DEF JarTypes
<1>2. CASE own = NoBundle
  BY <1>1, <1>2 DEF L!Discarded
<1>3. CASE own # NoBundle
  <2>1. Pending(changing[t]) /\ own \in Bundles
    BY <1>1, <1>3 DEF Formed, Pending
  <2>2. /\ bundles' \in [Bundles -> L!Bundle \union {NoBundle}]
        /\ \A b \in Bundles : b # own => bundles'[b] = bundles[b]
    BY <1>1, <1>3, <2>1 DEF L!Discarded
  <2>3. ASSUME NEW u \in Tasks \ {t}, Pending(changing[u])
        PROVE  changing[u].bundle \in Bundles /\ changing[u].bundle # own
    <3>1. changing[u].bundle \in Bundles
      BY <2>3, TaskIn DEF Formed
    <3> QED BY <2>1, <2>3, <3>1 DEF JarInv, Alone, Pending
  <2>4. ~Settled(own)
    BY <2>1 DEF Settled
  <2> QED BY <2>2, <2>3, <2>4
<1> QED BY <1>2, <1>3

LEMMA RefuseKeeps == ASSUME L!ConstantsOK, JarInv, NEW t \in Tasks, L!Refuse(t) PROVE JarInv'
<1>1. /\ changing[t].pc \in {"resolve", "prepare", "download"} /\ changing[t].aside = L!Empty
      /\ bundles' = L!Discarded(changing[t].bundle) /\ L!Set(t, L!Idle)
      /\ UNCHANGED <<live, disabled, turn, batches, review, process, abandoned, owned, risked, asked>>
  BY NothingAside DEF L!Refuse, L!folders, L!history
<1>2. /\ bundles' \in [Bundles -> L!Bundle \union {NoBundle}]
      /\ \A u \in Tasks \ {t} : Pending(changing[u]) =>
           bundles'[changing[u].bundle] = bundles[changing[u].bundle]
      /\ \A b \in Bundles : bundles'[b] # bundles[b] => ~Settled(b)
  BY <1>1, DiscardKeeps
<1>3. JarTypes'
  BY <1>1, <1>2, JarTypesNow DEF JarTypes
<1>4. L!Idle \in L!Task /\ Formed(L!Idle) /\ Backed(L!Idle, bundles', risked')
      /\ Onward(changing[t], L!Idle)
  BY IdleForm DEF Backed, Onward
<1>5. ASSUME NEW n \in JarNames, NEW v \in Versions
      PROVE  /\ live[n] = v \/ disabled[n] = v => Fine(n, v)'
             /\ changing[t].aside[n] # v
  BY <1>1 DEF Fine, L!Empty, L!ConstantsOK
<1> QED BY <1>1, <1>2, <1>3, <1>4, <1>5, MoveKeeps

LEMMA SettingAsideKeeps == ASSUME L!ConstantsOK, JarInv, NEW t \in Tasks, L!SetAside(t) PROVE JarInv'
<1> DEFINE gone == changing[t].retire
           away == L!Only(live, gone)
           k == [changing[t] EXCEPT !.pc = "promote", !.aside = away]
<1>1. /\ changing[t] \in L!Task /\ Formed(changing[t]) /\ changing[t].pc = "aside"
      /\ changing[t].aside = L!Empty /\ Backed(changing[t], bundles, risked)
      /\ L!Set(t, k) /\ live' = L!Without(live, gone) /\ review' \in {review, L!Empty}
      /\ risked' = risked \union (L!Jars(away) \ L!Jars(L!Of(gone, changing[t].sha)))
      /\ UNCHANGED <<disabled, turn, bundles, batches, process, abandoned, owned, asked>>
  BY TaskIn, NothingAside DEF L!SetAside
<1>2. live \in L!Folder /\ away \in L!Folder /\ L!Without(live, gone) \in L!Folder
  BY JarFolders, JarTypesNow DEF JarTypes
<1>3. JarTypes'
  BY <1>1, <1>2, JarsTyped, UniformFolder, JarTypesNow DEF JarTypes
<1>4. k \in L!Task
  BY <1>1, <1>2 DEF L!Task
<1>5. /\ k.pc = "promote" /\ k.op = changing[t].op /\ k.bundle = changing[t].bundle
      /\ k.retire = gone /\ k.sha = changing[t].sha /\ k.aside = away
  BY <1>1 DEF L!Task
<1>6. gone = {} => away = L!Empty
  BY DEF L!Only, L!Empty
<1> HIDE DEF k
<1>7. Formed(k) /\ Onward(changing[t], k)
  BY <1>1, <1>5, <1>6 DEF Formed, Onward, Pending
<1>8. ASSUME NEW n \in JarNames, NEW v \in Versions, away[n] = v, Pending(changing[t]),
             <<n, v>> \notin risked'
      PROVE  /\ bundles[changing[t].bundle].old = n
             /\ bundles[changing[t].bundle].kept = v
  <2>1. n \in gone /\ <<n, v>> \in L!Jars(away)
    BY <1>2, <1>8, RenameMeets DEF L!Only, L!ConstantsOK
  <2>2. v = changing[t].sha
    <3>1. <<n, v>> \in L!Jars(L!Of(gone, changing[t].sha))
      BY <1>1, <1>8, <2>1
    <3> QED BY <2>1, <3>1, JarIn DEF L!Of
  <2> QED BY <1>1, <1>8, <2>1, <2>2 DEF Backed
<1>9. Backed(k, bundles', risked')
  <2> SUFFICES ASSUME Pending(k) PROVE Backed(k, bundles', risked')
    BY DEF Backed
  <2>1. Pending(changing[t])
    BY <1>1, <1>5 DEF Pending
  <2> HIDE DEF away
  <2> QED BY <1>1, <1>5, <1>8, <2>1 DEF Backed
<1>10. ASSUME NEW n \in JarNames, NEW v \in Versions
       PROVE  /\ live[n] = v \/ disabled[n] = v => Fine(n, v)'
              /\ changing[t].aside[n] # v
  <2>1. changing'[t] = k
    BY <1>1 DEF L!Set, JarInv
  <2>2. live[n] = v => L!Without(live, gone)[n] = v \/ away[n] = v
    BY DEF L!Without, L!Only
  <2>3. changing'[t].aside = away /\ live' = L!Without(live, gone)
    BY <1>1, <1>5, <2>1
  <2> HIDE DEF away
  <2> QED BY <1>1, <2>2, <2>3 DEF Fine, L!Empty, L!ConstantsOK
<1> QED BY <1>1, <1>3, <1>4, <1>7, <1>9, <1>10, FoldersKeep

\* A step of a promotion, or of taking one back, in which the files set aside stay there.
LEMMA PromotionKeeps ==
  ASSUME L!ConstantsOK, JarInv, NEW t \in Tasks, L!PromoteOne(t) \/ L!TakeBack(t)
  PROVE  JarInv'
<1>1. /\ changing[t] \in L!Task /\ Formed(changing[t]) /\ changing[t].pc \in {"promote", "withdraw"}
      /\ Backed(changing[t], bundles, risked) /\ live \in L!Folder
      /\ UNCHANGED <<disabled, turn, bundles, batches, review, process, abandoned, asked>>
  BY TaskIn, JarTypesNow DEF L!PromoteOne, L!TakeBack, L!records, JarTypes
<1>2. /\ live' \in L!Folder /\ risked' \subseteq JarNames \X Versions /\ risked \subseteq risked'
      /\ owned' \subseteq JarNames \X Versions
      /\ \A n \in JarNames, v \in Versions : <<n, v>> \in owned' =>
           /\ <<n, v>> \notin owned => live'[n] = v
           /\ live[n] = v => live'[n] = v \/ disabled[n] = v \/ <<n, v>> \in risked'
  <2>1. CASE L!PromoteOne(t)
    <3>1. PICK n \in JarNames :
            /\ live' = L!With(live, L!Only(changing[t].staged, {n}))
            /\ risked' = risked \union L!Covered(live, L!Only(changing[t].staged, {n}))
            /\ owned' = owned \union L!Jars(L!Only(changing[t].staged, {n}))
      BY <2>1 DEF L!PromoteOne, L!Has
    <3> DEFINE jar == L!Only(changing[t].staged, {n})
    <3>2. jar \in L!Folder
      BY <1>1, JarFolders DEF L!Task
    <3> HIDE DEF jar
    <3>3. /\ live' = L!With(live, jar) /\ risked' = risked \union L!Covered(live, jar)
          /\ owned' = owned \union L!Jars(jar)
      BY <3>1 DEF jar
    <3>4. /\ live' \in L!Folder /\ L!Covered(live, jar) \subseteq JarNames \X Versions
          /\ L!Jars(jar) \subseteq JarNames \X Versions
      BY <1>1, <3>2, <3>3, JarFolders, JarsTyped, CoveredTyped
    <3>5. ASSUME NEW m \in JarNames, NEW v \in Versions
          PROVE  /\ live[m] = v => L!With(live, jar)[m] = v \/ <<m, v>> \in L!Covered(live, jar)
                 /\ <<m, v>> \in L!Jars(jar) => L!With(live, jar)[m] = v
      BY <1>1, <3>2, RenameMeets
    <3> QED BY <3>3, <3>4, <3>5, JarTypesNow DEF JarTypes
  <2>2. CASE L!TakeBack(t)
    <3>1. CASE UNCHANGED <<live, owned, risked>>
      BY <1>1, <3>1, JarTypesNow DEF JarTypes
    <3>2. ASSUME NEW n \in changing[t].moved, live' = L!Without(live, {n}),
                 IF live[n] = changing[t].staged[n]
                 THEN owned' = owned \ ({<<n, live[n]>>} \ L!Jars(disabled)) /\ UNCHANGED risked
                 ELSE risked' = risked \union L!Jars(L!Only(live, {n})) /\ UNCHANGED owned
          PROVE  /\ live' \in L!Folder /\ risked' \subseteq JarNames \X Versions
                 /\ risked \subseteq risked' /\ owned' \subseteq JarNames \X Versions
                 /\ \A m \in JarNames, v \in Versions : <<m, v>> \in owned' =>
                      /\ <<m, v>> \notin owned => live'[m] = v
                      /\ live[m] = v => live'[m] = v \/ disabled[m] = v \/ <<m, v>> \in risked'
      <4>1. /\ L!Only(live, {n}) \in L!Folder /\ L!Without(live, {n}) \in L!Folder
            /\ L!Jars(L!Only(live, {n})) \subseteq JarNames \X Versions
        BY <1>1, JarFolders, JarsTyped
      <4>2. \A m \in JarNames, v \in Versions :
              live[m] = v => \/ L!Without(live, {n})[m] = v
                             \/ m = n /\ <<m, v>> \in L!Jars(L!Only(live, {n}))
        <5> SUFFICES ASSUME NEW m \in JarNames, NEW v \in Versions, live[m] = v, m = n
                     PROVE  <<m, v>> \in L!Jars(L!Only(live, {n}))
          BY DEF L!Without
        <5> QED BY JarIn DEF L!Only, L!ConstantsOK
      <4>3. \A m \in JarNames, v \in Versions : <<m, v>> \in L!Jars(disabled) => disabled[m] = v
        BY JarIn
      <4>4. CASE live[n] = changing[t].staged[n]
        BY <3>2, <4>1, <4>2, <4>3, <4>4, JarTypesNow DEF JarTypes
      <4>5. CASE live[n] # changing[t].staged[n]
        BY <3>2, <4>1, <4>2, <4>5, JarTypesNow DEF JarTypes
      <4> QED BY <4>4, <4>5
    <3> QED BY <2>2, <3>1, <3>2 DEF L!TakeBack, L!history
  <2> QED BY <2>1, <2>2
<1>3. JarTypes'
  BY <1>1, <1>2, JarTypesNow DEF JarTypes
<1>4. PICK k \in L!Task : /\ L!Set(t, k) /\ SameHand(changing[t], k) /\ k.pc = changing[t].pc
                          /\ k.aside = changing[t].aside
  <2>1. ASSUME NEW n \in JarNames
        PROVE  LET k == [changing[t] EXCEPT !.moved = @ \union {n}]
               IN k \in L!Task /\ SameHand(changing[t], k) /\ k.pc = changing[t].pc
                  /\ k.aside = changing[t].aside
    BY <1>1 DEF L!Task, SameHand
  <2>2. ASSUME NEW n
        PROVE  LET k == [changing[t] EXCEPT !.moved = @ \ {n}]
               IN k \in L!Task /\ SameHand(changing[t], k) /\ k.pc = changing[t].pc
                  /\ k.aside = changing[t].aside
    BY <1>1 DEF L!Task, SameHand
  <2>3. ASSUME NEW n
        PROVE  LET k == [changing[t] EXCEPT !.moved = @ \ {n}, !.answer = "inspect"]
               IN k \in L!Task /\ SameHand(changing[t], k) /\ k.pc = changing[t].pc
                  /\ k.aside = changing[t].aside
    <3> DEFINE q == [changing[t] EXCEPT !.moved = @ \ {n}]
               k == [changing[t] EXCEPT !.moved = @ \ {n}, !.answer = "inspect"]
    <3>1. k = [q EXCEPT !.answer = "inspect"]
      BY <1>1 DEF L!Task
    <3>2. \A r \in L!Task : [r EXCEPT !.answer = "inspect"] \in L!Task
      BY DEF L!Task
    <3>3. SameHand(changing[t], k) /\ k.pc = changing[t].pc /\ k.aside = changing[t].aside
      BY <1>1 DEF L!Task, SameHand
    <3>4. q \in L!Task
      BY <2>2
    <3> HIDE DEF q
    <3>5. k \in L!Task
      BY <3>1, <3>2, <3>4
    <3> QED BY <3>3, <3>5
  <2>4. CASE L!PromoteOne(t)
    <3>1. PICK n \in JarNames : L!Set(t, [changing[t] EXCEPT !.moved = @ \union {n}])
      BY <2>4 DEF L!PromoteOne, L!Has
    <3> QED BY <2>1, <3>1
  <2>5. CASE L!TakeBack(t)
    <3>1. PICK n \in changing[t].moved :
            \/ L!Set(t, [changing[t] EXCEPT !.moved = @ \ {n}])
            \/ L!Set(t, [changing[t] EXCEPT !.moved = @ \ {n}, !.answer = "inspect"])
      BY <2>5 DEF L!TakeBack
    <3> QED BY <2>2, <2>3, <3>1
  <2> QED BY <2>4, <2>5
<1>5. Formed(k) /\ Onward(changing[t], k)
  BY <1>1, <1>4 DEF Formed, Onward, Pending, SameHand
<1>6. Backed(k, bundles', risked')
  BY <1>1, <1>2, <1>4 DEF Backed, Pending, SameHand
<1>7. changing'[t] = k
  BY <1>4 DEF L!Set, JarInv
<1>8. ASSUME NEW n \in JarNames, NEW v \in Versions, <<n, v>> \in owned'
      PROVE  /\ <<n, v>> \notin owned => Fine(n, v)'
             /\ live[n] = v \/ disabled[n] = v => Fine(n, v)'
             /\ changing[t].aside[n] = v => Fine(n, v)'
  BY <1>1, <1>2, <1>4, <1>7, <1>8 DEF Fine
<1> QED BY <1>1, <1>2, <1>3, <1>4, <1>5, <1>6, <1>8, FoldersKeep

LEMMA PutBackKeeps == ASSUME L!ConstantsOK, JarInv, NEW t \in Tasks, L!PutBack(t) PROVE JarInv'
<1>1. PICK stuck \in SUBSET L!Has(changing[t].aside), a \in {changing[t].answer, "inspect"} :
        LET back == L!Without(changing[t].aside, stuck)
        IN /\ live' = L!With(live, back)
           /\ risked' = risked \union L!Covered(live, back)
                          \union L!Jars(L!Only(changing[t].aside, stuck))
           /\ L!Answers(t, a)
  BY DEF L!PutBack
<1> DEFINE back == L!Without(changing[t].aside, stuck)
           lost == L!Only(changing[t].aside, stuck)
           k == [changing[t] EXCEPT !.pc = "answer", !.answer = a, !.aside = L!Empty]
<1>2. /\ changing[t] \in L!Task /\ Formed(changing[t]) /\ changing[t].pc = "withdraw"
      /\ bundles' = L!Discarded(changing[t].bundle) /\ L!Set(t, k) /\ turn' \in {turn, NoTask}
      /\ UNCHANGED <<disabled, batches, review, process, abandoned, owned, asked>>
  BY <1>1, TaskIn DEF L!PutBack, L!Answers, L!Leaves
<1>3. /\ live \in L!Folder /\ back \in L!Folder /\ lost \in L!Folder
      /\ changing[t].aside \in L!Folder
  BY <1>2, JarFolders, JarTypesNow DEF L!Task, JarTypes
<1>4. a \in Verdicts
  BY <1>1, Given DEF Verdicts
<1>5. k \in L!Task /\ SameHand(changing[t], k) /\ k.pc = "answer" /\ k.aside = L!Empty
  <2>1. k.pc = "answer" /\ k.aside = L!Empty
    BY <1>2 DEF L!Task
  <2> QED BY <1>2, <1>4, <2>1, OneStep DEF Onwards
<1>6. live' = L!With(live, back) /\ risked' = (risked \union L!Covered(live, back)) \union L!Jars(lost)
  BY <1>1
<1>7. ASSUME NEW n \in JarNames, NEW v \in Versions, changing[t].aside[n] = v
      PROVE  back[n] = v \/ lost[n] = v
  BY <1>7 DEF L!Without, L!Only
<1> HIDE DEF back, lost, k
<1>8. /\ bundles' \in [Bundles -> L!Bundle \union {NoBundle}]
      /\ \A u \in Tasks \ {t} : Pending(changing[u]) =>
           bundles'[changing[u].bundle] = bundles[changing[u].bundle]
      /\ \A b \in Bundles : bundles'[b] # bundles[b] => ~Settled(b)
  BY <1>2, DiscardKeeps
<1>9. JarTypes'
  <2>1. live' \in L!Folder /\ risked' \subseteq JarNames \X Versions
    BY <1>3, <1>6, JarFolders, JarsTyped, CoveredTyped, JarTypesNow DEF JarTypes
  <2> QED BY <1>2, <1>8, <2>1, JarTypesNow DEF JarTypes
<1>10. Formed(k) /\ Backed(k, bundles', risked')
  BY <1>2, <1>5 DEF Formed, Backed, Pending, SameHand
<1>11. k.bundle = changing[t].bundle /\ k.op = changing[t].op /\ ~Pending(k)
  BY <1>5 DEF SameHand, Pending
<1>12. ASSUME NEW n \in JarNames, NEW v \in Versions
       PROVE  /\ live[n] = v \/ disabled[n] = v => Fine(n, v)'
              /\ changing[t].aside[n] = v => Fine(n, v)'
  <2>1. /\ live[n] = v => live'[n] = v \/ <<n, v>> \in risked'
        /\ back[n] = v => live'[n] = v
        /\ lost[n] = v => <<n, v>> \in risked'
    BY <1>3, <1>6, RenameMeets
  <2> QED BY <1>2, <1>7, <2>1 DEF Fine
<1>13. risked \subseteq risked'
  BY <1>6
<1>14. k.op = "update" => changing[t].op = "update"
  BY <1>11
<1>15. \/ Onward(changing[t], k)
       \/ k.bundle \in Bundles /\ bundles[k.bundle] = NoBundle
          /\ \A u \in Tasks : changing[u].bundle # k.bundle
  BY <1>11 DEF Onward
<1> QED BY <1>2, <1>5, <1>8, <1>9, <1>10, <1>12, <1>13, <1>15, MoveKeeps

LEMMA CleanKeeps == ASSUME L!ConstantsOK, JarInv, NEW t \in Tasks, L!Clean(t) PROVE JarInv'
<1>1. /\ changing[t] \in L!Task /\ Formed(changing[t]) /\ changing[t].pc = "promote"
      /\ Backed(changing[t], bundles, risked) /\ changing[t].aside \in L!Folder
      /\ UNCHANGED <<live, disabled, batches, review, process, owned, asked>>
  BY TaskIn DEF L!Clean, L!folders, L!Task
<1>2. CASE /\ L!Set(t, [changing[t] EXCEPT !.pc = "commit", !.aside = L!Empty])
           /\ UNCHANGED <<turn, bundles, abandoned, risked>>
  <2> DEFINE k == [changing[t] EXCEPT !.pc = "commit", !.aside = L!Empty]
  <2>1. k \in L!Task
    BY <1>1, UniformFolder DEF L!Task
  <2>2. SameHand(changing[t], k) /\ k.pc = "commit" /\ k.aside = L!Empty
    BY <1>1 DEF L!Task, SameHand
  <2>3. L!Set(t, k)
    BY <1>2
  <2> HIDE DEF k
  <2>4. JarTypes'
    BY <1>1, <1>2, JarTypesNow DEF JarTypes
  <2>5. Formed(k) /\ Backed(k, bundles', risked') /\ ~Pending(k)
    BY <1>1, <2>2 DEF Formed, Backed, Pending, SameHand
  <2>6. ASSUME NEW u \in Tasks \ {t}, Pending(changing[t])
        PROVE  ~(Pending(changing[u]) /\ changing[u].bundle = changing[t].bundle)
    BY <1>1, <2>6 DEF JarInv, Alone, Pending, Formed
  <2>7. changing'[t] = k /\ \A u \in Tasks \ {t} : changing'[u] = changing[u]
    BY <2>3 DEF L!Set, JarInv
  <2>8. ASSUME NEW n \in JarNames, NEW v \in Versions, changing[t].aside[n] = v
        PROVE  Fine(n, v)'
    <3>1. PICK b \in Bundles : Pending(changing[t]) /\ changing[t].bundle = b
      BY <1>1, <2>8 DEF Formed, L!Empty, L!ConstantsOK
    <3>2. CASE <<n, v>> \in risked
      BY <1>2, <3>2 DEF Fine
    <3>3. CASE bundles[b].old = n /\ bundles[b].kept = v
      <4>1. Settled(b)'
        <5> SUFFICES ASSUME NEW u \in Tasks, Pending(changing'[u]), changing'[u].bundle = b
                     PROVE  FALSE
          BY DEF Settled, Pending
        <5> QED BY <2>5, <2>6, <2>7, <3>1
      <4>2. HasJar(b, n, v)'
        BY <1>1, <1>2, <3>1, <3>3 DEF HasJar, Backed
      <4> QED BY <3>1, <4>1, <4>2 DEF Fine
    <3> QED BY <1>1, <2>8, <3>1, <3>2, <3>3 DEF Backed
  <2>9. Onward(changing[t], k)
    BY <2>2, <2>5 DEF Onward, SameHand
  <2>10. ASSUME NEW n \in JarNames, NEW v \in Versions, live[n] = v \/ disabled[n] = v
         PROVE  Fine(n, v)'
    BY <1>1, <2>10 DEF Fine
  <2> QED BY <1>1, <1>2, <2>1, <2>3, <2>4, <2>5, <2>8, <2>9, <2>10, FoldersKeep
<1>3. CASE /\ L!Answers(t, "failed")
           /\ bundles' = L!Discarded(changing[t].bundle)
           /\ abandoned' \in {abandoned, abandoned \union L!Jars(changing[t].aside)}
           /\ risked' = risked \union L!Jars(changing[t].aside)
  <2> DEFINE k == [changing[t] EXCEPT !.pc = "answer", !.answer = "failed", !.aside = L!Empty]
  <2>1. L!Set(t, k) /\ turn' \in {turn, NoTask}
    BY <1>3 DEF L!Answers, L!Leaves
  <2>2. k \in L!Task /\ SameHand(changing[t], k) /\ k.pc = "answer" /\ k.aside = L!Empty
    <3>1. k.pc = "answer" /\ k.aside = L!Empty
      BY <1>1 DEF L!Task
    <3> QED BY <1>1, <3>1, OneStep DEF Onwards, Verdicts
  <2> HIDE DEF k
  <2>3. /\ bundles' \in [Bundles -> L!Bundle \union {NoBundle}]
        /\ \A u \in Tasks \ {t} : Pending(changing[u]) =>
             bundles'[changing[u].bundle] = bundles[changing[u].bundle]
        /\ \A b \in Bundles : bundles'[b] # bundles[b] => ~Settled(b)
    BY <1>1, <1>3, DiscardKeeps
  <2>4. JarTypes'
    BY <1>1, <1>3, <2>1, <2>3, JarsTyped, JarTypesNow DEF JarTypes
  <2>5. Formed(k) /\ Backed(k, bundles', risked') /\ ~Pending(k)
    BY <1>1, <2>2 DEF Formed, Backed, Pending, SameHand
  <2>6. Onward(changing[t], k)
    BY <2>2, <2>5 DEF Onward, SameHand
  <2>7. ASSUME NEW n \in JarNames, NEW v \in Versions
        PROVE  /\ live[n] = v \/ disabled[n] = v => Fine(n, v)'
               /\ changing[t].aside[n] = v => Fine(n, v)'
    BY <1>1, <1>3, RenameMeets DEF Fine
  <2>8. risked \subseteq risked' /\ abandoned \subseteq abandoned'
    BY <1>3
  <2> QED BY <1>1, <2>1, <2>2, <2>3, <2>4, <2>5, <2>6, <2>7, <2>8, MoveKeeps
<1> QED BY <1>2, <1>3 DEF L!Clean

-----------------------------------------------------------------------------
(* The steps of an undo.                                                   *)

\* The recovery copy an undo works on.
LEMMA OwnCopy ==
  ASSUME L!ConstantsOK, JarInv, NEW t \in Tasks, L!There(t)
  PROVE  \E b \in Bundles : /\ changing[t].bundle = b /\ bundles[b] # NoBundle
                            /\ bundles[b] \in L!Bundle /\ bundles[b].old \in JarNames
                            /\ bundles[b].displaced \in L!Folder
                            /\ bundles[b].kept \in Versions \union {NoJar}
BY JarTypesNow DEF L!There, JarTypes, L!Bundle

\* An undo changes its recovery copy, and what it moves into or out of one that
\* an update may discard is at risk.
Contains(c, n, v) == c.displaced[n] = v \/ (c.old = n /\ c.kept = v)

LEMMA UndoKeeps ==
  ASSUME L!ConstantsOK, JarInv, NEW t \in Tasks, NEW k \in L!Task, L!Set(t, k), JarTypes',
         SameHand(changing[t], k), k.pc \in Onwards \union {"answer"},
         changing[t].pc \in {"claim", "displace", "restore", "record", "reinstate", "return"},
         NEW b \in Bundles, changing[t].bundle = b,
         NEW c \in L!Bundle, bundles' = [bundles EXCEPT ![b] = c], c.old = bundles[b].old,
         \/ c.kept = bundles[b].kept \/ bundles[b].kept = NoJar
         \/ Settled(b) \/ <<bundles[b].old, bundles[b].kept>> \in risked',
         risked \subseteq risked', UNCHANGED <<disabled, abandoned>>,
         \A n \in JarNames, v \in Versions : <<n, v>> \in owned' =>
           /\ <<n, v>> \notin owned => live'[n] = v
           /\ live[n] = v =>
                live'[n] = v \/ <<n, v>> \in risked' \/ (Settled(b) /\ Contains(c, n, v))
           /\ Settled(b) /\ HasJar(b, n, v) =>
                live'[n] = v \/ <<n, v>> \in risked' \/ Contains(c, n, v)
  PROVE  JarInv'
<1>1. /\ changing[t].aside = L!Empty /\ Formed(changing[t]) /\ c # NoBundle
      /\ bundles \in [Bundles -> L!Bundle \union {NoBundle}]
  BY NothingAside, TaskIn, JarTypesNow DEF JarTypes, L!ConstantsOK
<1>2. /\ ~Pending(k) /\ ~Pending(changing[t]) /\ k.aside = L!Empty
      /\ k.pc \notin {"resolve", "prepare", "download", "aside", "promote", "withdraw"}
  BY <1>1 DEF Pending, SameHand, Onwards
<1>3. Formed(k) /\ Onward(changing[t], k) /\ Backed(k, bundles', risked')
  BY <1>1, <1>2 DEF Formed, Onward, Backed, SameHand, Pending
<1>4. bundles'[b] = c /\ \A d \in Bundles \ {b} : bundles'[d] = bundles[d]
  BY <1>1
<1>5. Settled(b) => Settled(b)'
  BY <1>2, StaysSettled
<1>6. ASSUME NEW n \in JarNames, NEW v \in Versions, Settled(b), Contains(c, n, v) PROVE Fine(n, v)'
  <2>1. HasJar(b, n, v)'
    BY <1>1, <1>4, <1>6 DEF HasJar, Contains
  <2> QED BY <1>5, <1>6, <2>1 DEF Fine
<1>7. ASSUME NEW n \in JarNames, NEW v \in Versions,
             live'[n] = v \/ disabled'[n] = v \/ <<n, v>> \in risked'
      PROVE  Fine(n, v)'
  BY <1>7 DEF Fine
<1>8. ASSUME NEW n \in JarNames, NEW v \in Versions, <<n, v>> \in owned'
      PROVE  /\ <<n, v>> \notin owned => Fine(n, v)'
             /\ live[n] = v \/ disabled[n] = v => Fine(n, v)'
             /\ changing[t].aside[n] # v
             /\ \A d \in Bundles : Settled(d) /\ HasJar(d, n, v) /\ bundles'[d] # bundles[d]
                                   => Fine(n, v)'
  BY <1>1, <1>4, <1>6, <1>7, <1>8 DEF L!Empty, L!ConstantsOK
<1>9. ASSUME NEW u \in Tasks \ {t}, Pending(changing[u])
      PROVE  LET e == bundles[changing[u].bundle]
                 d == bundles'[changing[u].bundle]
             IN d = e \/ (d # NoBundle /\ d.old = e.old
                          /\ (d.kept = e.kept \/ e.kept = NoJar \/ <<e.old, e.kept>> \in risked'))
  <2>1. changing[u].bundle \in Bundles
    BY <1>9, TaskIn DEF Formed
  <2>2. CASE changing[u].bundle # b
    BY <1>4, <2>1, <2>2
  <2>3. CASE changing[u].bundle = b
    <3>1. ~Settled(b)
      BY <1>9, <2>3 DEF Settled
    <3> QED BY <1>1, <1>4, <2>3, <3>1
  <2> QED BY <2>2, <2>3
<1> QED BY <1>3, <1>8, <1>9, MoveKeeps

LEMMA ClaimKeeps ==
  ASSUME L!ConstantsOK, JarInv, NEW t \in Tasks, L!Claim(t) \/ L!Record(t) PROVE JarInv'
<1>1. PICK b \in Bundles :
        /\ changing[t].bundle = b /\ bundles[b] # NoBundle /\ bundles[b] \in L!Bundle
  BY OwnCopy DEF L!Claim, L!Record
<1>2. /\ changing[t] \in L!Task /\ changing[t].pc \in {"claim", "record"}
      /\ UNCHANGED <<live, disabled, review, process, abandoned, owned, risked, asked>>
      /\ batches' \subseteq batches /\ turn' \in {turn, NoTask}
  BY TaskIn DEF L!Claim, L!Record, L!folders, L!history, L!Forgotten, L!Answers, L!Leaves
<1>3. PICK c \in L!Bundle : /\ bundles' = [bundles EXCEPT ![b] = c] /\ c.old = bundles[b].old
                           /\ c.kept = bundles[b].kept /\ c.displaced = bundles[b].displaced
  <2>1. /\ [bundles[b] EXCEPT !.stuck = TRUE] \in L!Bundle
        /\ [bundles[b] EXCEPT !.used = TRUE] \in L!Bundle
    BY <1>1 DEF L!Bundle
  <2>2. \/ bundles' = [bundles EXCEPT ![b] = [bundles[b] EXCEPT !.stuck = TRUE]]
        \/ bundles' = [bundles EXCEPT ![b] = [bundles[b] EXCEPT !.used = TRUE]]
    BY <1>1 DEF L!Claim, L!Record, L!Keeps, L!Kept
  <2> QED BY <1>1, <2>1, <2>2 DEF L!Bundle
<1>4. PICK k \in L!Task : L!Set(t, k) /\ SameHand(changing[t], k) /\ k.pc \in Onwards \union {"answer"}
  <2>1. CASE L!Claim(t)
    <3>1. L!Set(t, [changing[t] EXCEPT !.pc = "displace"])
      BY <2>1 DEF L!Claim
    <3>2. [changing[t] EXCEPT !.pc = "displace"].pc = "displace"
      BY <1>2 DEF L!Task
    <3> QED BY <1>2, <3>1, <3>2, OneStep DEF Onwards, Verdicts
  <2>2. CASE L!Record(t)
    <3>1. PICK a \in Verdicts :
            L!Set(t, [changing[t] EXCEPT !.pc = "answer", !.answer = a, !.aside = L!Empty])
      BY <2>2 DEF L!Record, L!Answers, Verdicts
    <3>2. [changing[t] EXCEPT !.pc = "answer", !.answer = a, !.aside = L!Empty].pc = "answer"
      BY <1>2 DEF L!Task
    <3> QED BY <1>2, <3>1, <3>2, OneStep DEF Onwards
  <2> QED BY <2>1, <2>2
<1>5. JarTypes'
  <2>1. bundles' \in [Bundles -> L!Bundle \union {NoBundle}]
    BY <1>3, JarTypesNow DEF JarTypes
  <2> QED BY <1>2, <2>1, JarTypesNow DEF JarTypes
<1>6. ASSUME NEW n \in JarNames, NEW v \in Versions, <<n, v>> \in owned'
      PROVE  /\ <<n, v>> \in owned
             /\ live[n] = v => live'[n] = v
             /\ HasJar(b, n, v) => Contains(c, n, v)
  BY <1>2, <1>3, <1>6 DEF HasJar, Contains
<1> QED BY <1>1, <1>2, <1>3, <1>4, <1>5, <1>6, UndoKeeps

\* A recovery copy an update may discard is unsettled in the model's words as well.
LEMMA AtStakeOr ==
  ASSUME JarInv, NEW t \in Tasks, NEW b \in Bundles, changing[t].bundle = b, NEW jars0
  PROVE  Settled(b) \/ L!AtStake(t, jars0) = jars0
BY DEF Settled, Pending, L!AtStake, L!Unsettled

LEMMA AtStakeIn ==
  ASSUME NEW t \in Tasks, NEW jars0
  PROVE  L!AtStake(t, jars0) \subseteq jars0
BY DEF L!AtStake

LEMMA DisplaceKeeps == ASSUME L!ConstantsOK, JarInv, NEW t \in Tasks, L!Displace(t) PROVE JarInv'
<1>1. PICK b \in Bundles :
        /\ changing[t].bundle = b /\ bundles[b] # NoBundle /\ bundles[b] \in L!Bundle
        /\ bundles[b].displaced \in L!Folder
  BY OwnCopy DEF L!Displace
<1>2. PICK n \in JarNames :
        LET jar == L!Only(live, {n})
        IN /\ live' = L!Without(live, {n})
           /\ L!Keeps(t, [L!Kept(t) EXCEPT !.displaced = L!With(@, jar)])
           /\ L!Set(t, [changing[t] EXCEPT !.moved = @ \union {n}])
           /\ risked' = risked \union L!Covered(L!Kept(t).displaced, jar)
                          \union L!AtStake(t, L!Jars(jar))
  BY DEF L!Displace, L!Has
<1> DEFINE jar == L!Only(live, {n})
           c == [bundles[b] EXCEPT !.displaced = L!With(@, jar)]
           k == [changing[t] EXCEPT !.moved = @ \union {n}]
<1>3. /\ changing[t] \in L!Task /\ changing[t].pc = "displace" /\ live \in L!Folder
      /\ UNCHANGED <<disabled, turn, batches, review, process, abandoned, owned, asked>>
  BY TaskIn, JarTypesNow DEF L!Displace, JarTypes
<1>4. jar \in L!Folder /\ L!With(bundles[b].displaced, jar) \in L!Folder
      /\ L!Without(live, {n}) \in L!Folder
  BY <1>1, <1>3, JarFolders
<1>5. c \in L!Bundle /\ c.old = bundles[b].old /\ c.kept = bundles[b].kept
      /\ c.displaced = L!With(bundles[b].displaced, jar)
  BY <1>1, <1>4 DEF L!Bundle
<1>6. k \in L!Task /\ SameHand(changing[t], k) /\ k.pc = "displace"
  BY <1>3 DEF L!Task, SameHand
<1>7. /\ L!Set(t, k) /\ bundles' = [bundles EXCEPT ![b] = c] /\ live' = L!Without(live, {n})
      /\ risked' = (risked \union L!Covered(bundles[b].displaced, jar))
                     \union L!AtStake(t, L!Jars(jar))
  BY <1>1, <1>2 DEF L!Keeps, L!Kept
<1>8. \A m \in JarNames, v \in Versions : live[m] = v => L!Without(live, {n})[m] = v \/ jar[m] = v
  BY DEF L!Without, L!Only
<1> HIDE DEF jar, c, k
<1>9. JarTypes'
  <2>1. bundles' \in [Bundles -> L!Bundle \union {NoBundle}]
    BY <1>5, <1>7, JarTypesNow DEF JarTypes
  <2>2. risked' \subseteq JarNames \X Versions
    BY <1>1, <1>4, <1>7, JarsTyped, CoveredTyped, AtStakeIn, JarTypesNow DEF JarTypes
  <2> QED BY <1>3, <1>4, <1>7, <2>1, <2>2, JarTypesNow DEF JarTypes
<1>10. ASSUME NEW m \in JarNames, NEW v \in Versions
       PROVE  /\ live[m] = v =>
                   live'[m] = v \/ <<m, v>> \in risked' \/ (Settled(b) /\ Contains(c, m, v))
              /\ Settled(b) /\ HasJar(b, m, v) => <<m, v>> \in risked' \/ Contains(c, m, v)
  <2>1. jar[m] = v => c.displaced[m] = v /\ <<m, v>> \in L!Jars(jar)
    BY <1>1, <1>4, <1>5, RenameMeets
  <2>2. bundles[b].displaced[m] = v =>
          c.displaced[m] = v \/ <<m, v>> \in L!Covered(bundles[b].displaced, jar)
    BY <1>1, <1>4, <1>5, RenameMeets
  <2>3. Settled(b) \/ L!AtStake(t, L!Jars(jar)) = L!Jars(jar)
    BY <1>1, AtStakeOr
  <2> QED BY <1>5, <1>7, <1>8, <2>1, <2>2, <2>3 DEF HasJar, Contains
<1>11. risked \subseteq risked' /\ owned' = owned
  BY <1>3, <1>7
<1>12. k.pc \in Onwards
  BY <1>6 DEF Onwards
<1> QED BY <1>1, <1>3, <1>5, <1>6, <1>7, <1>9, <1>10, <1>11, <1>12, UndoKeeps

LEMMA RestoreOldKeeps == ASSUME L!ConstantsOK, JarInv, NEW t \in Tasks, L!RestoreOld(t) PROVE JarInv'
<1>1. PICK b \in Bundles :
        /\ changing[t].bundle = b /\ bundles[b] # NoBundle /\ bundles[b] \in L!Bundle
        /\ bundles[b].old \in JarNames /\ bundles[b].kept \in Versions \union {NoJar}
  BY OwnCopy DEF L!RestoreOld
<1> DEFINE jar == L!Of({bundles[b].old}, bundles[b].kept)
           c == [bundles[b] EXCEPT !.kept = NoJar]
           k == [changing[t] EXCEPT !.pc = "record"]
<1>2. /\ changing[t] \in L!Task /\ changing[t].pc = "restore" /\ live \in L!Folder
      /\ UNCHANGED <<disabled, turn, batches, review, process, abandoned, asked>>
  BY TaskIn, JarTypesNow DEF L!RestoreOld, JarTypes
<1>3. jar \in L!Folder
  BY <1>1, UniformFolder
<1>4. c \in L!Bundle /\ c.old = bundles[b].old /\ c.displaced = bundles[b].displaced
  BY <1>1 DEF L!Bundle
<1>5. k \in L!Task /\ SameHand(changing[t], k) /\ k.pc \in Onwards
  <2>1. k.pc = "record"
    BY <1>2 DEF L!Task
  <2> QED BY <1>2, <2>1, OneStep DEF Onwards, Verdicts
<1>6. /\ L!Set(t, k) /\ bundles' = [bundles EXCEPT ![b] = c] /\ live' = L!With(live, jar)
      /\ risked' = (risked \union L!Covered(live, jar)) \union L!AtStake(t, L!Jars(jar))
      /\ owned' = owned \union L!Jars(jar)
  BY <1>1 DEF L!RestoreOld, L!Keeps, L!Kept
<1>7. \A m \in JarNames, v \in Versions :
        jar[m] = v <=> m = bundles[b].old /\ v = bundles[b].kept
  BY DEF L!Of, L!ConstantsOK
<1> HIDE DEF jar, c, k
<1>8. JarTypes'
  <2>1. bundles' \in [Bundles -> L!Bundle \union {NoBundle}]
    BY <1>4, <1>6, JarTypesNow DEF JarTypes
  <2>2. /\ risked' \subseteq JarNames \X Versions /\ owned' \subseteq JarNames \X Versions
        /\ live' \in L!Folder
    BY <1>2, <1>3, <1>6, JarFolders, JarsTyped, CoveredTyped, AtStakeIn, JarTypesNow DEF JarTypes
  <2> QED BY <1>2, <2>1, <2>2, JarTypesNow DEF JarTypes
<1>9. ASSUME NEW m \in JarNames, NEW v \in Versions
      PROVE  /\ live[m] = v => live'[m] = v \/ <<m, v>> \in risked'
             /\ jar[m] = v => live'[m] = v
             /\ jar[m] = v <=> <<m, v>> \in L!Jars(jar)
             /\ HasJar(b, m, v) => live'[m] = v \/ Contains(c, m, v)
  <2>1. /\ live[m] = v => live'[m] = v \/ <<m, v>> \in L!Covered(live, jar)
        /\ jar[m] = v => live'[m] = v
        /\ jar[m] = v <=> <<m, v>> \in L!Jars(jar)
    BY <1>2, <1>3, <1>6, RenameMeets
  <2> QED BY <1>4, <1>6, <1>7, <2>1 DEF HasJar, Contains
<1>10. Settled(b) \/ bundles[b].kept = NoJar \/ <<bundles[b].old, bundles[b].kept>> \in risked'
  <2> SUFFICES ASSUME ~Settled(b), bundles[b].kept # NoJar
               PROVE  <<bundles[b].old, bundles[b].kept>> \in risked'
    OBVIOUS
  <2>1. L!AtStake(t, L!Jars(jar)) = L!Jars(jar)
    BY <1>1, AtStakeOr
  <2>2. <<bundles[b].old, bundles[b].kept>> \in L!Jars(jar)
    BY <1>1, <1>7, <1>9
  <2> QED BY <1>6, <2>1, <2>2
<1>11. risked \subseteq risked'
  BY <1>6
<1>12. \A m \in JarNames, v \in Versions : <<m, v>> \in owned' /\ <<m, v>> \notin owned => live'[m] = v
  BY <1>6, <1>9
<1> QED BY <1>1, <1>2, <1>4, <1>5, <1>6, <1>8, <1>9, <1>10, <1>11, <1>12, UndoKeeps

LEMMA ReturnOldKeeps == ASSUME L!ConstantsOK, JarInv, NEW t \in Tasks, L!ReturnOld(t) PROVE JarInv'
<1>1. /\ changing[t] \in L!Task /\ changing[t].pc = "reinstate" /\ live \in L!Folder
      /\ UNCHANGED <<disabled, batches, review, process, abandoned, owned, asked>>
      /\ turn' \in {turn, NoTask}
  BY TaskIn, JarTypesNow DEF L!ReturnOld, L!Answers, L!Leaves, JarTypes
<1>2. /\ [changing[t] EXCEPT !.pc = "return"].pc = "return"
      /\ [changing[t] EXCEPT !.pc = "return"] \in L!Task
      /\ SameHand(changing[t], [changing[t] EXCEPT !.pc = "return"])
  <2>1. [changing[t] EXCEPT !.pc = "return"].pc = "return"
    BY <1>1 DEF L!Task
  <2> QED BY <1>1, <2>1, OneStep DEF Onwards, Verdicts
<1>3. CASE UNCHANGED <<live, bundles, risked>>
  <2>1. JarTypes'
    BY <1>1, <1>3, JarTypesNow DEF JarTypes
  <2>2. \/ L!Set(t, [changing[t] EXCEPT !.pc = "return"])
        \/ L!Set(t, [changing[t] EXCEPT !.pc = "answer", !.answer = "inspect", !.aside = L!Empty])
    BY DEF L!ReturnOld, L!Answers
  <2> QED BY <1>1, <1>3, <2>1, <2>2, GoesTo DEF Onwards, Verdicts
<1>4. CASE L!OldIsOut(t) /\ L!There(t) /\ L!Set(t, [changing[t] EXCEPT !.pc = "return"])
           /\ \E e \in changing[t].retire \intersect {L!Kept(t).old} :
                /\ live' = L!Without(live, {e})
                /\ L!Keeps(t, [L!Kept(t) EXCEPT !.kept = live[e]])
                /\ risked' = risked \union L!AtStake(t, {<<e, live[e]>>})
  <2>1. PICK b \in Bundles :
          /\ changing[t].bundle = b /\ bundles[b] # NoBundle /\ bundles[b] \in L!Bundle
          /\ bundles[b].old \in JarNames
    BY <1>4, OwnCopy
  <2> DEFINE e == bundles[b].old
             c == [bundles[b] EXCEPT !.kept = live[e]]
             k == [changing[t] EXCEPT !.pc = "return"]
  <2>2. /\ bundles[b].kept = NoJar /\ live[e] \in Versions
        /\ live' = L!Without(live, {e}) /\ bundles' = [bundles EXCEPT ![b] = c]
        /\ risked' = risked \union L!AtStake(t, {<<e, live[e]>>})
    BY <1>1, <1>4, <2>1 DEF L!OldIsOut, L!Kept, L!Keeps, L!Has, L!Folder
  <2>3. c \in L!Bundle /\ c.old = e /\ c.kept = live[e] /\ c.displaced = bundles[b].displaced
    BY <2>1, <2>2 DEF L!Bundle
  <2>4. L!Set(t, k) /\ k \in L!Task /\ SameHand(changing[t], k) /\ k.pc \in Onwards
    BY <1>2, <1>4 DEF Onwards
  <2> HIDE DEF k
  <2>5. JarTypes'
    <3>1. bundles' \in [Bundles -> L!Bundle \union {NoBundle}]
      BY <2>2, <2>3, JarTypesNow DEF JarTypes
    <3>2. risked' \subseteq JarNames \X Versions
      BY <2>1, <2>2, AtStakeIn, JarTypesNow DEF JarTypes
    <3>3. live' \in L!Folder
      BY <1>1, <2>2, JarFolders
    <3> QED BY <1>1, <3>1, <3>2, <3>3, JarTypesNow DEF JarTypes
  <2> HIDE DEF c
  <2>6. ASSUME NEW m \in JarNames, NEW v \in Versions
        PROVE  /\ live[m] = v =>
                    live'[m] = v \/ <<m, v>> \in risked' \/ (Settled(b) /\ Contains(c, m, v))
               /\ HasJar(b, m, v) => Contains(c, m, v)
    <3>1. Settled(b) \/ L!AtStake(t, {<<e, live[e]>>}) = {<<e, live[e]>>}
      BY <2>1, AtStakeOr
    <3>2. live[m] = v => live'[m] = v \/ m = e
      BY <2>2 DEF L!Without
    <3> QED BY <2>2, <2>3, <3>1, <3>2 DEF HasJar, Contains, L!ConstantsOK
  <2>7. risked \subseteq risked'
    BY <2>2
  <2> QED BY <1>1, <2>1, <2>2, <2>3, <2>4, <2>5, <2>6, <2>7, UndoKeeps
<1> QED BY <1>3, <1>4 DEF L!ReturnOld

LEMMA ReturnOneKeeps == ASSUME L!ConstantsOK, JarInv, NEW t \in Tasks, L!ReturnOne(t) PROVE JarInv'
<1>1. /\ changing[t] \in L!Task /\ changing[t].pc = "return" /\ live \in L!Folder
      /\ UNCHANGED <<disabled, batches, review, process, abandoned, owned, asked>>
      /\ turn' \in {turn, NoTask}
  BY TaskIn, JarTypesNow DEF L!ReturnOne, L!Answers, L!Leaves, JarTypes
<1>2. CASE L!Answers(t, "inspect") /\ UNCHANGED <<live, bundles, risked>>
  <2>1. JarTypes'
    BY <1>1, <1>2, JarTypesNow DEF JarTypes
  <2> QED BY <1>1, <1>2, <2>1, GoesTo DEF L!Answers, Onwards, Verdicts
<1>3. ASSUME NEW n \in changing[t].moved, L!There(t), n \in L!Has(L!Kept(t).displaced),
             LET jar == L!Only(L!Kept(t).displaced, {n})
             IN live' = L!With(live, jar) /\ risked' = risked \union L!Covered(live, jar),
             L!Keeps(t, [L!Kept(t) EXCEPT !.displaced = L!Without(@, {n})]),
             L!Set(t, [changing[t] EXCEPT !.moved = @ \ {n}])
      PROVE  JarInv'
  <2>1. PICK b \in Bundles :
          /\ changing[t].bundle = b /\ bundles[b] # NoBundle /\ bundles[b] \in L!Bundle
          /\ bundles[b].displaced \in L!Folder
    BY <1>3, OwnCopy
  <2> DEFINE from == bundles[b].displaced
             jar == L!Only(from, {n})
             c == [bundles[b] EXCEPT !.displaced = L!Without(@, {n})]
             k == [changing[t] EXCEPT !.moved = @ \ {n}]
  <2>2. /\ bundles' = [bundles EXCEPT ![b] = c] /\ L!Set(t, k)
        /\ live' = L!With(live, jar) /\ risked' = risked \union L!Covered(live, jar)
    BY <1>3, <2>1 DEF L!Kept, L!Keeps
  <2>3. jar \in L!Folder /\ L!Without(from, {n}) \in L!Folder
    BY <2>1, JarFolders
  <2>4. /\ c \in L!Bundle /\ c.old = bundles[b].old /\ c.kept = bundles[b].kept
        /\ c.displaced = L!Without(from, {n})
    BY <2>1, <2>3 DEF L!Bundle
  <2>5. k \in L!Task /\ SameHand(changing[t], k) /\ k.pc = "return"
    BY <1>1 DEF L!Task, SameHand
  <2>6. \A m \in JarNames, v \in Versions : from[m] = v => L!Without(from, {n})[m] = v \/ jar[m] = v
    BY DEF L!Without, L!Only
  <2> HIDE DEF from, jar, c, k
  <2>7. JarTypes'
    <3>1. bundles' \in [Bundles -> L!Bundle \union {NoBundle}]
      BY <2>2, <2>4, JarTypesNow DEF JarTypes
    <3>2. live' \in L!Folder /\ risked' \subseteq JarNames \X Versions
      BY <1>1, <2>2, <2>3, JarFolders, CoveredTyped, JarTypesNow DEF JarTypes
    <3> QED BY <1>1, <3>1, <3>2, JarTypesNow DEF JarTypes
  <2>8. ASSUME NEW m \in JarNames, NEW v \in Versions
        PROVE  /\ live[m] = v => live'[m] = v \/ <<m, v>> \in risked'
               /\ HasJar(b, m, v) => live'[m] = v \/ Contains(c, m, v)
    <3>1. /\ live[m] = v => live'[m] = v \/ <<m, v>> \in L!Covered(live, jar)
          /\ jar[m] = v => live'[m] = v
      BY <1>1, <2>2, <2>3, RenameMeets
    <3> QED BY <2>2, <2>4, <2>6, <3>1 DEF HasJar, Contains, from
  <2>9. risked \subseteq risked' /\ owned' = owned /\ k.pc \in Onwards
    BY <1>1, <2>2, <2>5 DEF Onwards
  <2> QED BY <1>1, <2>1, <2>2, <2>4, <2>5, <2>7, <2>8, <2>9, UndoKeeps
<1> QED BY <1>2, <1>3 DEF L!ReturnOne

-----------------------------------------------------------------------------
(* Every step.                                                             *)

LEMMA OthersKeepJars ==
  ASSUME L!ConstantsOK, JarInv,
         \/ L!Remove \/ L!ImportReview \/ L!ImportCancel \/ L!OwnerStarts \/ L!ServerReady
         \/ L!ServerStops
  PROVE  JarInv'
<1>1. CASE L!Remove
  <2>1. PICK n \in JarNames :
          \/ /\ n \in L!Has(live) /\ live' = L!Without(live, {n}) /\ UNCHANGED disabled
             /\ owned' = owned \ ({<<n, live[n]>>} \ L!Jars(disabled))
          \/ /\ n \in L!Has(disabled) /\ disabled' = L!Without(disabled, {n}) /\ UNCHANGED live
             /\ owned' = owned \ ({<<n, disabled[n]>>} \ L!Jars(live))
    BY <1>1 DEF L!Remove
  <2>2. live' \in L!Folder /\ disabled' \in L!Folder
    BY <2>1, JarFolders, JarTypesNow DEF JarTypes
  <2>3. UNCHANGED <<changing, turn, bundles, batches, review, process, abandoned, risked>>
        /\ asked' \in 0 .. JarRequests
    BY <1>1, JarTypesNow DEF L!Remove, L!records, L!Request, JarTypes, L!ConstantsOK
  <2>4. JarTypes'
    BY <2>1, <2>2, <2>3, JarTypesNow DEF JarTypes
  <2>5. ASSUME NEW m \in JarNames, NEW v \in Versions, <<m, v>> \in owned'
        PROVE  /\ <<m, v>> \in owned
               /\ live[m] = v \/ disabled[m] = v => live'[m] = v \/ disabled'[m] = v
    <3>1. /\ <<m, v>> \in L!Jars(disabled) => disabled[m] = v
          /\ <<m, v>> \in L!Jars(live) => live[m] = v
      BY JarIn
    <3> QED BY <2>1, <2>5, <3>1 DEF L!Without
  <2> QED BY <2>3, <2>4, <2>5, JarsRest
<1>2. CASE L!ImportReview \/ L!ImportCancel \/ L!OwnerStarts \/ L!ServerReady \/ L!ServerStops
  <2>1. UNCHANGED <<live, disabled, changing, turn, bundles, batches, abandoned, owned, risked>>
    BY <1>2 DEF L!ImportReview, L!ImportCancel, L!OwnerStarts, L!ServerReady, L!ServerStops,
       L!folders, L!history
  <2>2. review' \in L!Folder /\ process' \in {"stopped", "starting", "running"}
        /\ asked' \in 0 .. JarRequests
    BY <1>2, UniformFolder, JarTypesNow DEF L!ImportReview, L!ImportCancel, L!OwnerStarts,
       L!ServerReady, L!ServerStops, L!Staged, L!Request, JarTypes, L!ConstantsOK
  <2>3. JarTypes'
    BY <2>1, <2>2, JarTypesNow DEF JarTypes
  <2> QED BY <2>1, <2>3, JarsRest
<1> QED BY <1>1, <1>2

LEMMA CrashKeepsJars == ASSUME L!ConstantsOK, JarInv, L!Crash PROVE JarInv'
<1>1. /\ changing' = [t \in Tasks |-> L!Idle] /\ turn' = NoTask /\ process' = "stopped"
      /\ abandoned' = abandoned \union UNION {L!Jars(changing[t].aside) : t \in Tasks}
      /\ UNCHANGED <<live, disabled, bundles, batches, review, owned, risked, asked>>
  BY DEF L!Crash, L!folders, L!history
<1>2. \A t \in Tasks : changing[t].aside \in L!Folder
  BY TaskIn DEF L!Task
<1>3. JarTypes'
  <2>1. \A t \in Tasks : L!Jars(changing[t].aside) \subseteq JarNames \X Versions
    BY <1>2, JarsTyped
  <2> QED BY <1>1, <2>1, JarTypesNow DEF JarTypes
<1>4. /\ changing' \in [Tasks -> L!Task]
      /\ \A t \in Tasks : Formed(changing'[t]) /\ Backed(changing'[t], bundles', risked')
  BY <1>1, IdleForm DEF Backed
<1>5. Alone'
  BY <1>1, IdleForm DEF Alone
<1>6. ASSUME NEW b \in Bundles PROVE Settled(b)'
  <2>1. \A u \in Tasks : ~Pending(changing'[u])
    BY <1>1, IdleForm
  <2> QED BY <2>1 DEF Settled
<1>7. SafeInv'
  <2> SUFFICES ASSUME NEW n \in JarNames, NEW v \in Versions, <<n, v>> \in owned'
               PROVE  Fine(n, v)'
    BY DEF SafeInv
  <2>1. Fine(n, v)
    BY <1>1 DEF JarInv, SafeInv
  <2>2. ASSUME NEW t \in Tasks, changing[t].aside[n] = v PROVE <<n, v>> \in abandoned'
    <3>1. <<n, v>> \in L!Jars(changing[t].aside)
      BY <1>2, <2>2, RenameMeets
    <3> QED BY <1>1, <3>1
  <2>3. ASSUME NEW b \in Bundles, HasJar(b, n, v) PROVE HasJar(b, n, v)'
    BY <1>1, <2>3 DEF HasJar
  <2> QED BY <1>1, <1>6, <2>1, <2>2, <2>3 DEF Fine
<1> QED BY <1>3, <1>4, <1>5, <1>7 DEF JarInv

LEMMA JarStep == ASSUME L!ConstantsOK, JarInv, L!Step PROVE JarInv'
<1>1. ASSUME NEW t \in Tasks, L!Toggles(t) PROVE JarInv'
  BY <1>1, ToggleBegins, LookKeeps, TogglesKeep, EndingsKeep, UploadBegins, PlaceKeeps DEF L!Toggles
<1>2. ASSUME NEW t \in Tasks, L!Changes(t) PROVE JarInv'
  BY <1>2, InstallBegins, UpdateBegins, ResolveKeeps, PrepareKeeps, RefuseKeeps, DownloadKeeps,
     EndingsKeep, PromoteKeeps, ImportBegins, SettingAsideKeeps, PromotionKeeps, PromoteFailsKeeps,
     PutBackKeeps, CleanKeeps, CommitKeeps DEF L!Changes
<1>3. ASSUME NEW t \in Tasks, L!Undoes(t) PROVE JarInv'
  BY <1>3, UndoStarts, UndoBeginsKeeps, QuietSteps, ClaimKeeps, DisplaceKeeps, RestoreOldKeeps,
     ReturnOldKeeps, ReturnOneKeeps DEF L!Undoes
<1>4. ASSUME NEW t \in Tasks, L!Tests(t) PROVE JarInv'
  BY <1>4, TestBegins, CloneKeeps, QuietSteps, TogglesKeep DEF L!Tests
<1> QED BY <1>1, <1>2, <1>3, <1>4, EndingsKeep, OthersKeepJars, CrashKeepsJars DEF L!Step

LEMMA JarInit == ASSUME L!ConstantsOK, L!Init PROVE JarInv
<1>1. JarTypes
  <2>1. bundles \in [Bundles -> L!Bundle \union {NoBundle}]
    <3>1. ASSUME NEW n \in JarNames, NEW v \in Versions, NEW S \in SUBSET JarNames
          PROVE  [old |-> n, sha |-> v, kept |-> v, new |-> L!Of(S, Published), used |-> FALSE,
                  displaced |-> L!Empty, stuck |-> FALSE] \in L!Bundle
      <4>1. L!Of(S, Published) \in L!Folder /\ L!Empty \in L!Folder
        BY UniformFolder DEF L!ConstantsOK
      <4> QED BY <4>1 DEF L!Bundle
    <3>2. L!Earlier \subseteq L!Bundle
      BY <3>1 DEF L!Earlier
    <3> QED BY <3>2 DEF L!Init
  <2>2. owned \subseteq JarNames \X Versions
    <3>1. \A b \in Bundles : bundles[b] # NoBundle =>
            bundles[b].old \in JarNames /\ bundles[b].kept \in Versions
      BY DEF L!Init, L!Earlier
    <3>2. L!Jars(live) \subseteq JarNames \X Versions /\ L!Jars(disabled) \subseteq JarNames \X Versions
      BY JarsTyped DEF L!Init
    <3> QED BY <3>1, <3>2 DEF L!Init
  <2> QED BY <2>1, <2>2, UniformFolder DEF JarTypes, L!Init, L!ConstantsOK
<1>2. /\ changing \in [Tasks -> L!Task]
      /\ \A t \in Tasks : Formed(changing[t]) /\ Backed(changing[t], bundles, risked)
  BY IdleForm DEF L!Init, Backed
<1>3. Alone
  BY IdleForm DEF Alone, L!Init
<1>4. SafeInv
  <2> SUFFICES ASSUME NEW n \in JarNames, NEW v \in Versions, <<n, v>> \in owned
               PROVE  Fine(n, v)
    BY DEF SafeInv
  <2>1. \A b \in Bundles : Settled(b)
    BY IdleForm DEF Settled, L!Init
  <2>2. /\ <<n, v>> \in L!Jars(live) => live[n] = v
        /\ <<n, v>> \in L!Jars(disabled) => disabled[n] = v
    BY JarIn
  <2> QED BY <2>1, <2>2 DEF L!Init, Fine, HasJar
<1> QED BY <1>1, <1>2, <1>3, <1>4 DEF JarInv

\* A step that leaves the jars alone.
LEMMA JarStutter == ASSUME JarInv, UNCHANGED L!vars PROVE JarInv'
<1>1. UNCHANGED <<live, disabled, changing, turn, bundles, batches, review, process, abandoned,
                  owned, risked, asked>>
  BY DEF L!vars, L!folders, L!records, L!history
<1>2. JarTypes'
  BY <1>1, JarTypesNow DEF JarTypes
<1> QED BY <1>1, <1>2, JarsRest

\* The jars of every reachable state are where the invariant says.
THEOREM JarsHold == ASSUME L!ConstantsOK PROVE L!Spec => []JarInv
<1>1. L!Init => JarInv
  BY JarInit
<1>2. JarInv /\ [L!Next]_L!vars => JarInv'
  BY JarStep, JarStutter DEF L!Next
<1> QED BY <1>1, <1>2, PTL DEF L!Spec

\* The history of touched files has its type.
TouchedInv == touched \in [Tasks -> SUBSET JarNames]

\* Every request about jars, recovery copy and file is of its type.
THEOREM JarTypesHold == ASSUME L!ConstantsOK PROVE L!Spec => []L!TypeOK
<1>1. L!Init => TouchedInv
  BY DEF L!Init, TouchedInv
<1>2. TouchedInv /\ [L!Next]_L!vars => TouchedInv'
  <2> SUFFICES ASSUME TouchedInv, [L!Next]_L!vars PROVE TouchedInv'
    OBVIOUS
  <2>1. CASE L!Touches
    BY <2>1 DEF TouchedInv, L!Touches, L!Moved
  <2>2. CASE UNCHANGED L!vars
    BY <2>2 DEF TouchedInv, L!vars
  <2> QED BY <2>1, <2>2 DEF L!Next
<1>3. JarInv /\ TouchedInv => L!TypeOK
  BY DEF JarInv, JarTypes, TouchedInv, L!TypeOK
<1>4. L!Spec => []JarInv
  BY JarsHold
<1> QED BY <1>1, <1>2, <1>3, <1>4, PTL DEF L!Spec

\* No jar of the owner's is lost, wherever the service dies, whichever rename
\* fails, and whichever requests run beside each other, but for the named causes
\* (extension_ops.py, extension_updates.py, safe_start.py).
THEOREM JarsStayOnDisk == ASSUME L!ConstantsOK PROVE L!Spec => []NoJarIsLost
<1>1. JarInv => NoJarIsLost
  <2> SUFFICES ASSUME JarInv, NEW n \in JarNames, NEW v \in Versions, <<n, v>> \in owned,
                      <<n, v>> \notin risked
               PROVE  <<n, v>> \in L!OnDisk
    <3>1. JarInv => owned \subseteq JarNames \X Versions
      BY DEF JarInv, JarTypes
    <3> QED BY <3>1 DEF NoJarIsLost, L!NoJarIsLost
  <2>1. Fine(n, v)
    BY DEF JarInv, SafeInv
  <2>2. ASSUME NEW f, f[n] = v PROVE <<n, v>> \in L!Jars(f)
    BY <2>2, JarIn DEF L!ConstantsOK
  <2>3. CASE live[n] = v \/ disabled[n] = v \/ <<n, v>> \in abandoned
    BY <2>2, <2>3 DEF L!OnDisk
  <2>4. ASSUME NEW u \in Tasks, changing[u].aside[n] = v PROVE <<n, v>> \in L!OnDisk
    <3>1. <<n, v>> \in L!Jars(changing[u].aside)
      BY <2>2, <2>4
    <3> QED BY <3>1 DEF L!OnDisk
  <2>5. ASSUME NEW b \in Bundles, HasJar(b, n, v) PROVE <<n, v>> \in L!OnDisk
    <3>1. bundles[b].displaced[n] = v => <<n, v>> \in L!Jars(bundles[b].displaced)
      BY <2>2
    <3> QED BY <2>5, <3>1 DEF HasJar, L!OnDisk
  <2> QED BY <2>1, <2>3, <2>4, <2>5 DEF Fine
<1>2. L!Spec => []JarInv
  BY JarsHold
<1> QED BY <1>1, <1>2, PTL

=============================================================================
