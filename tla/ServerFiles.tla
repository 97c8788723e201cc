------------------------------ MODULE ServerFiles ------------------------------
(***************************************************************************)
(* The file workspace of one server, its settings editors and its loader   *)
(* configuration editors (server_files.py, file_paths.py,                  *)
(* server_settings.py, mod_configs.py, shared_map.py and their handlers in *)
(* app.py).                                                                *)
(*                                                                         *)
(* Handlers run in threads beside each other, beside the Minecraft server  *)
(* and beside whoever works in the folder directly. A revision says which  *)
(* content an editor was opened on; what is replaced is kept in a recovery *)
(* snapshot.                                                               *)
(***************************************************************************)
EXTENDS Naturals

CONSTANTS
  Names, NoName,  \* files of one folder
  StoppedOnly,    \* those of a category that needs a stopped server
  Jobs,           \* requests in progress
  MaxContent      \* bound on the contents of a behaviour

ConstantsOK == NoName \notin Names /\ StoppedOnly \subseteq Names /\ MaxContent \in Nat

VARIABLES
  files,    \* the content of each file, None if there is none
  kept,     \* contents in a snapshot, a preserved sibling or an older backup
  recent,   \* the configuration backups of this second, by what they are named after
  draft,    \* the staged map configuration: one name for all requests
  staging,  \* the entries unpacked in the extraction folder
  running,  \* the server is not stopped
  jobs,
  last      \* the newest content

backups == <<recent, draft>>
vars == <<files, kept, backups, staging, running, jobs, last>>

None == 0
Contents == 1 .. MaxContent

Idle ==
  [op |-> "none", pc |-> "idle", name |-> NoName, other |-> NoName, seen |-> None, to |-> None,
   moved |-> FALSE, answer |-> "none"]

\* The contents that are there have the first numbers.
Init ==
  /\ files \in {f \in [Names -> Contents \union {None}] :
                  \A m, n \in Names : m # n /\ f[m] = f[n] => f[m] = None}
  /\ last \in Contents \union {None} /\ {files[n] : n \in Names} \ {None} = 1 .. last
  /\ kept = {} /\ recent = {} /\ draft = [n \in Names |-> None]
  /\ staging = [n \in Names |-> None] /\ running \in BOOLEAN
  /\ jobs = [j \in Jobs |-> Idle]

Set(j, job) == jobs' = [jobs EXCEPT ![j] = job]
Goes(j, pc) == Set(j, [jobs[j] EXCEPT !.pc = pc])
Begins(j, job) == jobs[j] = Idle /\ Set(j, job)
Fresh(c) == c = last + 1 /\ c \in Contents /\ last' = c
Answered(answer) == [Idle EXCEPT !.pc = "answer", !.answer = answer]
Answers(j, answer) == Set(j, Answered(answer))

\* A job that has looked at a file for the last time and not replaced it yet.
Committed == {"stage", "replace", "unlink", "rename", "place", "promote"}
Touched(names) ==
  [j \in Jobs |-> IF jobs[j].pc \in Committed /\ {jobs[j].name, jobs[j].other} \intersect names # {}
                  THEN [jobs[j] EXCEPT !.moved = TRUE] ELSE jobs[j]]
Changes(j, names, job) == jobs' = [Touched(names) EXCEPT ![j] = job]

\* require_server_stopped(): asked once, when the request begins.
Allowed(n) == n \in StoppedOnly => ~running

-----------------------------------------------------------------------------
(* The editors of text files and settings.                                 *)

\* The file is read and its revision is the one that was opened; c is what it
\* shall hold.
Opens(j, op, pc, n) ==
  /\ files[n] # None
  /\ \E c \in Contents :
       /\ Fresh(c)
       /\ Begins(j, [Idle EXCEPT !.op = op, !.pc = pc, !.name = n, !.seen = files[n], !.to = c])
  /\ UNCHANGED <<files, kept, backups, staging, running>>

Edit(j) == \E n \in Names : Allowed(n) /\ Opens(j, "edit", "snapshot", n)

Settings(j) == \E n \in Names \ StoppedOnly : Opens(j, "settings", "snapshot", n)

RawSettings(j) == \E n \in Names \ StoppedOnly : Opens(j, "settings", "snapshot", n)

\* The request opens the settings itself.
EnableLan(j) == ~running /\ \E n \in Names \ StoppedOnly : Opens(j, "settings", "snapshot", n)

Snapshot(j) ==
  /\ jobs[j].pc = "snapshot" /\ jobs[j].op \in {"edit", "settings"}
  /\ kept' = kept \union {jobs[j].seen} /\ Goes(j, "compare")
  /\ UNCHANGED <<files, backups, staging, running, last>>

\* Mutant: the staged file is swapped in without another look.
CompareNothing(j) ==
  /\ jobs[j].pc = "compare" /\ Goes(j, "replace")
  /\ UNCHANGED <<files, kept, backups, staging, running, last>>

\* before_replace(), when the new content is on the disk.
Compare(j) ==
  /\ jobs[j].pc = "compare"
  /\ IF files[jobs[j].name] = jobs[j].seen THEN Goes(j, "replace") ELSE Answers(j, "conflict")
  /\ UNCHANGED <<files, kept, backups, staging, running, last>>

Replace(j) ==
  /\ jobs[j].pc = "replace" /\ jobs[j].op # "map"
  /\ files' = [files EXCEPT ![jobs[j].name] = jobs[j].to]
  /\ Changes(j, {jobs[j].name}, Answered("saved"))
  /\ UNCHANGED <<kept, backups, staging, running, last>>

-----------------------------------------------------------------------------
(* Loader configurations and the shared map's low-resource profile.        *)

WriteConfig(j) == ~running /\ \E n \in Names \ StoppedOnly : Opens(j, "config", "backup", n)

LowResource(j) == ~running /\ \E n \in Names \ StoppedOnly : Opens(j, "map", "backup", n)

\* The name of a backup: the file, the second and the revision that was opened.
Named(j) == {b \in recent : /\ b.op = jobs[j].op /\ b.name = jobs[j].name
                            /\ b.opened = jobs[j].seen}
Backup(j, content) ==
  [op |-> jobs[j].op, name |-> jobs[j].name, opened |-> jobs[j].seen, content |-> content]

Copied(j) == Goes(j, IF jobs[j].op = "map" THEN "stage" ELSE "replace")

\* Mutant: the content that was opened is kept, not the one that is there.
KeepOpened(j) ==
  /\ jobs[j].pc = "backup"
  /\ recent' = (recent \ Named(j)) \union {Backup(j, jobs[j].seen)} /\ Copied(j)
  /\ UNCHANGED <<files, kept, draft, staging, running, last>>

\* A request of the shared map that fails removes the staged file, whoever wrote it.
Undrafted(j) == IF jobs[j].op = "map" THEN [draft EXCEPT ![jobs[j].name] = None] ELSE draft

\* The file is copied as it is by now, which may not be what was opened, over a
\* backup of the same name.
KeepCopy(j) ==
  /\ jobs[j].pc = "backup"
  /\ LET n == jobs[j].name
     IN IF files[n] = None
        THEN Answers(j, "failed") /\ draft' = Undrafted(j) /\ UNCHANGED recent
        ELSE /\ recent' = (recent \ Named(j)) \union {Backup(j, files[n])}
             /\ Copied(j) /\ UNCHANGED draft
  /\ UNCHANGED <<files, kept, staging, running, last>>

NextSecond ==
  /\ recent # {} /\ recent' = {}
  /\ kept' = kept \union {b.content : b \in recent}
  /\ UNCHANGED <<files, draft, staging, running, jobs, last>>

Stage(j) ==
  /\ jobs[j].pc = "stage"
  /\ draft' = [draft EXCEPT ![jobs[j].name] = jobs[j].to] /\ Goes(j, "replace")
  /\ UNCHANGED <<files, kept, recent, staging, running, last>>

\* Whatever is staged by now, perhaps another request's; or nothing.
SwapIn(j) ==
  /\ jobs[j].pc = "replace" /\ jobs[j].op = "map"
  /\ LET n == jobs[j].name
     IN IF draft[n] = None
        THEN Answers(j, "failed") /\ UNCHANGED <<files, draft>>
        ELSE /\ files' = [files EXCEPT ![n] = draft[n]]
             /\ draft' = [draft EXCEPT ![n] = None]
             /\ Changes(j, {n}, Answered("saved"))
  /\ UNCHANGED <<kept, recent, staging, running, last>>

-----------------------------------------------------------------------------
(* Deleting, renaming, uploading.                                          *)

Delete(j) ==
  /\ \E n \in Names :
       /\ files[n] # None /\ Allowed(n)
       /\ Begins(j, [Idle EXCEPT !.op = "delete", !.pc = "unlink", !.name = n,
                                 !.seen = files[n]])
  /\ UNCHANGED <<files, kept, backups, staging, running, last>>

\* The snapshot of what was read; the file may have been changed by now.
Unlink(j) ==
  /\ jobs[j].pc = "unlink"
  /\ IF files[jobs[j].name] = None
     THEN Answers(j, "failed") /\ UNCHANGED files
     ELSE /\ files' = [files EXCEPT ![jobs[j].name] = None]
          /\ Changes(j, {jobs[j].name}, Answered("deleted"))
  /\ kept' = kept \union {jobs[j].seen}
  /\ UNCHANGED <<backups, staging, running, last>>

Rename(j) ==
  /\ \E n, m \in Names :
       /\ files[n] # None /\ files[m] = None /\ Allowed(n)
       /\ Begins(j, [Idle EXCEPT !.op = "rename", !.pc = "rename", !.name = n, !.other = m])
  /\ UNCHANGED <<files, kept, backups, staging, running, last>>

Renames(j) ==
  /\ jobs[j].pc = "rename"
  /\ LET n == jobs[j].name m == jobs[j].other
     IN IF files[n] = None
        THEN Answers(j, "failed") /\ UNCHANGED files
        ELSE /\ files' = [files EXCEPT ![m] = files[n], ![n] = None]
             /\ Changes(j, {n, m}, Answered("renamed"))
  /\ UNCHANGED <<kept, backups, staging, running, last>>

\* A new file for the name n.
Brings(j, op, pc, n) ==
  /\ Allowed(n)
  /\ \E c \in Contents :
       Fresh(c) /\ Begins(j, [Idle EXCEPT !.op = op, !.pc = pc, !.name = n, !.to = c])
  /\ UNCHANGED <<files, kept, backups, staging, running>>

\* Mutant: an upload replaces what is there.
UploadOver(j) == \E n \in Names : Brings(j, "upload", "place", n)

\* resolve_upload_target(), before the first chunk has arrived.
Upload(j) == \E n \in Names : files[n] = None /\ Brings(j, "upload", "place", n)

Place(j) ==
  /\ jobs[j].pc = "place"
  /\ files' = [files EXCEPT ![jobs[j].name] = jobs[j].to]
  /\ Changes(j, {jobs[j].name}, Answered("uploaded"))
  /\ UNCHANGED <<kept, backups, staging, running, last>>

-----------------------------------------------------------------------------
(* Archives.                                                               *)

\* One extraction at a time for a server.
Extract(j) ==
  /\ \A i \in Jobs : jobs[i].op # "extract"
  /\ \E n \in Names : Brings(j, "extract", "unpack", n)

\* What an earlier extraction left in the staging folder is removed first.
Unpack(j) ==
  /\ jobs[j].pc = "unpack"
  /\ staging' = [n \in Names |-> IF n = jobs[j].name THEN jobs[j].to ELSE None]
  /\ Goes(j, "aside")
  /\ UNCHANGED <<files, kept, backups, running, last>>

\* An entry that is there is renamed, never overwritten.
SetAside(j) ==
  /\ jobs[j].pc = "aside"
  /\ LET n == jobs[j].name
     IN IF files[n] = None
        THEN Goes(j, "promote") /\ UNCHANGED <<files, kept>>
        ELSE /\ kept' = kept \union {files[n]} /\ files' = [files EXCEPT ![n] = None]
             /\ Changes(j, {n}, [jobs[j] EXCEPT !.pc = "promote"])
  /\ UNCHANGED <<backups, staging, running, last>>

Promote(j) ==
  /\ jobs[j].pc = "promote"
  /\ LET n == jobs[j].name
     IN IF staging[n] = None
        THEN Answers(j, "failed") /\ UNCHANGED <<files, staging>>
        ELSE /\ files' = [files EXCEPT ![n] = staging[n]]
             /\ staging' = [staging EXCEPT ![n] = None]
             /\ Changes(j, {n}, Answered("extracted"))
  /\ UNCHANGED <<kept, backups, running, last>>

-----------------------------------------------------------------------------
(* The world around.                                                       *)

\* The staged copy is removed; what was kept stays.
Fails(j) ==
  /\ jobs[j].pc \in {"snapshot", "compare", "backup", "stage", "replace", "place", "unpack",
                     "aside", "promote"}
  /\ Answers(j, "failed")
  /\ staging' = IF jobs[j].op = "extract" THEN [n \in Names |-> None] ELSE staging
  /\ draft' = Undrafted(j)
  /\ UNCHANGED <<files, kept, recent, running, last>>

Answer(j) ==
  /\ jobs[j].pc = "answer" /\ Set(j, Idle)
  /\ UNCHANGED <<files, kept, backups, staging, running, last>>

\* The Minecraft server, or someone in the folder itself.
OthersWrite ==
  /\ \E n \in Names, c \in Contents :
       /\ Fresh(c)
       /\ files' = [files EXCEPT ![n] = c] /\ jobs' = Touched({n})
  /\ UNCHANGED <<kept, backups, staging, running>>

StartOrStop == running' = ~running /\ UNCHANGED <<files, kept, backups, staging, jobs, last>>

Crash ==
  /\ \E j \in Jobs : jobs[j] # Idle
  /\ jobs' = [j \in Jobs |-> Idle] /\ running' = FALSE
  /\ UNCHANGED <<files, kept, backups, staging, last>>

Works(j) ==
  \/ Edit(j) \/ Settings(j) \/ RawSettings(j) \/ EnableLan(j) \/ Snapshot(j) \/ Compare(j)
  \/ Replace(j) \/ WriteConfig(j) \/ LowResource(j) \/ KeepCopy(j) \/ Stage(j) \/ SwapIn(j)
  \/ Delete(j) \/ Unlink(j) \/ Rename(j) \/ Renames(j) \/ Upload(j) \/ Place(j)
  \/ Extract(j) \/ Unpack(j) \/ SetAside(j) \/ Promote(j) \/ Fails(j) \/ Answer(j)

Next == (\E j \in Jobs : Works(j)) \/ OthersWrite \/ NextSecond \/ StartOrStop \/ Crash

Spec == Init /\ [][Next]_vars

-----------------------------------------------------------------------------
(* Correctness.                                                            *)

Job ==
  [op : {"none", "edit", "settings", "config", "map", "delete", "rename", "upload", "extract"},
   pc : Committed \union {"idle", "snapshot", "compare", "backup", "unpack", "aside", "answer"},
   name : Names \union {NoName}, other : Names \union {NoName},
   seen : Contents \union {None}, to : Contents \union {None},
   moved : BOOLEAN,
   answer : {"none", "saved", "conflict", "failed", "deleted", "renamed", "uploaded",
             "extracted"}]

CopyOf ==
  [op : {"config", "map"}, name : Names, opened : Contents, content : Contents]

\* The type of the state.
TypeOK ==
  /\ files \in [Names -> Contents \union {None}] /\ kept \subseteq Contents
  /\ recent \subseteq CopyOf /\ draft \in [Names -> Contents \union {None}]
  /\ staging \in [Names -> Contents \union {None}] /\ running \in BOOLEAN
  /\ jobs \in [Jobs -> Job] /\ last \in Contents \union {None}

Does(j, pc) == jobs[j].pc = pc /\ jobs'[j].pc # pc

\* The contents that the owner can still find.
Found == ({files[n] : n \in Names} \ {None}) \union kept \union {b.content : b \in recent}

\* What a request may destroy: a content that somebody put there after the
\* request had looked at its files for the last time (an upload promises never
\* to overwrite, and then does), and the backup that another save of the same
\* file, opened on the same revision, made in the same second.
Destroys(j) ==
  IF jobs[j].pc = "backup" THEN {b.content : b \in Named(j)}
  ELSE IF jobs[j].moved THEN {files[n] : n \in Names \intersect {jobs[j].name, jobs[j].other}}
  ELSE {}

\* No request loses a content: what it takes out of a file is under another
\* name, in a snapshot, a backup or a preserved sibling, and what was kept
\* stays, with the two exceptions above.
NothingIsLost ==
  [][\A j \in Jobs, pc \in Committed \union {"snapshot", "compare", "backup", "unpack", "aside"} :
       Does(j, pc) => Found \ Destroys(j) \subseteq Found']_vars

\* An edit that is saved replaced exactly the content that its owner opened,
\* with the first of those exceptions.
SavesWhatWasReviewed ==
  [][\A j \in Jobs :
       Does(j, "replace") /\ jobs[j].op \in {"edit", "settings"} /\ ~jobs[j].moved =>
         files[jobs[j].name] = jobs[j].seen]_vars

================================================================================
