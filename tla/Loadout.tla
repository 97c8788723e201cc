-------------------------------- MODULE Loadout --------------------------------
(***************************************************************************)
(* The mods or plugins of one profile: installing, updating with a         *)
(* recovery copy, undoing an update, importing, enabling, removing, and    *)
(* the private validation start that may quarantine a reviewed batch       *)
(* (extension_ops.py, extension_updates.py, safe_start.py and their        *)
(* handlers in app.py).                                                    *)
(*                                                                         *)
(* The async handlers run in the event loop and give way to each other     *)
(* only where they await the network, the upload or a server.  The others  *)
(* run in threads, beside them and beside each other.  Every rename is a   *)
(* step of its own, apart from the look that preceded it; each may fail,   *)
(* taking a failed change back may fail too, and the service may die after *)
(* any of them.                                                            *)
(***************************************************************************)
EXTENDS Naturals, FiniteSets

CONSTANTS
  Names,           \* file names of jars
  Versions,        \* contents a file may have
  NoJar,           \* no file of that name
  Published,       \* the version the catalogue offers
  Local,           \* the version an owner uploads
  Tasks, NoTask,   \* requests of several steps
  Bundles,         \* recovery copies that can be made
  NoBundle,
  MaxRequests      \* bound on the requests of a behaviour

Folder == [Names -> Versions \union {NoJar}]
Bundle ==
  [old : Names, sha : Versions, kept : Versions \union {NoJar}, new : Folder,
   used : BOOLEAN, displaced : Folder, stuck : BOOLEAN]

ConstantsOK ==
  /\ NoJar \notin Versions /\ {Published, Local} \subseteq Versions
  /\ NoTask \notin Tasks /\ NoBundle \notin Bundles \union Bundle /\ MaxRequests \in Nat

VARIABLES
  live,        \* the loadout folder
  disabled,    \* the folder of disabled jars beside it
  tasks,       \* requests in progress
  turn,        \* the request inside a section without an await
  bundles,     \* recovery copies
  batches,     \* reviewed batches on record
  review,      \* the staged files of a manual import
  server,      \* the managed server, private validations included
  abandoned,   \* jars in staging folders that were left behind
  owned,       \* history: jars the owner has installed and not removed
  risked,      \* history: jars that one of the causes named below may have lost
  touched,     \* history: the files that others changed beside a request
  requests

folders == <<live, disabled>>
records == <<bundles, batches, review, server, abandoned>>
history == <<owned, risked>>
vars == <<folders, tasks, turn, records, history, touched, requests>>

-----------------------------------------------------------------------------
(* Folders of jars.                                                        *)

Empty == [n \in Names |-> NoJar]
Has(folder) == {n \in Names : folder[n] # NoJar}
Jars(folder) == {<<n, folder[n]>> : n \in Has(folder)}
Only(folder, S) == [n \in Names |-> IF n \in S THEN folder[n] ELSE NoJar]
Without(folder, S) == [n \in Names |-> IF n \in S THEN NoJar ELSE folder[n]]
With(folder, added) == [n \in Names |-> IF added[n] # NoJar THEN added[n] ELSE folder[n]]
Of(S, version) == [n \in Names |-> IF n \in S THEN version ELSE NoJar]

\* What a rename of jars into a folder replaces there: os.replace() asks nothing.
Covered(folder, added) == Jars(Only(folder, Has(added)))

Idle ==
  [pc |-> "idle", op |-> "none", retire |-> {}, sha |-> NoJar, root |-> {}, todo |-> {},
   changed |-> {}, staged |-> Empty, aside |-> Empty, moved |-> {}, bundle |-> NoBundle,
   batch |-> Empty, clone |-> Empty, live0 |-> Empty, disabled0 |-> Empty, answer |-> "none"]

\* The recovery copies of updates that were made before.
Earlier ==
  {[old |-> n, sha |-> v, kept |-> v, new |-> Of(S, Published), used |-> FALSE,
    displaced |-> Empty, stuck |-> FALSE] : n \in Names, v \in Versions, S \in SUBSET Names}

Init ==
  /\ live \in Folder /\ disabled \in Folder
  /\ tasks = [t \in Tasks |-> Idle] /\ turn = NoTask
  /\ bundles \in [Bundles -> Earlier \union {NoBundle}]
  /\ batches = {} /\ review = Empty /\ server = "stopped" /\ abandoned = {}
  /\ owned = Jars(live) \union Jars(disabled)
       \union {<<bundles[b].old, bundles[b].kept>> : b \in {c \in Bundles : bundles[c] # NoBundle}}
  /\ risked = {} /\ touched = [t \in Tasks |-> {}] /\ requests = 0

\* Handlers that run in a thread of the pool.
InThread == {"disable", "enable", "import", "undo"}

\* The loop runs another handler only at an await; a thread runs whenever it likes.
Free == turn = NoTask
Mine(t) == tasks[t].op \in InThread \/ turn = t

Set(t, task) == tasks' = [tasks EXCEPT ![t] = task]
From(task) == [task EXCEPT !.live0 = live, !.disabled0 = disabled]
Leaves(t) == turn' = IF turn = t THEN NoTask ELSE turn
Answers(t, answer) ==
  /\ Set(t, [tasks[t] EXCEPT !.pc = "answer", !.answer = answer, !.aside = Empty])
  /\ Leaves(t)

\* require_server_stopped(), asked once.
Request ==
  /\ server = "stopped"
  /\ requests < MaxRequests /\ requests' = requests + 1

Starts(t, task) ==
  /\ Request /\ tasks[t] = Idle
  /\ Set(t, task)
  /\ UNCHANGED <<folders, records, history>>

-----------------------------------------------------------------------------
(* Enabling, disabling, removing and uploading.                            *)

Disables(S) ==
  /\ live' = Without(live, S) /\ disabled' = With(disabled, Only(live, S))
  /\ risked' = risked \union Covered(disabled, Only(live, S))
Enables(S) ==
  /\ live' = With(live, Only(disabled, S)) /\ disabled' = Without(disabled, S)
  /\ risked' = risked \union Covered(live, Only(disabled, S))

\* One jar, or all that are listed at the start.
Toggle(t) ==
  \E op \in {"disable", "enable"} :
    LET listed == Has(IF op = "disable" THEN live ELSE disabled)
    IN \E todo \in {listed} \union {{n} : n \in listed} :
         /\ todo # {}
         /\ Starts(t, [Idle EXCEPT !.pc = "look", !.op = op, !.todo = todo])
         /\ UNCHANGED turn

\* The request goes on without this jar.
Past(t, n) ==
  IF tasks[t].todo = {n} THEN Idle
  ELSE [tasks[t] EXCEPT !.pc = "look", !.todo = @ \ {n}, !.moved = {}]

\* A jar whose name is taken is skipped, or refused when it is the only one.
Look(t) ==
  /\ tasks[t].pc = "look"
  /\ \E n \in tasks[t].todo :
       IF n \in Has(IF tasks[t].op = "disable" THEN disabled ELSE live)
       THEN Set(t, Past(t, n))
       ELSE Set(t, [tasks[t] EXCEPT !.pc = "rename", !.moved = {n}])
  /\ UNCHANGED <<folders, turn, records, history, requests>>

Rename(t) ==
  /\ tasks[t].pc = "rename"
  /\ \E n \in tasks[t].moved :
       /\ \/ tasks[t].op = "disable" /\ n \in Has(live) /\ Disables({n})
          \/ tasks[t].op = "enable" /\ n \in Has(disabled) /\ Enables({n})
       /\ Set(t, Past(t, n))
  /\ UNCHANGED <<turn, records, owned, requests>>

\* A rename that fails ends the request.
RenameFails(t) ==
  /\ tasks[t].pc = "rename"
  /\ Set(t, Idle)
  /\ UNCHANGED <<folders, turn, records, history, requests>>

Remove ==
  /\ Request
  /\ \E n \in Names :
       \/ /\ n \in Has(live) /\ live' = Without(live, {n}) /\ UNCHANGED disabled
          /\ owned' = owned \ ({<<n, live[n]>>} \ Jars(disabled))
       \/ /\ n \in Has(disabled) /\ disabled' = Without(disabled, {n}) /\ UNCHANGED live
          /\ owned' = owned \ ({<<n, disabled[n]>>} \ Jars(live))
  /\ UNCHANGED <<tasks, turn, records, risked>>

\* place_upload() looks at both folders, writes beside them, and renames.
Upload(t) ==
  /\ Free
  /\ \E n \in Names \ (Has(live) \union Has(disabled)) :
       Starts(t, [Idle EXCEPT !.pc = "place", !.op = "upload", !.staged = Of({n}, Local)])
  /\ turn' = t

Place(t) ==
  /\ tasks[t].pc = "place" /\ Mine(t)
  /\ Set(t, Idle) /\ Leaves(t)
  /\ \/ /\ live' = With(live, tasks[t].staged)
        /\ risked' = risked \union Covered(live, tasks[t].staged)
        /\ owned' = owned \union Jars(tasks[t].staged)
     \/ UNCHANGED <<live, history>>
  /\ UNCHANGED <<disabled, records, requests>>

\* Uploaded jars, validated in a staging folder.  One review is open at a time.
Staged(S) == Of(S, Local)

ImportReview ==
  /\ Free /\ Request /\ review = Empty
  /\ \E S \in SUBSET Names \ {{}} : review' = Staged(S)
  /\ UNCHANGED <<folders, tasks, turn, bundles, batches, server, abandoned, history>>

\* The owner cancels the review, or it expires.  The one request that does not
\* ask whether the server is stopped.
ImportCancel ==
  /\ review # Empty /\ review' = Empty
  /\ UNCHANGED <<folders, tasks, turn, bundles, batches, server, abandoned, history, requests>>

-----------------------------------------------------------------------------
(* Installing, updating and importing: stage, then promote.                *)

Install(t) ==
  /\ Free
  /\ \E plan \in SUBSET Names :
       /\ plan # {}
       /\ Starts(t, [Idle EXCEPT !.pc = "download", !.op = "install", !.todo = plan])
  /\ UNCHANGED turn

\* The jar to be replaced is read before the catalogue is asked.
Update(t) ==
  /\ Free
  /\ \E e \in Has(live), r \in Names : \E needs \in SUBSET (Names \ {e, r}) :
       /\ live[e] # Published
       /\ Starts(t, [Idle EXCEPT !.pc = "resolve", !.op = "update", !.retire = {e},
                                 !.sha = live[e], !.root = {r}, !.todo = {r} \union needs])
  /\ UNCHANGED turn

\* Dependencies that are there already are not part of the change.
Changed(t) == {n \in tasks[t].todo : n \in tasks[t].root \/ live[n] # Published}

Resolve(t) ==
  /\ tasks[t].pc = "resolve" /\ Free
  /\ Set(t, [tasks[t] EXCEPT !.pc = "prepare", !.changed = Changed(t)])
  /\ UNCHANGED <<folders, turn, records, history, requests>>

\* The recovery copy: the file that is there now, under the checksum read before.
Prepare(t) ==
  /\ tasks[t].pc = "prepare" /\ Free
  /\ (tasks[t].root \ tasks[t].retire) \intersect Has(live) = {}
  /\ \E b \in Bundles, e \in tasks[t].retire \intersect Has(live) :
       /\ bundles[b] = NoBundle /\ \A u \in Tasks : tasks[u].bundle # b
       /\ bundles' = [bundles EXCEPT ![b] =
            [old |-> e, sha |-> tasks[t].sha, kept |-> live[e],
             new |-> Of(tasks[t].changed, Published),
             used |-> FALSE, displaced |-> Empty, stuck |-> FALSE]]
       /\ Set(t, [tasks[t] EXCEPT !.pc = "download", !.bundle = b])
       /\ risked' = risked \union (IF live[e] = tasks[t].sha THEN {} ELSE {<<e, tasks[t].sha>>})
  /\ UNCHANGED <<folders, turn, batches, review, server, abandoned, owned, requests>>

Discarded(b) == IF b = NoBundle THEN bundles ELSE [bundles EXCEPT ![b] = NoBundle]

\* The network, the plan or the folder is not what the request needs: its
\* staging folder and its recovery copy are removed.
Refuse(t) ==
  /\ tasks[t].pc \in {"resolve", "prepare", "download"} /\ Free
  /\ Set(t, Idle)
  /\ bundles' = Discarded(tasks[t].bundle)
  /\ UNCHANGED <<folders, turn, batches, review, server, abandoned, history, requests>>

\* A file that is installed with the published checksum is left out.
Download(t) ==
  /\ tasks[t].pc = "download" /\ Free
  /\ \E n \in tasks[t].todo \ Has(disabled) :
       \/ /\ n \in Has(live) \ tasks[t].retire /\ live[n] = Published
          /\ Set(t, [tasks[t] EXCEPT !.todo = @ \ {n}])
       \/ /\ n \notin Has(live) \ tasks[t].retire
          /\ Set(t, [tasks[t] EXCEPT !.todo = @ \ {n}, !.staged[n] = Published])
  /\ UNCHANGED <<folders, turn, records, history, requests>>

\* Everything was installed already: the recovery copy of an update is left.
NothingStaged(t) ==
  /\ tasks[t].pc = "download" /\ tasks[t].todo = {} /\ tasks[t].staged = Empty /\ Free
  /\ Set(t, Idle)
  /\ UNCHANGED <<folders, turn, records, history, requests>>

\* promote_staged_files() looks again before it touches the folder.
Promote(t) ==
  /\ tasks[t].pc = "download" /\ tasks[t].todo = {} /\ tasks[t].staged # Empty /\ Free
  /\ (Has(tasks[t].staged) \ tasks[t].retire) \intersect Has(live) = {}
  /\ \A e \in tasks[t].retire : live[e] = tasks[t].sha
  /\ Set(t, From([tasks[t] EXCEPT !.pc = "aside"])) /\ turn' = t
  /\ UNCHANGED <<folders, records, history, requests>>

ImportApply(t) ==
  /\ review # Empty
  /\ Has(review) \intersect (Has(live) \union Has(disabled)) = {}
  /\ Starts(t, From([Idle EXCEPT !.pc = "aside", !.op = "import", !.staged = review]))
  /\ UNCHANGED turn

\* The folder for the files set aside is made in the staging folder, once: a
\* review that has come this far cannot be applied again.
SetAside(t) ==
  /\ tasks[t].pc = "aside" /\ Mine(t)
  /\ tasks[t].op = "import" => review = tasks[t].staged
  /\ tasks[t].retire \subseteq Has(live)
  /\ live' = Without(live, tasks[t].retire)
  /\ Set(t, [tasks[t] EXCEPT !.pc = "promote", !.aside = Only(live, tasks[t].retire)])
  /\ review' = IF tasks[t].op = "import" THEN Empty ELSE review
  /\ risked' = risked \union
       (Jars(Only(live, tasks[t].retire)) \ Jars(Of(tasks[t].retire, tasks[t].sha)))
  /\ UNCHANGED <<disabled, turn, bundles, batches, server, abandoned, owned, requests>>

PromoteOne(t) ==
  /\ tasks[t].pc = "promote" /\ Mine(t)
  /\ \E n \in Has(tasks[t].staged) \ tasks[t].moved :
       LET jar == Only(tasks[t].staged, {n})
       IN /\ live' = With(live, jar)
          /\ risked' = risked \union Covered(live, jar)
          /\ owned' = owned \union Jars(jar)
          /\ Set(t, [tasks[t] EXCEPT !.moved = @ \union {n}])
  /\ UNCHANGED <<disabled, turn, records, requests>>

PromoteFails(t) ==
  /\ tasks[t].pc \in {"aside", "promote"} /\ Mine(t)
  /\ tasks[t].moved # Has(tasks[t].staged)
  /\ Set(t, [tasks[t] EXCEPT !.pc = "withdraw", !.answer = "restored"])
  /\ UNCHANGED <<folders, turn, records, history, requests>>

\* A promoted name is unlinked, whatever lies there by now.
TakeBack(t) ==
  /\ tasks[t].pc = "withdraw" /\ Mine(t)
  /\ \E n \in tasks[t].moved :
       \/ /\ live' = Without(live, {n})
          /\ IF live[n] = tasks[t].staged[n]
             THEN owned' = owned \ ({<<n, live[n]>>} \ Jars(disabled)) /\ UNCHANGED risked
             ELSE risked' = risked \union Jars(Only(live, {n})) /\ UNCHANGED owned
          /\ Set(t, [tasks[t] EXCEPT !.moved = @ \ {n}])
       \/ /\ Set(t, [tasks[t] EXCEPT !.moved = @ \ {n}, !.answer = "inspect"])
          /\ UNCHANGED <<live, history>>
  /\ UNCHANGED <<disabled, turn, records, requests>>

\* Mutant: the files set aside stay in the staging folder, which is removed.
PutBackNothing(t) ==
  /\ tasks[t].pc = "withdraw" /\ tasks[t].moved = {} /\ Mine(t)
  /\ Answers(t, tasks[t].answer)
  /\ bundles' = Discarded(tasks[t].bundle)
  /\ UNCHANGED <<folders, batches, review, server, abandoned, history, requests>>

\* Then the files set aside are put back, unless that fails too, and the
\* staging folder and the recovery copy are removed either way.
PutBack(t) ==
  /\ tasks[t].pc = "withdraw" /\ tasks[t].moved = {} /\ Mine(t)
  /\ \E stuck \in SUBSET Has(tasks[t].aside) :
       LET back == Without(tasks[t].aside, stuck)
       IN /\ live' = With(live, back)
          /\ risked' = risked \union Covered(live, back) \union Jars(Only(tasks[t].aside, stuck))
          /\ Answers(t, IF stuck = {} THEN tasks[t].answer ELSE "inspect")
  /\ bundles' = Discarded(tasks[t].bundle)
  /\ UNCHANGED <<disabled, batches, review, server, abandoned, owned, requests>>

\* The staging folder goes, and with it the retired jar.  If it resists, the
\* request ends as a failure, tries once more, and discards the recovery copy.
Clean(t) ==
  /\ tasks[t].pc = "promote" /\ tasks[t].moved = Has(tasks[t].staged) /\ Mine(t)
  /\ \/ /\ Set(t, [tasks[t] EXCEPT !.pc = "commit", !.aside = Empty])
        /\ UNCHANGED <<turn, bundles, abandoned, risked>>
     \/ /\ Answers(t, "failed")
        /\ bundles' = Discarded(tasks[t].bundle)
        /\ abandoned' \in {abandoned, abandoned \union Jars(tasks[t].aside)}
        /\ risked' = risked \union Jars(tasks[t].aside)
  /\ UNCHANGED <<folders, batches, review, server, owned, requests>>

\* The files of that name as they are now, for one later private test: the
\* batch is recorded if it can be.
Batch(t) == Only(live, Has(tasks[t].staged))
Recorded(t) == IF Has(tasks[t].staged) \subseteq Has(live)
               THEN {batches, batches \union {Batch(t)}} ELSE {batches}
Forgotten(batch) == batches \ {batch}

\* Without its record in the database an update is undone.  An update whose own
\* file another request has installed meanwhile ends as a failure.
Commit(t) ==
  /\ tasks[t].pc = "commit" /\ Mine(t)
  /\ IF tasks[t].root \subseteq Has(tasks[t].staged)
       THEN /\ batches' \in Recorded(t)
            /\ \/ Answers(t, "done")
               \/ tasks[t].op # "update" /\ Answers(t, "failed")
               \/ /\ tasks[t].op = "update"
                  /\ Set(t, [tasks[t] EXCEPT !.pc = "undo", !.moved = {}, !.batch = Batch(t)])
                  /\ UNCHANGED turn
       ELSE Answers(t, "failed") /\ UNCHANGED batches
  /\ UNCHANGED <<folders, bundles, review, server, abandoned, history, requests>>

-----------------------------------------------------------------------------
(* Undoing an update.                                                      *)

There(t) == tasks[t].bundle \in Bundles /\ bundles[tasks[t].bundle] # NoBundle
Kept(t) == bundles[tasks[t].bundle]
Keeps(t, bundle) == bundles' = [bundles EXCEPT ![tasks[t].bundle] = bundle]
Unmade(t) == IF tasks[t].op = "update" THEN "inspect" ELSE "refused"

Undo(t) ==
  /\ \E b \in Bundles :
       /\ bundles[b] # NoBundle
       /\ Starts(t, From([Idle EXCEPT !.pc = "undo", !.op = "undo", !.bundle = b]))
  /\ UNCHANGED turn

\* The copy and every file of the update are what the manifest says.  The
\* manifest is read once.
UndoBegins(t) ==
  /\ tasks[t].pc = "undo" /\ Mine(t) /\ There(t)
  /\ ~Kept(t).used /\ Kept(t).kept = Kept(t).sha
  /\ \A n \in Has(Kept(t).new) : live[n] = Kept(t).new[n]
  /\ Set(t, [tasks[t] EXCEPT !.pc = "claim", !.retire = {Kept(t).old}, !.sha = Kept(t).sha,
                             !.changed = Has(Kept(t).new)])
  /\ UNCHANGED <<folders, turn, records, history, requests>>

UndoRefused(t) ==
  /\ tasks[t].pc = "undo" /\ Mine(t)
  /\ Answers(t, Unmade(t))
  /\ UNCHANGED <<folders, records, history, requests>>

\* An update in progress may still discard its recovery copy; what an undo
\* moves into or out of that copy is at stake.
Unsettled(b) ==
  \E t \in Tasks : /\ tasks[t].op = "update" /\ tasks[t].bundle = b
                   /\ tasks[t].pc \in {"download", "aside", "promote", "withdraw"}
AtStake(t, jars) == IF Unsettled(tasks[t].bundle) THEN jars ELSE {}

\* The folder for the displaced files is made, once: one that an earlier
\* failure left behind makes every later attempt fail.
Claim(t) ==
  /\ tasks[t].pc = "claim" /\ Mine(t) /\ There(t) /\ ~Kept(t).stuck
  /\ Keeps(t, [Kept(t) EXCEPT !.stuck = TRUE])
  /\ Set(t, [tasks[t] EXCEPT !.pc = "displace"])
  /\ UNCHANGED <<folders, turn, batches, review, server, abandoned, history, requests>>

Displace(t) ==
  /\ tasks[t].pc = "displace" /\ Mine(t) /\ There(t)
  /\ \E n \in (tasks[t].changed \ tasks[t].moved) \intersect Has(live) :
       LET jar == Only(live, {n})
       IN /\ live' = Without(live, {n})
          /\ Keeps(t, [Kept(t) EXCEPT !.displaced = With(@, jar)])
          /\ Set(t, [tasks[t] EXCEPT !.moved = @ \union {n}])
          /\ risked' = risked \union Covered(Kept(t).displaced, jar) \union AtStake(t, Jars(jar))
  /\ UNCHANGED <<disabled, turn, batches, review, server, abandoned, owned, requests>>

OldNameIsFree(t) ==
  /\ tasks[t].pc = "displace" /\ tasks[t].moved = tasks[t].changed /\ Mine(t)
  /\ tasks[t].retire \intersect Has(live) = {}
  /\ Set(t, [tasks[t] EXCEPT !.pc = "restore"])
  /\ UNCHANGED <<folders, turn, records, history, requests>>

RestoreOld(t) ==
  /\ tasks[t].pc = "restore" /\ Mine(t) /\ There(t) /\ Kept(t).kept # NoJar
  /\ LET jar == Of({Kept(t).old}, Kept(t).kept)
     IN /\ live' = With(live, jar)
        /\ risked' = risked \union Covered(live, jar) \union AtStake(t, Jars(jar))
        /\ owned' = owned \union Jars(jar)
  /\ Keeps(t, [Kept(t) EXCEPT !.kept = NoJar])
  /\ Set(t, [tasks[t] EXCEPT !.pc = "record"])
  /\ UNCHANGED <<disabled, turn, batches, review, server, abandoned, requests>>

\* After a failed record of an update its batch is forgotten as well.
Record(t) ==
  /\ tasks[t].pc = "record" /\ Mine(t) /\ There(t)
  /\ Keeps(t, [Kept(t) EXCEPT !.used = TRUE])
  /\ Answers(t, IF tasks[t].op = "update" THEN "undone" ELSE "done")
  /\ batches' = Forgotten(tasks[t].batch)
  /\ UNCHANGED <<folders, review, server, abandoned, history, requests>>

\* Something fails, or a file of the old name has appeared.
UndoFails(t) ==
  /\ tasks[t].pc \in {"claim", "displace", "restore", "record"} /\ Mine(t)
  /\ Set(t, [tasks[t] EXCEPT !.pc = "reinstate"])
  /\ UNCHANGED <<folders, turn, records, history, requests>>

\* A file of the old name, where the copy holds none: it goes back into the copy.
OldIsOut(t) ==
  /\ tasks[t].retire \subseteq Has(live)
  /\ There(t) => Kept(t).kept = NoJar

\* Mutant: only the displaced files are moved back.
ReturnNewOnly(t) ==
  /\ tasks[t].pc = "reinstate" /\ Mine(t)
  /\ Set(t, [tasks[t] EXCEPT !.pc = "return"])
  /\ UNCHANGED <<folders, turn, records, history, requests>>

ReturnOld(t) ==
  /\ tasks[t].pc = "reinstate" /\ Mine(t)
  /\ \/ /\ OldIsOut(t) /\ There(t)
        /\ \E e \in tasks[t].retire \intersect {Kept(t).old} :
             /\ live' = Without(live, {e})
             /\ Keeps(t, [Kept(t) EXCEPT !.kept = live[e]])
             /\ risked' = risked \union AtStake(t, {<<e, live[e]>>})
        /\ Set(t, [tasks[t] EXCEPT !.pc = "return"]) /\ UNCHANGED turn
     \/ OldIsOut(t) /\ Answers(t, "inspect") /\ UNCHANGED <<live, bundles, risked>>
     \/ /\ ~OldIsOut(t)
        /\ Set(t, [tasks[t] EXCEPT !.pc = "return"])
        /\ UNCHANGED <<live, turn, bundles, risked>>
  /\ UNCHANGED <<disabled, batches, review, server, abandoned, owned, requests>>

ReturnOne(t) ==
  /\ tasks[t].pc = "return" /\ Mine(t)
  /\ \E n \in tasks[t].moved :
       \/ /\ There(t) /\ n \in Has(Kept(t).displaced)
          /\ LET jar == Only(Kept(t).displaced, {n})
             IN live' = With(live, jar) /\ risked' = risked \union Covered(live, jar)
          /\ Keeps(t, [Kept(t) EXCEPT !.displaced = Without(@, {n})])
          /\ Set(t, [tasks[t] EXCEPT !.moved = @ \ {n}]) /\ UNCHANGED turn
       \/ Answers(t, "inspect") /\ UNCHANGED <<live, bundles, risked>>
  /\ UNCHANGED <<disabled, batches, review, server, abandoned, owned, requests>>

Returned(t) ==
  /\ tasks[t].pc = "return" /\ tasks[t].moved = {} /\ Mine(t)
  /\ Answers(t, Unmade(t))
  /\ UNCHANGED <<folders, records, history, requests>>

-----------------------------------------------------------------------------
(* The private validation start and its quarantine.                        *)

\* Every file of the batch is in the loadout, with its checksum.
Verified(batch) == Jars(batch) \subseteq Jars(live)

\* The validation runs in a copy of the loadout.
Cloned == live

\* Records of batches that no longer match the loadout are removed.
Test(t) ==
  /\ Free /\ Request /\ tasks[t] = Idle
  /\ batches' = {b \in batches : Verified(b)}
  /\ \E b \in batches' \union {Empty} :
       Set(t, From([Idle EXCEPT !.pc = "clone", !.op = "test", !.batch = b]))
  /\ turn' = t
  /\ UNCHANGED <<folders, bundles, review, server, abandoned, history>>

\* start() waits for the manager's lock.
Clone(t) ==
  /\ tasks[t].pc = "clone" /\ Mine(t)
  /\ Set(t, [tasks[t] EXCEPT !.pc = "launch", !.clone = Cloned]) /\ turn' = NoTask
  /\ UNCHANGED <<folders, records, history, requests>>

\* A start that is refused ends in the clean-up as well.
Launch(t) ==
  /\ tasks[t].pc = "launch" /\ Free
  /\ \/ /\ server = "stopped"
        /\ server' = "starting"
        /\ Set(t, [tasks[t] EXCEPT !.pc = "waiting"])
     \/ /\ Set(t, [tasks[t] EXCEPT !.pc = "stopping", !.answer = "launch_error"])
        /\ UNCHANGED server
  /\ UNCHANGED <<folders, turn, bundles, batches, review, abandoned, history, requests>>

\* Every 50 ms, whatever server the manager holds by then.
Poll(t) ==
  /\ tasks[t].pc = "waiting" /\ Free
  /\ Set(t, [tasks[t] EXCEPT !.pc = "stopping",
       !.answer = CASE server = "running" -> "ready"
                    [] server = "stopped" -> "crashed"
                    [] OTHER -> "timeout"])
  /\ UNCHANGED <<folders, turn, records, history, requests>>

StopValidation(t) ==
  /\ tasks[t].pc = "stopping" /\ Free
  /\ server' = "stopped"
  /\ Set(t, [tasks[t] EXCEPT !.pc = "judge"])
  /\ UNCHANGED <<folders, turn, bundles, batches, review, abandoned, history, requests>>

\* The log of the validation decides; only an extension's error quarantines,
\* after another look at the files and their names.
Judge(t) ==
  /\ tasks[t].pc = "judge" /\ Free
  /\ \/ /\ tasks[t].answer = "ready"
        /\ batches' = Forgotten(tasks[t].batch)
        /\ Answers(t, "passed")
     \/ UNCHANGED batches /\ Answers(t, "failed")
     \/ /\ tasks[t].answer = "crashed" /\ tasks[t].batch # Empty
        /\ Verified(tasks[t].batch)
        /\ Has(tasks[t].batch) \intersect Has(disabled) = {}
        /\ UNCHANGED batches
        /\ Set(t, [tasks[t] EXCEPT !.pc = "quarantine"]) /\ turn' = t
  /\ UNCHANGED <<folders, bundles, review, server, abandoned, history, requests>>

QuarantineOne(t) ==
  /\ tasks[t].pc = "quarantine" /\ Mine(t)
  /\ \E n \in (Has(tasks[t].batch) \ tasks[t].moved) \intersect Has(live) :
       /\ Disables({n})
       /\ Set(t, [tasks[t] EXCEPT !.moved = @ \union {n}])
  /\ UNCHANGED <<turn, records, owned, requests>>

QuarantineFails(t) ==
  /\ tasks[t].pc = "quarantine" /\ tasks[t].moved # Has(tasks[t].batch) /\ Mine(t)
  /\ Set(t, [tasks[t] EXCEPT !.pc = "bring_back", !.answer = "restored"])
  /\ UNCHANGED <<folders, turn, records, history, requests>>

BringBack(t) ==
  /\ tasks[t].pc = "bring_back" /\ Mine(t)
  /\ \E n \in tasks[t].moved :
       \/ /\ n \in Has(disabled) /\ Enables({n})
          /\ Set(t, [tasks[t] EXCEPT !.moved = @ \ {n}])
       \/ /\ Set(t, [tasks[t] EXCEPT !.moved = @ \ {n}, !.answer = "inspect"])
          /\ UNCHANGED <<folders, risked>>
  /\ UNCHANGED <<turn, records, owned, requests>>

BroughtBack(t) ==
  /\ tasks[t].pc = "bring_back" /\ tasks[t].moved = {} /\ Mine(t)
  /\ Answers(t, tasks[t].answer)
  /\ UNCHANGED <<folders, records, history, requests>>

Quarantined(t) ==
  /\ tasks[t].pc = "quarantine" /\ tasks[t].moved = Has(tasks[t].batch) /\ Mine(t)
  /\ batches' = Forgotten(tasks[t].batch)
  /\ Answers(t, "quarantined")
  /\ UNCHANGED <<folders, bundles, review, server, abandoned, history, requests>>

-----------------------------------------------------------------------------
(* The server, the service, and the answer.                                *)

Answer(t) ==
  /\ tasks[t].pc = "answer"
  /\ Set(t, Idle)
  /\ UNCHANGED <<folders, turn, records, history, requests>>

\* Nothing that starts a server asks about requests in progress.
OwnerStarts ==
  /\ Free /\ server = "stopped"
  /\ server' = "starting"
  /\ UNCHANGED <<folders, tasks, turn, bundles, batches, review, abandoned, history, requests>>

ServerReady ==
  /\ server = "starting"
  /\ server' = "running"
  /\ UNCHANGED <<folders, tasks, turn, bundles, batches, review, abandoned, history, requests>>

ServerStops ==
  /\ server # "stopped"
  /\ server' = "stopped"
  /\ UNCHANGED <<folders, tasks, turn, bundles, batches, review, abandoned, history, requests>>

\* Nothing looks into the staging folders that a crash leaves behind.
Crash ==
  /\ \E t \in Tasks : tasks[t] # Idle
  /\ abandoned' = abandoned \union UNION {Jars(tasks[t].aside) : t \in Tasks}
  /\ tasks' = [t \in Tasks |-> Idle] /\ turn' = NoTask
  /\ server' = "stopped"
  /\ UNCHANGED <<folders, bundles, batches, review, history, requests>>

Toggles(t) == Toggle(t) \/ Look(t) \/ Rename(t) \/ RenameFails(t) \/ Upload(t) \/ Place(t)
Changes(t) ==
  \/ Install(t) \/ Update(t) \/ Resolve(t) \/ Prepare(t) \/ Refuse(t) \/ Download(t)
  \/ NothingStaged(t) \/ Promote(t) \/ ImportApply(t) \/ SetAside(t) \/ PromoteOne(t)
  \/ PromoteFails(t) \/ TakeBack(t) \/ PutBack(t) \/ Clean(t) \/ Commit(t)
Undoes(t) ==
  \/ Undo(t) \/ UndoBegins(t) \/ UndoRefused(t) \/ Claim(t) \/ Displace(t) \/ OldNameIsFree(t)
  \/ RestoreOld(t) \/ Record(t) \/ UndoFails(t) \/ ReturnOld(t) \/ ReturnOne(t) \/ Returned(t)
Tests(t) ==
  \/ Test(t) \/ Clone(t) \/ Launch(t) \/ Poll(t) \/ StopValidation(t) \/ Judge(t)
  \/ QuarantineOne(t) \/ QuarantineFails(t) \/ BringBack(t) \/ BroughtBack(t) \/ Quarantined(t)

Step ==
  \/ \E t \in Tasks : Toggles(t) \/ Changes(t) \/ Undoes(t) \/ Tests(t) \/ Answer(t)
  \/ Remove \/ ImportReview \/ ImportCancel
  \/ OwnerStarts \/ ServerReady \/ ServerStops \/ Crash

\* History: what others have changed since the request began to change files,
\* or, when it undoes or tests, since it was made.
Moved == {n \in Names : live'[n] # live[n] \/ disabled'[n] # disabled[n]}
Touches ==
  touched' = [t \in Tasks |->
    IF tasks'[t].pc = "idle" \/ (tasks'[t].pc = "aside" /\ tasks[t].pc # "aside") THEN {}
    ELSE IF tasks'[t] = tasks[t] THEN touched[t] \union Moved
    ELSE touched[t]]

Next == Step /\ Touches

Spec == Init /\ [][Next]_vars

-----------------------------------------------------------------------------
(* Correctness.                                                            *)

Task ==
  [pc : {"idle", "look", "rename", "place", "resolve", "prepare", "download", "aside", "promote",
         "withdraw", "commit", "undo", "claim", "displace", "restore", "record", "reinstate",
         "return", "clone", "launch", "waiting", "stopping", "judge", "quarantine",
         "bring_back", "answer"},
   op : {"none", "install", "update", "upload", "test"} \union InThread,
   retire : SUBSET Names, sha : Versions \union {NoJar}, root : SUBSET Names,
   todo : SUBSET Names, changed : SUBSET Names, staged : Folder, aside : Folder,
   moved : SUBSET Names, bundle : Bundles \union {NoBundle}, batch : Folder, clone : Folder,
   live0 : Folder, disabled0 : Folder,
   answer : {"none", "done", "failed", "restored", "undone", "refused", "inspect", "launch_error",
             "ready", "crashed", "timeout", "passed", "quarantined"}]

\* The type of the state.
TypeOK ==
  /\ live \in Folder /\ disabled \in Folder /\ review \in Folder
  /\ tasks \in [Tasks -> Task] /\ turn \in Tasks \union {NoTask}
  /\ bundles \in [Bundles -> Bundle \union {NoBundle}]
  /\ batches \subseteq Folder
  /\ server \in {"stopped", "starting", "running"}
  /\ abandoned \subseteq Names \X Versions /\ owned \subseteq Names \X Versions
  /\ risked \subseteq Names \X Versions /\ touched \in [Tasks -> SUBSET Names]
  /\ requests \in 0 .. MaxRequests

\* Every place a jar can be in.
OnDisk ==
  Jars(live) \union Jars(disabled) \union abandoned
    \union (UNION {Jars(tasks[t].aside) : t \in Tasks})
    \union {<<bundles[b].old, bundles[b].kept>> : b \in {c \in Bundles : bundles[c] # NoBundle}}
    \union (UNION {Jars(bundles[b].displaced) : b \in {c \in Bundles : bundles[c] # NoBundle}})

\* A jar the owner installed and did not remove is on disk, wherever the
\* service dies and whichever requests run beside each other, but for these
\* causes (risked): a rename or an unlink met a file that another request had
\* put there after the look; an update copied or set aside another file than
\* the one that was reviewed; what was set aside could not be put back; the
\* staging folder of a completed update could not be removed; an owner undid
\* an update that was still in progress.
NoJarIsLost == owned \ risked \subseteq OnDisk

\* What a request answers about the loadout is true of every file that no other
\* request changed beside it: a change is made as a whole or not at all, and a
\* quarantine disables exactly a batch that took part in the validation.
AnswersAreTrue ==
  \A t \in Tasks :
    LET k == tasks[t]
        Answered(answer) == k.pc = "answer" /\ k.answer = answer
        Undone(n) == IF n \in k.retire THEN k.sha
                     ELSE IF n \in k.changed THEN NoJar
                     ELSE With(k.live0, k.staged)[n]
    IN \A n \in Names \ touched[t] :
         /\ Answered("restored") \/ Answered("refused") =>
              live[n] = k.live0[n] /\ disabled[n] = k.disabled0[n]
         /\ Answered("undone") => live[n] = Undone(n)
         /\ Answered("done") =>
              live[n] = IF k.op = "undo" THEN Undone(n)
                        ELSE With(Without(k.live0, k.retire), k.staged)[n]
         /\ Answered("quarantined") =>
              IF n \in Has(k.batch)
              THEN live[n] = NoJar /\ disabled[n] = k.batch[n] /\ k.clone[n] = k.batch[n]
              ELSE live[n] = k.live0[n] /\ disabled[n] = k.disabled0[n]

=============================================================================
