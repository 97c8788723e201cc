---------------------------- MODULE LaunchUpgrade ----------------------------
(***************************************************************************)
(* Replacing the server's launch jar (backend/src/blockstead/upgrade_ops.py *)
(* and the two handlers of app.py that call it): an upgrade keeps a copy of *)
(* the old jar with a manifest beside it; a later restore puts that copy    *)
(* back.  Both end with a commit of the profile's version, and if that      *)
(* commit fails they are reversed: an upgrade by a restore of its own, a    *)
(* restore by a compensation.                                               *)
(*                                                                          *)
(* The operations run under update_lock without suspending, one at a time;  *)
(* an action is one change on disk.  Beside them listings of the profiles   *)
(* run in threads of their own and write the version they detect.           *)
(* A jar is named by its Minecraft version.                                 *)
(***************************************************************************)
EXTENDS Naturals

CONSTANTS
  MaxVersion,       \* published versions are 1..MaxVersion
  Recoveries,       \* recovery ids, random in the code
  NoRecovery,
  JarsAreStamped,   \* does a jar carry version.json?  Fabric's launcher does not
  MaxFailures, MaxCrashes, MaxSwaps

ASSUME LaunchAssumptions ==
  /\ MaxVersion \in Nat \ {0}
  /\ {MaxFailures, MaxCrashes, MaxSwaps} \subseteq Nat
  /\ NoRecovery \notin Recoveries
  /\ JarsAreStamped \in BOOLEAN

Versions == 1..MaxVersion
Nothing == 0              \* no file; also a version that is not known
Jars == Versions \union {Nothing}

\* In the recovery folder: previous and replaced.  In the server folder, named
\* .blockstead-r-<id>-x: displaced (d), stage (s), newer (n) and older (o).
Slots == {"previous", "replaced", "d", "s", "n", "o"}

VARIABLES
  active,      \* the launch jar in the server folder
  files,       \* what each recovery's files hold
  manifest,    \* each recovery's recovery.json
  version,     \* profile.minecraft_version in the database
  ran,         \* the version that the newest log names
  op,          \* the operation under update_lock and where it stands
  listing,     \* a listing of the profiles: the row it loaded, what it found
  before,      \* history: the jar in use when the last operation began
  disturbed,   \* history: has anything but an upgrade or a restore that ran
               \* to its end changed the jar or the version?
  alarm,       \* has the owner been told to inspect the folders?
  failures, crashes, swaps

history == <<before, disturbed, alarm>>
bounds == <<failures, crashes, swaps>>
vars == <<active, files, manifest, version, ran, op, listing, history, bounds>>

NoManifest == [state |-> "none", previous |-> Nothing, new |-> Nothing,
               from |-> Nothing]
Idle == [fn |-> "none", at |-> "idle", rec |-> NoRecovery, to |-> Nothing]
NoListing == [at |-> "idle", row |-> Nothing, found |-> Nothing]

Init ==
  /\ active = 1 /\ version = 1 /\ before = 1
  /\ files = [r \in Recoveries |-> [s \in Slots |-> Nothing]]
  /\ manifest = [r \in Recoveries |-> NoManifest]
  /\ ran = Nothing
  /\ op = Idle
  /\ listing = NoListing
  /\ disturbed = FALSE /\ alarm = FALSE
  /\ failures = 0 /\ crashes = 0 /\ swaps = 0

Rec == files[op.rec]
Put(slot, jar) == files' = [files EXCEPT ![op.rec][slot] = jar]
Step(place) == op' = [op EXCEPT !.at = place]
At(fns, place) == op.fn \in fns /\ op.at = place

Rollbacks == {"undo", "restore"}          \* rollback_launch_upgrade's callers
Swaps == Rollbacks \union {"promote", "compensate"}
Aside == IF op.fn = "compensate" THEN "o" ELSE "d"
Stage == IF op.fn = "compensate" THEN "n" ELSE "s"

\* "Leave the server stopped and inspect": nobody repairs it from here.
GiveUp == op' = Idle /\ alarm' = TRUE

-----------------------------------------------------------------------------
(* apply_server_upgrade() and promote_launch_upgrade().                    *)

Fresh(r) == manifest[r] = NoManifest /\ \A s \in Slots : files[r][s] = Nothing

ApplyUpgrade(r, v) ==
  /\ op = Idle
  /\ active # Nothing
  /\ v > version
  /\ Fresh(r)
  /\ op' = [fn |-> "promote", at |-> "keep", rec |-> r, to |-> v]
  /\ before' = active
  /\ UNCHANGED <<active, files, manifest, version, ran, listing, disturbed, alarm,
                 bounds>>

\* Mutant: the old jar is moved aside without a copy of it being kept.
KeepNothing ==
  /\ At({"promote"}, "keep")
  /\ Step("displace")
  /\ UNCHANGED <<active, files, manifest, version, ran, listing, history, bounds>>

Keep ==
  /\ At({"promote"}, "keep")
  /\ Put("previous", active)
  /\ Step("displace")
  /\ UNCHANGED <<active, manifest, version, ran, listing, history, bounds>>

-----------------------------------------------------------------------------
(* rollback_launch_upgrade(): asked for by the owner, or to undo an upgrade *)
(* whose version could not be saved.                                        *)

\* What list_available_launch_recoveries() offers.
Offered(r) ==
  /\ manifest[r].state = "unused"
  /\ Nothing \notin {active, files[r]["previous"]}
  /\ active = manifest[r].new
  /\ files[r]["previous"] = manifest[r].previous

Restorable(r) ==
  /\ Offered(r)
  /\ \A s \in {"replaced", "d", "s"} : files[r][s] = Nothing

RestorePrevious(r) ==
  /\ op = Idle
  /\ Restorable(r)
  /\ op' = [fn |-> "restore", at |-> "snapshot", rec |-> r, to |-> Nothing]
  /\ before' = active
  /\ UNCHANGED <<active, files, manifest, version, ran, listing, disturbed, alarm,
                 bounds>>

UndoBegins ==
  /\ At({"undo"}, "check")
  /\ \/ Restorable(op.rec) /\ Step("snapshot") /\ UNCHANGED alarm
     \/ ~Restorable(op.rec) /\ GiveUp
  /\ UNCHANGED <<active, files, manifest, version, ran, listing, before, disturbed,
                 bounds>>

Snapshot ==
  /\ At(Rollbacks, "snapshot")
  /\ Put("replaced", active)
  /\ Step("stage")
  /\ UNCHANGED <<active, manifest, version, ran, listing, history, bounds>>

CopyToStage ==
  /\ At(Rollbacks \union {"compensate"}, "stage")
  /\ Put(Stage, IF op.fn = "compensate" THEN Rec["replaced"] ELSE Rec["previous"])
  /\ Step("displace")
  /\ UNCHANGED <<active, manifest, version, ran, listing, history, bounds>>

-----------------------------------------------------------------------------
(* restore_newer_launch_after_failed_recovery().                           *)

CompensateBegins ==
  /\ At({"compensate"}, "check")
  /\ LET m == manifest[op.rec] IN
       IF /\ m.state = "used"
          /\ active = m.previous
          /\ Rec["replaced"] = m.new
          /\ Rec["previous"] \in {Nothing, m.previous}
         THEN Step("rebuild") /\ UNCHANGED alarm
         ELSE GiveUp
  /\ UNCHANGED <<active, files, manifest, version, ran, listing, before, disturbed,
                 bounds>>

\* Mutant: the older copy is not rebuilt.
RebuildNothing ==
  /\ At({"compensate"}, "rebuild")
  /\ Step("stage")
  /\ UNCHANGED <<active, files, manifest, version, ran, listing, history, bounds>>

Rebuild ==
  /\ At({"compensate"}, "rebuild")
  /\ Put("previous", active)       \* the same jar, where it is still there
  /\ IF Rec["n"] = Nothing /\ Rec["o"] = Nothing
       THEN Step("stage") /\ UNCHANGED alarm
       ELSE GiveUp
  /\ UNCHANGED <<active, manifest, version, ran, listing, before, disturbed, bounds>>

-----------------------------------------------------------------------------
(* The swap the three share: aside, in, manifest, tidy.                    *)

Displace ==
  /\ At(Swaps, "displace")
  /\ active' = Nothing
  /\ Put(Aside, active)
  /\ Step("place")
  /\ UNCHANGED <<manifest, version, ran, listing, history, bounds>>

Place ==
  /\ At(Swaps, "place")
  /\ IF op.fn = "promote"
       THEN active' = op.to /\ UNCHANGED files
       ELSE active' = Rec[Stage] /\ Put(Stage, Nothing)
  /\ Step("record")
  /\ UNCHANGED <<manifest, version, ran, listing, history, bounds>>

Record ==
  /\ At(Swaps, "record")
  /\ manifest' = [manifest EXCEPT ![op.rec] =
       CASE op.fn = "promote" ->
              [state |-> "unused", previous |-> Rec["previous"], new |-> active,
               from |-> version]
         [] op.fn \in Rollbacks -> [@ EXCEPT !.state = "used"]
         [] op.fn = "compensate" -> [@ EXCEPT !.state = "unused"]]
  /\ Step("tidy")
  /\ UNCHANGED <<active, files, version, ran, listing, history, bounds>>

\* An unlink whose failure is swallowed.
Unlink(slot) ==
  \/ Put(slot, Nothing) /\ UNCHANGED failures
  \/ /\ Rec[slot] # Nothing
     /\ failures < MaxFailures
     /\ failures' = failures + 1
     /\ UNCHANGED files

\* Mutant: the displaced jar stays in the server folder.
TidyNothing ==
  /\ At(Swaps, "tidy")
  /\ Step(IF op.fn = "promote" THEN "commit" ELSE "drop")
  /\ UNCHANGED <<active, files, manifest, version, ran, listing, history, bounds>>

Tidy ==
  /\ At(Swaps, "tidy")
  /\ Unlink(Aside)
  /\ Step(IF op.fn = "promote" THEN "commit" ELSE "drop")
  /\ UNCHANGED <<active, manifest, version, ran, listing, history, crashes, swaps>>

\* The copy that was put back is no longer needed.
Drop ==
  /\ At(Rollbacks \union {"compensate"}, "drop")
  /\ Unlink(IF op.fn = "compensate" THEN "replaced" ELSE "previous")
  /\ IF op.fn = "restore" THEN Step("commit") ELSE op' = Idle
  /\ UNCHANGED <<active, manifest, version, ran, listing, history, crashes, swaps>>

Commit ==
  /\ At({"promote", "restore"}, "commit")
  /\ version' = IF op.fn = "promote" THEN op.to ELSE manifest[op.rec].from
  /\ op' = Idle
  /\ UNCHANGED <<active, files, manifest, ran, listing, history, bounds>>

\* Mutant: a commit that fails leaves the jar as it is.
CommitFailsUnrepaired ==
  /\ At({"promote", "restore"}, "commit")
  /\ failures < MaxFailures
  /\ failures' = failures + 1
  /\ op' = Idle
  /\ UNCHANGED <<active, files, manifest, version, ran, listing, history, crashes,
                 swaps>>

CommitFails ==
  /\ At({"promote", "restore"}, "commit")
  /\ failures < MaxFailures
  /\ failures' = failures + 1
  /\ op' = [op EXCEPT !.fn = IF op.fn = "promote" THEN "undo" ELSE "compensate",
                      !.at = "check"]
  /\ UNCHANGED <<active, files, manifest, version, ran, listing, history, crashes,
                 swaps>>

-----------------------------------------------------------------------------
(* What the three do when a step raises.                                   *)

StepFails ==
  /\ At(Swaps, op.at)
  /\ op.at \in {"keep", "check", "rebuild", "snapshot", "stage", "displace", "place",
                "record"}
  /\ failures < MaxFailures
  /\ failures' = failures + 1
  /\ IF op.at \in {"check", "rebuild"}
       THEN GiveUp
       ELSE /\ Step(IF op.at \in {"place", "record"} THEN "put_back" ELSE "clean_up")
            /\ UNCHANGED alarm
  /\ UNCHANGED <<active, files, manifest, version, ran, listing, before, disturbed,
                 crashes, swaps>>

PutBack ==
  /\ At(Swaps, "put_back")
  /\ active' = Rec[Aside]
  /\ Put(Aside, Nothing)
  /\ Step("clean_up")
  /\ UNCHANGED <<manifest, version, ran, listing, history, bounds>>

PutBackFails ==
  /\ At(Swaps, "put_back")
  /\ failures < MaxFailures
  /\ failures' = failures + 1
  /\ GiveUp
  /\ UNCHANGED <<active, files, manifest, version, ran, listing, before, disturbed,
                 crashes, swaps>>

\* promote removes its recovery folder; the others what they had staged.
Scraps ==
  IF op.fn = "promote" THEN {"previous"}
  ELSE IF op.fn = "compensate" THEN {"n"} ELSE {"s", "replaced"}

CleanUp ==
  /\ At(Swaps, "clean_up")
  /\ \E left \in SUBSET {s \in Scraps : Rec[s] # Nothing} :
       /\ files' = [files EXCEPT ![op.rec] =
            [s \in Slots |-> IF s \in Scraps \ left THEN Nothing ELSE @[s]]]
       /\ \/ left = {} /\ UNCHANGED failures
          \/ /\ left # {}
             /\ failures < MaxFailures
             /\ failures' = failures + 1
  /\ op' = Idle
  /\ alarm' = (alarm \/ op.fn \in {"undo", "compensate"})
  /\ UNCHANGED <<active, manifest, version, ran, listing, before, disturbed, crashes,
                 swaps>>

-----------------------------------------------------------------------------
(* refresh_profile_facts(), in the thread of GET /profiles.                *)

\* detect_minecraft_version(): the jar's own stamp, or else the newest log.
Detected == IF JarsAreStamped /\ active # Nothing THEN active ELSE ran

ListingLoads ==
  /\ listing.at = "idle"
  /\ listing' = [at |-> "scan", row |-> version, found |-> Nothing]
  /\ UNCHANGED <<active, files, manifest, version, ran, op, history, bounds>>

ListingScans ==
  /\ listing.at = "scan"
  /\ listing' = [listing EXCEPT !.at = "save", !.found = Detected]
  /\ UNCHANGED <<active, files, manifest, version, ran, op, history, bounds>>

\* Mutant: a folder that names no version clears the recorded one.
ListingSavesUnknown ==
  /\ listing.at = "save"
  /\ listing' = NoListing
  /\ version' = listing.found
  /\ disturbed' = (disturbed \/ listing.found # listing.row)
  /\ UNCHANGED <<active, files, manifest, ran, op, before, alarm, bounds>>

ListingSaves ==
  /\ listing.at = "save"
  /\ listing' = NoListing
  /\ IF listing.found \notin {Nothing, listing.row}
       THEN /\ version' = listing.found
            /\ disturbed' = TRUE
       ELSE UNCHANGED <<version, disturbed>>
  /\ UNCHANGED <<active, files, manifest, ran, op, before, alarm, bounds>>

-----------------------------------------------------------------------------
(* Around Blockstead's own work.                                           *)

\* A start holds update_lock too; the server writes a new log and stops.
ServerRuns ==
  /\ op = Idle
  /\ active # Nothing
  /\ ran' = active
  /\ UNCHANGED <<active, files, manifest, version, op, listing, history, bounds>>

\* The owner replaces the jar by hand.
OwnerSwapsJar(v) ==
  /\ op = Idle
  /\ swaps < MaxSwaps
  /\ swaps' = swaps + 1
  /\ active' = v
  /\ before' = v
  /\ disturbed' = TRUE
  /\ UNCHANGED <<files, manifest, version, ran, op, listing, alarm, failures,
                 crashes>>

\* The service is killed: a row that was not committed is not written.
Crash ==
  /\ op # Idle
  /\ crashes < MaxCrashes
  /\ crashes' = crashes + 1
  /\ op' = Idle
  /\ listing' = NoListing
  /\ disturbed' = TRUE
  /\ UNCHANGED <<active, files, manifest, version, ran, before, alarm, failures,
                 swaps>>

-----------------------------------------------------------------------------
Swap == Displace \/ Place \/ Record \/ Tidy \/ Drop \/ Commit \/ CommitFails
Repair == StepFails \/ PutBack \/ PutBackFails \/ CleanUp

Operation ==
  \/ Keep \/ UndoBegins \/ Snapshot \/ CopyToStage \/ CompensateBegins \/ Rebuild
  \/ Swap \/ Repair

Listing == ListingLoads \/ ListingScans \/ ListingSaves

Next ==
  \/ \E r \in Recoveries :
       \/ \E v \in Versions : ApplyUpgrade(r, v)
       \/ RestorePrevious(r)
  \/ Operation
  \/ Listing
  \/ ServerRuns
  \/ \E v \in Versions : OwnerSwapsJar(v)
  \/ Crash

Spec == Init /\ [][Next]_vars

-----------------------------------------------------------------------------
(* Properties.                                                             *)

Manifests ==
  [state : {"none", "unused", "used"}, previous : Jars, new : Jars, from : Jars]
Places == {"keep", "check", "snapshot", "rebuild", "stage", "displace", "place",
           "record", "tidy", "drop", "commit", "put_back", "clean_up"}
Operations ==
  [fn : Swaps, at : Places, rec : Recoveries, to : Jars] \union {Idle}

\* Files hold jars, and an operation in progress names its recovery.
TypeOK ==
  /\ active \in Jars /\ version \in Versions /\ ran \in Jars /\ before \in Versions
  /\ files \in [Recoveries -> [Slots -> Jars]]
  /\ manifest \in [Recoveries -> Manifests]
  /\ op \in Operations
  /\ listing \in [at : {"idle", "scan", "save"}, row : Jars, found : Jars]
  /\ disturbed \in BOOLEAN /\ alarm \in BOOLEAN
  /\ failures \in 0..MaxFailures /\ crashes \in 0..MaxCrashes
  /\ swaps \in 0..MaxSwaps

OnDisk == {active} \union {files[r][s] : r \in Recoveries, s \in Slots}

\* The jar the server used before an upgrade or a restore is on disk at every
\* step of it and afterwards, whatever fails and wherever the service dies.
JarInUseSurvives == before \in OnDisk

\* A recovery that its manifest calls unused still holds the jar it promises:
\* no crash between the manifest and the copies makes the record a lie.
UnusedHoldsItsJar ==
  \A r \in Recoveries :
    manifest[r].state = "unused" => files[r]["previous"] = manifest[r].previous

\* When upgrades and restores are over, by success or by repair, the profile
\* names the jar that is in place, unless the owner was told to inspect it.
VersionNamesTheJar == op = Idle /\ ~disturbed /\ ~alarm => version = active

\* A single failure never leaves the owner with a broken folder: every step,
\* and the commit, is repaired if nothing else goes wrong.
OneFailureIsRepaired == alarm => failures >= 2

\* "After an applied upgrade, Restore previous launch file can recover the
\* preserved jar": what is offered is not refused, if no unlink failed and no
\* crash left a file behind.
OfferedIsRestorable ==
  op = Idle /\ failures = 0 /\ crashes = 0
    => \A r \in Recoveries : Offered(r) => Restorable(r)

\* A listing records the version of the jar that is there: "a wrong version
\* silently installs the wrong artifacts later".
ListingTellsTheTruth ==
  [][op = Idle /\ op' = Idle /\ version' # version => version' = active]_vars

=============================================================================
