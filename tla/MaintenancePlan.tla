---------------------------- MODULE MaintenancePlan ----------------------------
(***************************************************************************)
(* Reviewed maintenance plans (maintenance.py and its callers in app.py).  *)
(* A review turns evidence about one server into findings, steps and an    *)
(* id.  To book a window for the plan, or to apply it, the owner sends the *)
(* id back; the review is made again and compared with it.                 *)
(*                                                                         *)
(* A review waits several times while it gathers its evidence, and the     *)
(* evidence moves on meanwhile.  The server is a Paper or Fabric server    *)
(* that Blockstead recognises, not the practice server.                    *)
(***************************************************************************)
EXTENDS Naturals

CONSTANTS
  Kinds,      \* bound: the changes that the owner thinks of
  Backups, NoBackup,
  Loadouts,   \* sets of installed extensions
  NoExtensions,          \* the empty one
  Paper,                 \* whether it is a Paper server, or a Fabric one
  LastRelease,           \* releases are numbered, a newer one is greater
  Artifacts, NoArtifact, \* jars, by checksum
  MaxMoves, MaxReviews   \* bounds: changes of the evidence, requests

ConstantsOK ==
  /\ NoBackup \notin Backups /\ NoArtifact \notin Artifacts
  /\ {LastRelease, MaxMoves, MaxReviews} \subseteq Nat /\ Paper \in BOOLEAN

VARIABLES
  evidence,  \* about the server
  request,   \* the review that is being made
  plans,     \* those the owner has seen
  acted,     \* windows that were booked, upgrades that were let through
  moves, reviews
vars == <<evidence, request, plans, acted, moves, reviews>>

-----------------------------------------------------------------------------
(* Changes and evidence.                                                   *)

Releases == 1 .. LastRelease
NoRelease == 0

Changes == {"extension_update", "extension_install", "settings_change", "world_files", "server_upgrade"}
NeedsStop == Changes \ {"settings_change"}
VersionChanging == {"extension_update", "server_upgrade"}
Destructive == {"extension_install", "world_files", "server_upgrade"}
Risky == VersionChanging \union Destructive

\* whole: the archive passes its verification; fresh: it is no older than a day.
Points == {NoBackup} \union [id : Backups, whole : BOOLEAN, fresh : BOOLEAN]

\* What each piece of the evidence may say.
Readings ==
  [server |-> {"stopped", "running", "changing", "another"}, \* "another": of another profile
   players |-> {"none", "some", "silent"},
   backup |-> Points,
   room |-> {"plenty", "little", "none", "unmeasured"},      \* for a backup of the world
   waiting |-> BOOLEAN,                                      \* a saved change waits for a restart
   launch |-> {"complete", "broken", "no java", "unknown"},
   warned |-> BOOLEAN,                                       \* about the installed extensions
   loadout |-> Loadouts,
   due |-> BOOLEAN,                                          \* an operation is due within the hour
   source |-> {"read", "unordered", "failed"},               \* of the published releases
   releases |-> SUBSET Releases,                             \* those newer than the server's
   runtime |-> BOOLEAN,                                      \* the Java runtime of the target is here
   pin |-> Artifacts \union {NoArtifact},                    \* what is published for the target
   active |-> Artifacts \union {NoArtifact}]                 \* the launch jar
Pieces == DOMAIN Readings

Running(e) == e.server = "running"
Newest(S) == CHOOSE r \in S : \A s \in S : s <= r
UpToDate(e) == e.source = "read" /\ e.releases = {}
Target(c, e, asked) ==
  IF c # "server_upgrade" \/ e.source # "read" \/ e.releases = {} THEN NoRelease
  ELSE IF asked = NoRelease THEN Newest(e.releases) ELSE asked

\* A target that cannot be pinned, or whose predecessor cannot be read, is not installable.
Installable(e) ==
  e.source = "read" /\ e.releases # {} /\ e.runtime /\ NoArtifact \notin {e.pin, e.active}

-----------------------------------------------------------------------------
(* assess()                                                                *)

StateFinding(c, e) ==
  CASE e.server \in {"changing", "another"} -> "blocked"
    [] Running(e) /\ c \in NeedsStop -> "attention"
    [] OTHER -> "ready"

PlayerFinding(e) ==
  CASE ~Running(e) \/ e.players = "none" -> "ready"
    [] Running(e) /\ e.players = "silent" -> "unknown"
    [] Running(e) /\ e.players = "some" -> "attention"

Protected(e) == e.backup # NoBackup /\ e.backup.whole /\ e.backup.fresh
ProtectionFinding(c, e) ==
  IF Protected(e) THEN "ready" ELSE IF c \in Risky THEN "attention" ELSE "info"

DiskFinding(c, e) ==
  CASE e.room = "unmeasured" -> (IF c \in Risky THEN "unknown" ELSE "info")
    [] e.room = "none" -> (IF c \in Risky THEN "blocked" ELSE "attention")
    [] e.room = "little" -> "attention"
    [] e.room = "plenty" -> "ready"

RestartFinding(e) == IF Running(e) /\ e.waiting THEN "attention" ELSE "ready"

UpgradeFinding(c, e) ==
  CASE c # "server_upgrade" -> "absent"
    [] c = "server_upgrade" /\ ~Installable(e) -> "blocked"
    [] c = "server_upgrade" /\ Installable(e) -> "ready"

\* For an upgrade the runtime in question is the target's.
Launch(c, e) ==
  IF c = "server_upgrade" /\ e.source = "read" /\ e.releases # {} /\ e.launch # "broken"
  THEN (IF e.runtime THEN "complete" ELSE "no java") ELSE e.launch

\* Nothing proves that a Paper plugin supports the release that is installed.
Unproven(c, e) ==
  Paper /\ e.loadout # NoExtensions /\ Target(c, e, NoRelease) # NoRelease

CompatibilityFinding(c, e) ==
  CASE Launch(c, e) \in {"broken", "no java"} ->
         (IF c \in VersionChanging THEN "blocked" ELSE "attention")
    [] Launch(c, e) = "unknown" -> "unknown"
    [] Launch(c, e) = "complete" -> (IF e.warned \/ Unproven(c, e) THEN "attention" ELSE "ready")

Findings(c, e) ==
  [state |-> StateFinding(c, e), players |-> PlayerFinding(e),
   protection |-> ProtectionFinding(c, e), disk |-> DiskFinding(c, e),
   restart |-> RestartFinding(e), upgrade |-> UpgradeFinding(c, e),
   compatibility |-> CompatibilityFinding(c, e),
   schedule |-> IF e.due THEN "attention" ELSE "ready"]
Statuses(c, e) == {Findings(c, e)[f] : f \in DOMAIN Findings(c, e)}

Readiness(c, e) ==
  CASE c = "server_upgrade" /\ UpToDate(e) -> "not_applicable"
    [] ~(c = "server_upgrade" /\ UpToDate(e)) /\ "blocked" \in Statuses(c, e) -> "blocked"
    [] ~(c = "server_upgrade" /\ UpToDate(e)) /\ "blocked" \notin Statuses(c, e) ->
         (IF {"attention", "unknown"} \intersect Statuses(c, e) # {} THEN "ready_with_warnings"
          ELSE "ready")

Steps(c, e) ==
  [announce |-> IF ~Running(e) THEN "absent"
                ELSE IF PlayerFinding(e) \in {"attention", "unknown"} THEN "required" ELSE "recommended",
   save |-> IF Running(e) THEN "required" ELSE "absent",
   backup |-> IF c \in Risky THEN "required"
              ELSE IF Protected(e) THEN "not_needed" ELSE "recommended",
   stop |-> IF c \notin NeedsStop THEN "absent" ELSE IF Running(e) THEN "required" ELSE "not_needed",
   apply |-> "required",
   validate |-> IF c \in NeedsStop THEN "required" ELSE "absent",
   restart |-> IF c \in NeedsStop /\ Running(e) THEN "required" ELSE "recommended"]

\* Mutant: the readings that a plan names, without the outcomes of the checks.
FingerprintOfReadings(c, e, asked) ==
  [change |-> c, running |-> Running(e), loadout |-> e.loadout, target |-> Target(c, e, asked)]

\* Outcomes are part of it rather than the readings behind them.
Fingerprint(c, e, asked) ==
  [change |-> c, running |-> Running(e), occupied |-> e.server = "another",
   backup |-> IF e.backup = NoBackup THEN NoBackup ELSE e.backup.id,
   verified |-> e.backup # NoBackup /\ e.backup.whole,
   broken |-> e.launch = "broken", loadout |-> e.loadout,
   target |-> Target(c, e, asked),
   pin |-> IF c = "server_upgrade" /\ Installable(e) THEN e.pin ELSE NoArtifact,
   active |-> IF c = "server_upgrade" THEN e.active ELSE NoArtifact,
   findings |-> Findings(c, e), steps |-> Steps(c, e)]

-----------------------------------------------------------------------------
(* build_maintenance_plan(): the evidence, a piece at a time.              *)

Idle == [pc |-> "idle"]
Acts == {"book", "apply"}

\* A server that is fine, with releases to go to.
FirstEvidence ==
  {[server |-> server, players |-> "none", backup |-> [id |-> id, whole |-> TRUE, fresh |-> TRUE],
    room |-> "plenty", waiting |-> FALSE, launch |-> "complete", warned |-> FALSE,
    loadout |-> loadout, due |-> FALSE, source |-> "read", releases |-> Releases,
    runtime |-> TRUE, pin |-> jar, active |-> jar] :
      server \in {"stopped", "running"}, id \in Backups, loadout \in Loadouts, jar \in Artifacts}

Init ==
  /\ evidence \in FirstEvidence
  /\ request = Idle /\ plans = {} /\ acted = {} /\ moves = 0 /\ reviews = 0

Asked(pc, what, c, asked, plan) ==
  /\ request = Idle /\ reviews < MaxReviews /\ reviews' = reviews + 1
  /\ request' = [pc |-> pc, what |-> what, change |-> c, asked |-> asked, plan |-> plan,
                 read |-> evidence]
  /\ UNCHANGED <<evidence, plans, acted, moves>>

AfterState == IF Running(evidence) THEN "probe" ELSE "backup"

\* A target may be named, for an upgrade only.
AskForReview(c) ==
  \E asked \in {NoRelease} \union (IF c = "server_upgrade" THEN Releases ELSE {}) :
    Asked(AfterState, "review", c, asked, Idle)

\* The same request with the id of a plan; an upgrade is applied to a stopped
\* server, and with the target that was reviewed.
ActOn(plan, what) ==
  /\ what = "apply" =>
       plan.change = "server_upgrade" /\ plan.id.target # NoRelease /\ evidence.server = "stopped"
  /\ \E asked \in {plan.asked, plan.id.target} :
       /\ what = "apply" => asked = plan.id.target
       /\ Asked(AfterState, what, plan.change, asked, plan)

At(pc) == request.pc = pc
Goes(pc, read) ==
  /\ request' = [request EXCEPT !.pc = pc, !.read = read]
  /\ UNCHANGED <<evidence, plans, acted, moves, reviews>>
Refused ==
  request' = Idle /\ UNCHANGED <<evidence, plans, acted, moves, reviews>>

\* Players that do not answer in time are unknown.
ReadPlayers ==
  /\ At("probe")
  /\ \E answer \in {evidence.players, "silent"} : Goes("backup", [request.read EXCEPT !.players = answer])

FindBackup ==
  /\ At("backup")
  /\ Goes(IF evidence.backup = NoBackup THEN "rest" ELSE "verify",
          [request.read EXCEPT !.backup = evidence.backup])

\* The archive that was newest is verified; a newer one may be there by now.
Verified(id) ==
  IF evidence.backup # NoBackup /\ evidence.backup.id = id THEN {evidence.backup}
  ELSE [id : {id}, whole : BOOLEAN, fresh : BOOLEAN]
VerifyBackup ==
  /\ At("verify")
  /\ \E point \in Verified(request.read.backup.id) : Goes("rest", [request.read EXCEPT !.backup = point])

ReadTheRest ==
  /\ At("rest")
  /\ Goes(IF request.change = "server_upgrade" THEN "releases" ELSE "answer",
          [request.read EXCEPT !.room = evidence.room, !.waiting = evidence.waiting,
             !.launch = evidence.launch, !.warned = evidence.warned, !.loadout = evidence.loadout,
             !.due = evidence.due])

\* A target that was named must be among the releases.
CanSelect(asked) == asked = NoRelease \/ (evidence.source = "read" /\ asked \in evidence.releases)
ReadReleases ==
  /\ At("releases")
  /\ IF ~CanSelect(request.asked) THEN Refused
     ELSE Goes("active", [request.read EXCEPT !.source = evidence.source,
                            !.releases = evidence.releases, !.runtime = evidence.runtime])

ReadActive == At("active") /\ Goes("pin", [request.read EXCEPT !.active = evidence.active])
PinTarget == At("pin") /\ Goes("answer", [request.read EXCEPT !.pin = evidence.pin])

-----------------------------------------------------------------------------
(* What becomes of the review.                                             *)

Fresh == Fingerprint(request.change, request.read, request.asked)
Bookable(c, e) == Readiness(c, e) \notin {"blocked", "not_applicable"}

AnswerReview ==
  /\ At("answer") /\ request.what = "review"
  /\ plans' = plans \union {[change |-> request.change, asked |-> request.asked, id |-> Fresh,
                             read |-> request.read]}
  /\ request' = Idle
  /\ UNCHANGED <<evidence, acted, moves, reviews>>

Confirmed == Fresh = request.plan.id /\ Bookable(request.change, request.read)

\* Applying needs a backup that can be used now.
MayAct == Confirmed /\ (request.what = "apply" => Protected(request.read))

\* A window is an event of its own, which may be due within the hour.
Act ==
  /\ At("answer") /\ request.what \in Acts /\ MayAct
  /\ acted' = acted \union {[what |-> request.what, change |-> request.change,
                             target |-> Fresh.target, seen |-> request.plan.read,
                             read |-> request.read]}
  /\ evidence' \in {evidence} \union
       (IF request.what = "book" THEN {[evidence EXCEPT !.due = TRUE]} ELSE {})
  /\ request' = Idle
  /\ UNCHANGED <<plans, moves, reviews>>

\* The fresh review goes back with the refusal of a stale plan.
Refuse ==
  /\ At("answer") /\ request.what \in Acts /\ ~MayAct
  /\ plans' = plans \union (IF request.what = "book" /\ Fresh # request.plan.id
                            THEN {[change |-> request.change, asked |-> request.asked, id |-> Fresh,
                                   read |-> request.read]} ELSE {})
  /\ request' = Idle
  /\ UNCHANGED <<evidence, acted, moves, reviews>>

-----------------------------------------------------------------------------
(* The evidence moves on.                                                  *)

Move ==
  /\ moves < MaxMoves /\ moves' = moves + 1
  /\ \E p \in Pieces : \E reading \in Readings[p] : evidence' = [evidence EXCEPT ![p] = reading]
  /\ UNCHANGED <<request, plans, acted, reviews>>

Next ==
  \/ \E c \in Kinds : AskForReview(c)
  \/ \E plan \in plans, what \in Acts : ActOn(plan, what)
  \/ ReadPlayers \/ FindBackup \/ VerifyBackup \/ ReadTheRest
  \/ ReadReleases \/ ReadActive \/ PinTarget
  \/ AnswerReview \/ Act \/ Refuse
  \/ Move

Spec == Init /\ [][Next]_vars

-----------------------------------------------------------------------------
(* Properties.                                                             *)

Usable(e) == e.server \in {"stopped", "running"}

\* What the owner reviewed is what is booked or applied, though the evidence
\* was gathered a second time while it moved on: the same server and
\* extensions, the same newest backup, as good as it was, and for an upgrade
\* the same jar to replace and the same one to install.  Nothing is booked that
\* a check forbids, and an upgrade is applied to a stopped server with a
\* backup of the last day.
ActedAsReviewed ==
  \A act \in acted :
    LET c == act.change  seen == act.seen  read == act.read
    IN /\ Usable(read) /\ seen.server = read.server /\ seen.loadout = read.loadout
       /\ Protected(seen) = Protected(read)
       /\ IF seen.backup = NoBackup THEN read.backup = NoBackup
          ELSE /\ read.backup # NoBackup /\ read.backup.id = seen.backup.id
               /\ read.backup.whole = seen.backup.whole
       /\ c \in Risky => seen.room # "none" /\ read.room # "none"
       /\ c \in VersionChanging => read.launch # "broken"
       /\ c = "server_upgrade" =>
            /\ Installable(read) /\ read.pin = seen.pin /\ read.active = seen.active
            /\ act.target \in read.releases \intersect seen.releases
       /\ act.what = "apply" => read.server = "stopped" /\ Protected(read)

\* A change is called ready only if everything that was asked is known and good.
ReadyIsEarned(c, e) ==
  Readiness(c, e) = "ready" =>
    /\ Usable(e) /\ ~e.due /\ ~e.warned /\ ~Unproven(c, e) /\ Launch(c, e) = "complete"
    /\ c \in NeedsStop => ~Running(e)
    /\ Running(e) => e.players = "none" /\ ~e.waiting
    /\ c \in Risky => Protected(e) /\ e.room = "plenty"
    /\ c = "server_upgrade" => Installable(e)
=============================================================================
