--------------------------- MODULE MCLaunchUpgrade ---------------------------
(***************************************************************************)
(* LaunchUpgrade for TLC and, in the same run, the reviews of plans that   *)
(* come before an upgrade (MaintenancePlan): a behaviour takes the steps   *)
(* of one of them, chosen at the start.                                    *)
(***************************************************************************)
EXTENDS LaunchUpgrade, TLC

CONSTANTS Kinds, Backups, NoBackup, Loadouts, NoExtensions, Paper, LastRelease, Artifacts, NoArtifact,
  MaxMoves, MaxReviews

VARIABLES part, evidence, request, plans, acted, moves, reviews

P == INSTANCE MaintenancePlan

ASSUME P!ConstantsOK

reviewing == <<evidence, request, plans, acted, moves, reviews>>
mcvars == <<part, vars, reviewing>>

\* A part that rests has one initial state.
MCInit ==
  /\ Init /\ P!Init /\ part \in {"reviews", "upgrades"}
  /\ part = "upgrades" => evidence = CHOOSE e \in P!FirstEvidence : TRUE
  /\ part = "reviews" => active = 1 /\ version = 1

MCNext ==
  \/ part = "upgrades" /\ Next /\ UNCHANGED <<part, reviewing>>
  \/ part = "reviews" /\ P!Next /\ UNCHANGED <<part, vars>>
  \/ part = "reviews" /\ request = P!Idle /\ UNCHANGED mcvars   \* the bounds are reached

MCSpec == MCInit /\ [][MCNext]_mcvars

\* Recovery ids are random: only equality is ever asked of them.
Interchangeable == Permutations(Recoveries)

-----------------------------------------------------------------------------
(* Property of the second part.                                            *)

\* What the owner reviewed is what is booked or applied.
ActedAsReviewed == P!ActedAsReviewed
=============================================================================
