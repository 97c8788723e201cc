------------------------------- MODULE MCDiscord -------------------------------
(***************************************************************************)
(* ConnectorRotation and StatusDelivery for TLC, in one run: a behaviour   *)
(* takes the steps of one part, chosen at the start, while the other rests *)
(* in its initial state.  Each has its own number of faults.               *)
(***************************************************************************)
EXTENDS ConnectorRotation

CONSTANTS States, Attempts, MaxChanges, StatusFaults, Nothing

VARIABLES
  part,
  status, sequence, sent, hostShare, wanted, pass, link, statuses, share, newest, snapshot,
  stale, delivered, known, desired, attempted, changed, worker, waiting, message, forgot, changes

S == INSTANCE StatusDelivery WITH MaxFaults <- StatusFaults

ASSUME ConstantsOK /\ S!ConstantsOK

rotating == <<committed, pending, disk, up, identity, client, session, greeting, rotation,
              outcome, made, overtaken>>
showing == <<status, sequence, sent, hostShare, wanted, pass, link, statuses, share, newest,
             snapshot, stale, delivered, known, desired, attempted, changed, worker, waiting,
             message, forgot, changes>>
mcvars == <<part, faults, rotating, showing>>

MCInit == Init /\ S!Init /\ part \in {"rotation", "status"}

InRotation(A) == part = "rotation" /\ A /\ UNCHANGED <<part, showing>>
InStatus(A) == part = "status" /\ A /\ UNCHANGED <<part, rotating>>

MCNext == InRotation(Next) \/ InStatus(S!Next)

MCSpec == MCInit /\ [][MCNext]_mcvars

\* The fairness of each part.
MCFairSpec ==
  /\ MCSpec
  /\ WF_mcvars(InRotation(LoopStep)) /\ WF_mcvars(InRotation(Start))
  /\ WF_mcvars(InRotation(RotateStep /\ rotation # "idle"))
  /\ WF_mcvars(InStatus(S!Connect)) /\ WF_mcvars(InStatus(S!HostStep))
  /\ WF_mcvars(InStatus(S!HostLearnsShare)) /\ WF_mcvars(InStatus(S!RelayRefuses))
  /\ WF_mcvars(InStatus(S!RelayReceives)) /\ WF_mcvars(InStatus(S!WorkerStep))
  /\ WF_mcvars(InStatus(S!Scan))

-----------------------------------------------------------------------------
(* Properties of the second part.                                          *)

\* An address is kept and wanted in the channel only while it is shared.
AddressNeedsConsent == S!AddressNeedsConsent

\* The newest status ends up in the channel.
StatusIsShown == part = "status" => S!StatusIsShown
=============================================================================
