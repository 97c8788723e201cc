----------------------------- MODULE MCBackground -----------------------------
(***************************************************************************)
(* Alerts and Automation for TLC, in one run: a behaviour takes the steps  *)
(* of one loop, chosen at the start, while the other rests in an initial   *)
(* state.  Each has its own changes and faults.                            *)
(***************************************************************************)
EXTENDS Alerts

CONSTANTS Profiles, Events, MaxClock, Times, Archives, MaxAsked, MaxMishaps

VARIABLES
  part,
  clock, plans, marks, events, recorded, carried, lost, tick, run, server, asked, mishaps

A == INSTANCE Automation WITH
       MaxChanges <- MaxAsked, MaxFaults <- MaxMishaps, changes <- asked, faults <- mishaps

ASSUME ConstantsOK /\ A!ConstantsOK

planning == <<clock, plans, marks, events, recorded, carried, lost, tick, run, server, asked,
              mishaps>>
mcvars == <<part, vars, planning>>

MCInit ==
  /\ Init /\ A!Init /\ part \in {"alerts", "automation"}
  /\ part = "alerts" => server.state = "stopped" /\ \A p \in Profiles : plans[p].backup

InAlerts(Step) == part = "alerts" /\ Step /\ UNCHANGED <<part, planning>>
InAutomation(Step) == part = "automation" /\ Step /\ UNCHANGED <<part, vars>>

MCNext == InAlerts(Next) \/ InAutomation(A!Next)

MCSpec == MCInit /\ [][MCNext]_mcvars

\* The fairness of each part.
MCFairSpec ==
  /\ MCSpec
  /\ WF_mcvars(InAlerts(LoopStep)) /\ \A r \in Rows : WF_mcvars(InAlerts(DueAgain(r)))
  /\ WF_mcvars(InAutomation(A!TickStep))

-----------------------------------------------------------------------------
(* Properties of the second part.                                          *)

\* Plans and events are carried out once, and what is carried out is recorded.
OnceAndRecorded == A!OnceAndRecorded

\* A one-time event whose minute has come is carried out or cancelled.
DueEventsEnd == A!DueEventsEnd
=============================================================================
