---------------------------- MODULE ServerPromise ----------------------------
(***************************************************************************)
(* What ProcessManager promises to the dashboard, the scheduler and every  *)
(* mutation that asks "is the server stopped?": at most one server at a    *)
(* time, never launched twice, and a display that returns to "down" only   *)
(* once that server is gone.  Locks, readers, signals and timeouts do not  *)
(* appear here; ServerProcess supplies them.                               *)
(***************************************************************************)
CONSTANTS Runs

VARIABLES
  phase,   \* what is displayed: down, starting, running or stopping
  live,    \* the servers that exist
  used     \* every server ever launched

vars == <<phase, live, used>>

Init == phase = "down" /\ live = {} /\ used = {}

Start ==
  /\ phase = "down"
  /\ live = {}
  /\ phase' = "starting"
  /\ UNCHANGED <<live, used>>

Launch(r) ==
  /\ phase = "starting"
  /\ live = {}
  /\ r \notin used
  /\ live' = {r}
  /\ used' = used \union {r}
  /\ UNCHANGED phase

Ready ==
  /\ phase = "starting"
  /\ phase' = "running"
  /\ UNCHANGED <<live, used>>

Stop ==
  /\ phase \in {"starting", "running"}
  /\ phase' = "stopping"
  /\ UNCHANGED <<live, used>>

Die(r) ==
  /\ live = {r}
  /\ live' = {}
  /\ UNCHANGED <<phase, used>>

GoDown ==
  /\ phase # "down"
  /\ live = {}
  /\ phase' = "down"
  /\ UNCHANGED <<live, used>>

Next ==
  \/ Start
  \/ \E r \in Runs : Launch(r) \/ Die(r)
  \/ Ready
  \/ Stop
  \/ GoDown

Spec == Init /\ [][Next]_vars

=============================================================================
