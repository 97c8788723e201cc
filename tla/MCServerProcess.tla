--------------------------- MODULE MCServerProcess ---------------------------
(***************************************************************************)
(* ServerProcess for TLC, in one run for both kinds of output pipe: in a   *)
(* behaviour either the manager of ServerProcess takes the steps, and its  *)
(* pipes close with their servers, or a second copy of it does, which has  *)
(* one caller, and a child of its server may hold the pipe open.           *)
(***************************************************************************)
EXTENDS ServerProcess

CONSTANTS Caller, LingeringProfiles

VARIABLES
  part,
  state2, process2, force2, owner2, lock2, os2, asked2, sig2, eof2, ready2, reader2,
  spawnedFor2, lines2, pc2, target2, closing2

Lingering == INSTANCE ServerProcess WITH
  Callers <- {Caller}, Profiles <- LingeringProfiles, PipeMayLinger <- TRUE,
  state <- state2, process <- process2, force_requested <- force2, owner <- owner2,
  lock <- lock2, os <- os2, asked <- asked2, sig <- sig2, eof <- eof2, ready <- ready2,
  reader <- reader2, spawnedFor <- spawnedFor2, lines <- lines2, pc <- pc2,
  target <- target2, closing <- closing2

ASSUME Caller # Closer

copy == <<state2, process2, force2, owner2, lock2, os2, asked2, sig2, eof2, ready2, reader2,
          spawnedFor2, lines2, pc2, target2, closing2>>
mcvars == <<part, vars, copy>>

MCInit == Init /\ Lingering!Init /\ part \in {"closing pipes", "lingering pipes"}

MCNext ==
  \/ part = "closing pipes" /\ Next /\ UNCHANGED <<part, copy>>
  \/ part = "lingering pipes" /\ Lingering!Next /\ UNCHANGED <<part, vars>>

\* Nothing that Fairness forces can happen in a manager that rests.
MCFairSpec == MCInit /\ [][MCNext]_mcvars /\ Fairness

-----------------------------------------------------------------------------
(* Property of the second copy.                                            *)

\* Until shutdown somebody reads every live server's output, also while the pipe
\* of an earlier one is still open.
OutputIsDrained == Lingering!ConsoleIsDrained

=============================================================================
