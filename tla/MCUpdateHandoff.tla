---------------------------- MODULE MCUpdateHandoff ----------------------------
(***************************************************************************)
(* UpdateHandoff for TLC, and what README.md says of the empty server.     *)
(***************************************************************************)
EXTENDS UpdateHandoff

\* "Stops it safely, updates, then starts it again if it was running before."
StoppedServerStartsAgain ==
  cause \in {"updater", "forgone"} ~> cause \in {"owner", "unasked"}
=============================================================================
