------------------------------ MODULE MCBackups ------------------------------
(* Small instances of Backups for TLC. *)
EXTENDS Backups, TLC

\* Tasks and profiles are told apart by equality alone.
Interchangeable == Permutations(Tasks) \union Permutations(Profiles)

=============================================================================
