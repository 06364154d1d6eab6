----------------------------- MODULE MCRemotes -----------------------------
(* Small instances of Remotes for TLC. *)
EXTENDS Remotes, TLC

\* No action or property names a process or a repository.
Symmetry == Permutations(Cmd) \cup Permutations(Repo)
=============================================================================
