---------------------------- MODULE MCRemoteRun ----------------------------
(* Small instances of RemoteRun for TLC. *)
EXTENDS RemoteRun, TLC

\* Invocations and files are interchangeable.
Symmetry == Permutations(Cmd) \cup Permutations(File)
=============================================================================
