--------------------------- MODULE MCPortService ---------------------------
(* Small instances of PortService for TLC. *)
EXTENDS PortService, TLC

\* Calls are interchangeable.
Symmetry == Permutations(Call)
=============================================================================
