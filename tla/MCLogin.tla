------------------------------ MODULE MCLogin ------------------------------
(* Login, with processes that are interchangeable. *)
EXTENDS Login, TLC

Symmetry == Permutations(Cmd)
=============================================================================
