------------------------- MODULE MCDaemonLifecycle -------------------------
(* Small instances of DaemonLifecycle for TLC. *)
EXTENDS DaemonLifecycle, TLC

CONSTANTS c1, c2, c3

\* Invocations, workspaces and versions are interchangeable: no action or
\* invariant names one of them.  (Used by the runs without liveness.)
Symmetry == Permutations(Cmd) \cup Permutations(Root) \cup Permutations(Versions)

\* Two invocations that race for the daemon, of every pair of kinds (the two are
\* interchangeable, so one order of a pair is enough), then "rx daemon stop" alone.
Rank == [start |-> 1, stop |-> 2, restart |-> 3, port |-> 4]
StopIsLast ==
  /\ Init
  /\ kind[c3] = "stop"
  /\ Rank[kind[c1]] <= Rank[kind[c2]]
WaitsItsTurn == cli'[c3].pc # "new" => Alone(c3) \/ cli[c3].pc # "new"
StopLastSpec == StopIsLast /\ [][Next /\ WaitsItsTurn]_vars /\ Fairness
=============================================================================
