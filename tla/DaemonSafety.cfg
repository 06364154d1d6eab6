SPECIFICATION Spec
CONSTANTS
  c1 = c1
  c2 = c2
  c3 = c3
  Cmd = {c1, c2}
  Root = {r1, r2}
  Versions = {v1, v2}
  Kinds = {"start", "stop", "restart", "port", "info"}
  Tries = 2
  MaxFaults = 1
SYMMETRY Symmetry
INVARIANTS
  SameWorkspace
  SignalsOwnWorkspace
  NoAssertion
