SPECIFICATION Spec
CONSTANTS
  Cmd = {c1, c2}
  File = {f1, f2}
  Edits = {e1}
  Quiet = TRUE
  MaxFreezes = 0
CHECK_DEADLOCK FALSE
SYMMETRY Symmetry
INVARIANTS
  InterruptKills
