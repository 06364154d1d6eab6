SPECIFICATION Spec
CONSTANTS
  Cmd = {c1, c2}
  Repo = {r1}
  Days = 1
  MaxEdits = 1
  MaxFaults = 0
SYMMETRY Symmetry
CHECK_DEADLOCK FALSE
PROPERTIES
  StopLinesWork
