SPECIFICATION Spec
CONSTANTS
  Cmd = {c1, c2}
  File = {f1, f2}
  Edits = {e1}
  Quiet = TRUE
  MaxFreezes = 1
CHECK_DEADLOCK FALSE
SYMMETRY Symmetry
PROPERTIES
  NoLostEdit
  RunsInSync
  OutputsComeBack
  RestoredIsFound
