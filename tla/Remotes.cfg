SPECIFICATION Spec
CONSTANTS
  Cmd = {c1, c2}
  Repo = {r1}
  Days = 2
  MaxEdits = 2
  MaxFaults = 1
SYMMETRY Symmetry
CHECK_DEADLOCK FALSE
INVARIANTS
  SavedIsGot
  DefaultStays
  LocalKept
PROPERTIES
  DefaultAsksForIt
  LinkIsSafe
  CommitLinesWork
