SPECIFICATION Spec
CONSTANTS
  Call = {c1, c2, c3}
  Port = {1, 2}
  MaxConn = 1
CHECK_DEADLOCK FALSE
SYMMETRY Symmetry
INVARIANTS
  NoLeak
  ClosedOnExit
PROPERTIES
  ListsForwarders
  RefusedIfOpened
