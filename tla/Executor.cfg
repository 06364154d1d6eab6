SPECIFICATION Spec
CONSTANTS
  MaxKeys = 3
  MaxResponses = 2
CHECK_DEADLOCK FALSE
INVARIANTS
  TerminalRestored
PROPERTIES
  StdinInOrder
  TypedIsSent
  LeavesInputAlone
