SPECIFICATION Spec
CONSTANTS
  Cmd = {c1, c2}
  Kinds = {"init", "run", "stop", "subscribe", "unsubscribe"}
  Polls = 2
  MaxFreezes = 2
  MaxFaults = 1
CHECK_DEADLOCK FALSE
INVARIANTS
  RestoredIsNamed
  PairsMatch
  EmptyOnlyWhileWritten
PROPERTIES
  InitIsUsable
  NoOrphan
  WaitEnds
