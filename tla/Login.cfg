SPECIFICATION Spec
CONSTANTS
  Cmd = {c1, c2}
  MaxTime = 2
  MaxFaults = 2
CHECK_DEADLOCK FALSE
INVARIANTS
  RefreshTokenKept
  LoginIsSaved
PROPERTIES
  TryAgainStartsOver
  CodeEndsLogin
