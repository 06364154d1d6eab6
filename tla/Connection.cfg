SPECIFICATION Spec
CONSTANTS
  MaxReq = 3
  MaxResp = 3
  FrameLen = 2
  SendSizes = {2}
CHECK_DEADLOCK FALSE
INVARIANTS
  JoinedBeforeClose
  DeliveredBeforeClose
PROPERTIES
  ImplementsPipe
  EndsUnlessStranded
