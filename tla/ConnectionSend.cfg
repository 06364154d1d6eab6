SPECIFICATION Spec
CONSTANTS
  MaxReq = 1
  MaxResp = 2
  FrameLen = 2
  SendSizes = {1, 2}
CHECK_DEADLOCK FALSE
INVARIANTS
  SentOnce
