SPECIFICATION WrapperSpec
CONSTANTS
  Hand <- MCHandOne
  ZeroHand <- MCZeroHand
  Frame <- MCFrameOne
  MaxHands = 2
  FrameCount = 2
  RetryLimit = 1
  MaxConn = 2
  MaxDevices = 0
INVARIANT WrapperTypeOK NoUseAfterDestroy NoThreadOutlivesConnection OverrunNeedsPendingFrame
CHECK_DEADLOCK FALSE
