SPECIFICATION Spec
CONSTANTS
  Hand <- MCHandLeft
  ZeroHand <- MCZeroHand
  Frame <- MCFrameLeft
  MaxHands = 1
  FrameCount = 1
  RetryLimit = 1
  MaxConn = 2
  MaxDevices = 0
  Valid <- MCBoth
  Keys <- MCKeys
  Lines <- MCLines
  MaxLines = 1
  MaxFdLeak = 1
  Open = "open"
INVARIANT MessageStillValid
CHECK_DEADLOCK FALSE
