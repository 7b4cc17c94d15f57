SPECIFICATION Spec
CONSTANTS
  Hand <- MCHandTorn
  ZeroHand <- MCZeroHand
  Frame <- MCFrame
  MaxHands = 1
  FrameCount = 2
  RetryLimit = 1
  MaxConn = 1
  MaxDevices = 0
  Valid <- MCLeftOnly
  Keys <- MCKeys
  Lines <- MCLines
  MaxLines = 1
  MaxFdLeak = 1
  Open = "open"
INVARIANT OnlyLeftForwarded
CHECK_DEADLOCK FALSE
