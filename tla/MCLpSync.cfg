SPECIFICATION FairNetSpec
CONSTANTS
  Hand <- MCHand
  ZeroHand <- MCZeroHand
  Frame <- MCFrameWide
  MaxHands = 2
  FrameCount = 1
  RetryLimit = 1
  MaxConn = 1
  MaxDevices = 0
  Valid <- MCLeftOnly
  Keys <- MCKeys
  Lines <- MCLines
  MaxLines = 1
  MaxFdLeak = 1
  Open = "open"
PROPERTY ImplementsLifecycle NoHandOpens
CHECK_DEADLOCK FALSE
