SPECIFICATION FairSpec
CONSTANTS
  Hand <- MCHandLeft
  ZeroHand <- MCZeroHand
  Frame <- MCFrameNone
  MaxHands = 0
  FrameCount = 1
  RetryLimit = 1
  MaxConn = 2
  MaxDevices = 0
  Valid <- MCBoth
  Keys <- MCKeys
  Lines <- MCLinesTyped
  MaxLines = 2
  MaxFdLeak = 2
  Open = "open"
INVARIANT ExitClean SocketOpenWhileSending LeaksPerRetry
PROPERTY QuitEnds
CHECK_DEADLOCK FALSE
