SPECIFICATION WrapperFairSpec
CONSTANTS
  Hand <- MCHand
  ZeroHand <- MCZeroHand
  Frame <- MCFrame
  MaxHands = 2
  FrameCount = 3
  RetryLimit = 2
  MaxConn = 1
  MaxDevices = 1
INVARIANT HandsAgeBounded
PROPERTY InitializedNeverCrashes CallReturns
CHECK_DEADLOCK FALSE
