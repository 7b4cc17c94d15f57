SPECIFICATION TaskSpec
CONSTANTS
  NaN = NaN
  FingerNum = 2
  BoneAngle <- MCBoneAngle
  Garbage <- MCGarbage
  Valid <- MCBoth
  LowerLimits <- MCLower
  UpperLimits <- MCUpper
  Tasks = {"leap_motion_demo", "test_by_hand", "self_check"}
  SelfCheck1 <- MCSelfCheck1
  SelfCheck2 <- MCSelfCheck2
  Typed <- MCTyped
INVARIANT SentInLimits ThumbMakesWay Processed EndsAtRest OneJointAtATime
PROPERTY FourthPlaceSettles
CHECK_DEADLOCK FALSE
