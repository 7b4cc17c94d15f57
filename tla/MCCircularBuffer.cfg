SPECIFICATION Spec
CONSTANTS
  Element <- MCElement
  Default <- MCDefault
  Sizes <- MCSizes
INVARIANT TypeOK WildWriteNeedsMisuse FrontNewestBackOldest
PROPERTY WindowRefinement
CHECK_DEADLOCK FALSE
