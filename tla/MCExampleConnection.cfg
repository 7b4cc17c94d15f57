SPECIFICATION FairSpec
CONSTANTS
  Programs = {"polling", "recording", "callback"}
  MaxFrame = 3
  MaxDevice = 3
  Recorded = 2
INVARIANT FramesAreWhole NothingUsedAfterEnd SerialNeedsSecondDevice OnlyFailedInfoLeaks
PROPERTY NewestFrameIsSeen
CHECK_DEADLOCK FALSE
