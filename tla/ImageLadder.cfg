SPECIFICATION FairSpec
CONSTANTS
  N = 2
  Prompts <- TwoPrompts
  CastShots <- None
  PlateShots <- None
  PlateRooms <- None
  MaxAttempts = 2
  BreakerStreak = 1
  BreakerTotal = 2
  PollEvery = 2
  Passes = 2
  Configs <- LongLadder
  Faults = {"comfy", "redraft", "redo", "undeleted"}
INVARIANTS
  FramesFitTheDraft
  OutagesAreBounded
PROPERTIES
  PassEnds
CHECK_DEADLOCK FALSE
