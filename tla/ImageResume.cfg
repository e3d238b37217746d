SPECIFICATION Spec
CONSTANTS
  N = 2
  Prompts <- OnePrompt
  CastShots <- First
  PlateShots <- First
  PlateRooms <- AnyRoom
  MaxAttempts = 1
  BreakerStreak = 1
  BreakerTotal = 2
  PollEvery = 2
  Passes = 3
  Configs <- AnySetting
  Faults = {"crash", "comfy", "disk", "redo", "plates"}
INVARIANTS
  DefectsAreReported
PROPERTIES
  CompletedIsKept
