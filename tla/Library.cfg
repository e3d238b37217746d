CONSTANTS
  Entity = SCP049
  SCP049_2 = SCP049_2
  SCP049_3 = SCP049_3
  SCP049_4 = SCP049_4
  Offshoots <- ThreeOffshoots
  Hints <- OneHint
  Angles <- MCAngles
  Visited = {SCP049, SCP049_2}
  Authored = {SCP049_2, SCP049_3}
  NoRow = NoRow
  Free = Free
  Runs = {r1, r2}
  PoseCap = 1
  DerivedCap = 2
  MaxDisturbances = 1
  Sets = {"standing", "lying"}
  KeyOf <- MCKeyOf
  Standing = {"standing"}
  Bare = {}
  StagingFaults = {"angle", "read", "raise", "kill"}
  MaxStages = 2
  MaxEdits = 1
  Filmed = {"standing"}
  LightFaults = {"render", "torn store"}
  MaxRelights = 2
  Plates = {"lab/a", "lab/b"}
  ShelfFaults = {"render", "invalid", "scorer", "stop"}
  MaxPlates = 2
  Estimators = {run, backfill}
  UploadOf <- BaseName
  Models = {"small", "base"}
  DepthFaults = {"estimate", "torn pair"}
  MaxMaps = 2
  Faces <- MCAngles
  BoardFaults = {"draw", "kill"}
  MaxBatches = 3
  MaxVisits = 4
  Others = {"back"}
  DrawFaults = {"guide", "reference", "render", "crowd", "empty", "read", "kill"}
  MaxOrders = 2
SPECIFICATION LibrarySpec
SYMMETRY Alike
CHECK_DEADLOCK FALSE
INVARIANTS
  NobodyIsForgotten
  
  StagingIsAllOrNothing
  NothingIsOfAnother
  BoardIsTrue
PROPERTIES
  NoRunTakesCardsAway
