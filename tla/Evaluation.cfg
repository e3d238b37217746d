SPECIFICATION EvaluationSpec
CONSTANTS
  Bs = {b1, b2}
  b1 = b1
  b2 = b2
  Axes = {"atmosphere", "fidelity"}
  Scores = {1, 2}
  Reps = 3
  Floor = 2
  Chain <- MCChain
  Readings <- MCReadings
  MaxEvals = 2
  MaxChanges = 2
  Operator = {"retry", "edit", "again"}
  Faults = {"timeout", "junk", "crash"}
  i1 = i1
  i2 = i2
  Items = {i1, i2}
  Canary = i1
  PromotionReps = 3
  RepsAsked = {0, 1, 2, 3}
  Measured = {"atmosphere", "fidelity"}
  Draws <- MCDraws
  Shots <- MCShots
  Narration = {1, 2, 3}
  SweepsAsked <- MCSweeps
  Grades = {2, 3, 4}
  Graphs <- MCGraphs
  MostProps = 3
  Whole = 6
  Found <- MCFound
INVARIANTS
  
  VerdictIsOfThisPair
CHECK_DEADLOCK FALSE
