SPECIFICATION Spec
CONSTANTS
  Castings <- MCCastings
  Stocks <- MCStocks
  MaxMeanwhile = 2
  Shots = 2
  Cast <- MCCast
  Looks = {"SCP-049"}
  MaxRounds = 4
  MaxSamples = 1
  Changes = {"redo", "redraft", "graph", "off"}
  Faults = {"resolver", "card", "preflight", "render", "stamp", "ffmpeg", "crash"}
  Clips = {"c1", "c2"}
  Trajectories = {"calm", "shaken"}
  MotionFaults = {"flow", "warp", "probe", "raise", "kill"}
  MaxFilms = 2
  MaxRemakes = 1
  Scripts <- MCScripts
  Knobs <- MCKnobs
  FilmFaults = {"missing", "stop", "credit"}
  MaxTakes = 2
  Troupes <- MCTroupes
  MostClips = 3
  Plates <- MCPlates
  Aspects = {1778, 1600}
  Hints = {"locked", "push_in", "pull_back", "drift", "shake", ""}
  Turns = {0, 1, 2, 3, 4, 5, 6, 7, 8, 9}
  Moves <- MCMoves
  Lengths <- MCLengths
  XyPeak = 38
INVARIANTS
  CastIsSeen
  AttributionIsTrue
  FilmIsTrue
  CardsStandTrue
PROPERTIES
  MotionIsOfItsPlate
CHECK_DEADLOCK FALSE
