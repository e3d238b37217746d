SPECIFICATION Spec
CONSTANTS
  N = 2
  MaxMishaps = 2
  Mishaps = {"cut", "down", "broken", "unquoted", "miscount", "archetype", "ledger", "length"}
  a = a
  b = b
  x = x
  y = y
  Keys <- MCKeys
  Strangers <- MCStrangers
  Mode <- MCMode
  Frames <- MCFrames
  Narrations <- Texts
  D = 13
  MinClip = 3
  Heard <- MCHeard
  Beats <- MCBeats
  Ledgers <- MCLedgers
  MaxOutline = 5
  MaxTakes = 3
  MaxFilm = 2
INVARIANTS
  PlanHolds
  ImagesFollowTheSpeech
PROPERTIES
  RewritingIsSound
  PlacementsAreSound
