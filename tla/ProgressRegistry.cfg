SPECIFICATION FairSpec
CONSTANTS
  N = 1
  Pages = {a, b}
  Streams = {g1, g2}
  NoStream = NoStream
  Backlog = 2
  Requests = {}
  Faults = {"drop", "race", "reload", "raise"}
INVARIANTS
  NewestStaysRegistered
PROPERTIES
  StaleStreamsEnd
