SPECIFICATION FairSpec
CONSTANTS
  N = 3
  Pages = {a}
  Streams = {g1, g2}
  NoStream = NoStream
  Backlog = 6
  Requests = {"approve", "reject", "retry"}
  Faults = {"reload"}
INVARIANTS
  PageIsRight
PROPERTIES
  PageCatchesUp
