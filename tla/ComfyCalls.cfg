SPECIFICATION FairSpec
CONSTANTS
  Callers = {"a", "b"}
  Bare = {"b"}
  ConnectAttempts = 2
  DropResubmits = 1
  MaxPolls = 3
  GraceEvery = 2
  MaxMishaps = 2
  Faults = {"upload", "refused", "reply", "invalid", "unread", "drop", "broken", "unsaid", "view", "restart"}
INVARIANTS
  ResubmitsAreFresh
PROPERTIES
  AnswersItsCall
CHECK_DEADLOCK FALSE
