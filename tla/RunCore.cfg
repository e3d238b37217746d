SPECIFICATION FairSpec
CONSTANTS
  N = 5
  Slots = {t1}
  NoTask = NoTask
  Editable <- TextStages
  Ops <- Everything
  Client <- Disciplined
  Faults <- AnyFault
  CrashAt = {}
INVARIANTS
  
  DecisionReachesItsGate
PROPERTIES
  ApprovalStands
  StageFollowsApproval
  DriversFinish
