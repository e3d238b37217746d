SPECIFICATION Spec
CONSTANTS
  N = 5
  Slots = {t1}
  NoTask = NoTask
  Editable <- TextStages
  Ops <- Everything
  Client <- Disciplined
  Faults <- AnyFault
  CrashAt <- SafePoints
INVARIANTS
  CompleteIsApproved
  WorkIsBehindApprovals
  
  NeverStuck
  OrphanIsResumable
  RowProjectsApprovals

  
