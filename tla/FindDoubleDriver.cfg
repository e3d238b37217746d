SPECIFICATION Spec
CONSTANTS
  N = 2
  Slots = {t1, t2}
  NoTask = NoTask
  Editable <- FirstStage
  Ops = {"gate", "resume"}
  Client = {"current_gate"}
  Faults = {}
  CrashAt = {}
INVARIANTS
  OneDriver
CHECK_DEADLOCK FALSE
