------------------------------- MODULE RunProofs -------------------------------
(***************************************************************************)
(* Theorems about RunService, for every number of stages, every set of     *)
(* tasks, and the operator and faults the constants allow.                 *)
(*                                                                         *)
(* First what holds of every operator and every crash.  Then the safety of *)
(* a run when the operator keeps the habits of the web UI and the process  *)
(* dies only where no bookkeeping is lost: the inductive invariant behind  *)
(* the invariants RunCore and RunCrash check on five stages.               *)
(***************************************************************************)
EXTENDS RunRefinement, TLAPS

Node == [at: {"none", "stage", "gate", "end"}, pos: Stages]
GateMap == [Stages -> GateValue]
RowGates == [Stages -> GateValue \cup {"failed"}]
OutMap == [Stages -> BOOLEAN]

-----------------------------------------------------------------------------
(* What the operators the steps are built from return. *)

LEMMA StageFacts == Scenario \in Stages /\ Image \in Stages /\ N \in Stages
  BY StagesAssumption DEF Stages, Scenario, Image

\* Moving a checkpoint to another next node leaves a checkpoint.
LEMMA AtType ==
  ASSUME NEW state \in Checkpoint, NEW node \in Node
  PROVE  /\ At(state, node) \in Checkpoint
         /\ At(state, node).at = node.at /\ At(state, node).pos = node.pos
         /\ At(state, node).gates = state.gates
         /\ At(state, node).out = state.out
         /\ At(state, node).err = state.err
  BY DEF At, Checkpoint, Node

LEMMA AfterStageType ==
  ASSUME NEW s \in Stages, NEW e \in BOOLEAN
  PROVE  /\ AfterStage(s, e) \in Node
         /\ AfterStage(s, e).pos = s
         /\ AfterStage(s, e).at = IF e THEN "end" ELSE "gate"
  BY DEF AfterStage, Node

LEMMA AfterGateType ==
  ASSUME NEW s \in Stages, NEW d
  PROVE  AfterGate(s, d) \in Node
  BY StagesAssumption DEF AfterGate, Node, Stages, Scenario

LEMMA OutTypes ==
  ASSUME NEW s \in Stages, NEW out \in OutMap
  PROVE  Produce(s, out) \in OutMap /\ Nullify(s, out) \in OutMap
  BY DEF Produce, Nullify, OutMap

LEMMA GateTypes ==
  ASSUME NEW s \in Stages
  PROVE  /\ \A g \in GateMap : ResetGates(s, g) \in GateMap
         /\ \A g \in RowGates : ResetGates(s, g) \in RowGates
  BY DEF ResetGates, GateMap, RowGates, GateValue

LEMMA InitialTypes == NoCheckpoint \in Checkpoint /\ InitialState \in Checkpoint
                      /\ NoGates \in RowGates
<1>1. NoCheckpoint \in Checkpoint
  BY StageFacts DEF NoCheckpoint, Checkpoint, GateValue
<1>2. InitialState \in Checkpoint
  BY <1>1 DEF InitialState, Checkpoint
<1>3. NoGates \in RowGates
  BY DEF NoGates, RowGates, GateValue
<1> QED  BY <1>1, <1>2, <1>3

LEMMA FreshType ==
  ASSUME NEW pc \in Pcs, NEW s \in 0 .. N, NEW d \in Decisions \cup {"none"},
         NEW g \in RowGates
  PROVE  /\ Fresh(pc, s, d, g) \in Task
         /\ Fresh(pc, s, d, g).pc = pc /\ Fresh(pc, s, d, g).stage = s
         /\ Fresh(pc, s, d, g).dec = d /\ Fresh(pc, s, d, g).gates = g
         /\ Fresh(pc, s, d, g).mem = NoCheckpoint
  BY InitialTypes DEF Fresh, Task, RowGates

LEMMA IdleType == Idle \in Task /\ Idle.pc = "idle" /\ Idle.dec = "none"
<1>1. "idle" \in Pcs /\ 0 \in 0 .. N /\ NoGates \in RowGates
  BY InitialTypes, StagesAssumption DEF Pcs
<1> QED  BY <1>1, FreshType DEF Idle

LEMMA FieldTypes ==
  ASSUME TypeOK, NEW t \in Slots
  PROVE  /\ task[t].stage \in 0 .. N /\ task[t].dec \in Decisions \cup {"none"}
         /\ task[t].gates \in RowGates /\ task[t].mem \in Checkpoint
         /\ task[t].mem.pos \in Stages /\ task[t].mem.gates \in GateMap
         /\ task[t].mem.out \in OutMap /\ task[t].mem.err \in BOOLEAN
         /\ ck.pos \in Stages /\ ck.gates \in GateMap
         /\ ck.out \in OutMap /\ ck.err \in BOOLEAN
         /\ row.gate \in RowGates
  BY DEF TypeOK, Task, Checkpoint, Row, RowGates, GateMap, OutMap

-----------------------------------------------------------------------------
(* Type correctness.  A handler that names a stage is only ever given one  *)
(* of the run's stages (0 is the driver's "unknown"), so the invariant     *)
(* carries that fact along.                                                *)

NamesAStage == {"g_running", "g_read", "g_update", "t_read", "t_update", "t_row",
                "e_read", "e_update", "failed1", "failed2", "mirror", "await1", "await2"}
StagesNamed == \A t \in Slots : task[t].pc \in NamesAStage => task[t].stage \in Stages

TypeInv == TypeOK /\ StagesNamed

\* A step touches the record of its own task only.
LEMMA BecomeStep ==
  ASSUME TypeOK, NEW t \in Slots, NEW x \in Task, Become(t, x)
  PROVE  /\ task' \in [Slots -> Task]
         /\ task'[t] = x
         /\ \A u \in Slots \ {t} : task'[u] = task[u]
  BY DEF TypeOK, Become

LEMMA GotoStep ==
  ASSUME TypeOK, NEW t \in Slots, NEW pc \in Pcs, Goto(t, pc)
  PROVE  /\ task' \in [Slots -> Task]
         /\ task'[t].pc = pc /\ task'[t].stage = task[t].stage
         /\ task'[t].dec = task[t].dec /\ task'[t].gates = task[t].gates
         /\ task'[t].mem = task[t].mem
         /\ \A u \in Slots \ {t} : task'[u] = task[u]
<1> DEFINE y == [task[t] EXCEPT !.pc = pc]
<1>0. task[t] \in Task
  BY DEF TypeOK
<1>1. /\ y \in Task /\ y.pc = pc /\ y.stage = task[t].stage
      /\ y.dec = task[t].dec /\ y.gates = task[t].gates /\ y.mem = task[t].mem
  BY <1>0 DEF Task
<1>2. Become(t, y)
  BY DEF Goto
<1> HIDE DEF y
<1> QED  BY <1>1, <1>2, BecomeStep

LEMMA HoldStep ==
  ASSUME TypeOK, NEW t \in Slots, NEW pc \in Pcs, NEW m \in Checkpoint,
         Hold(t, pc, m)
  PROVE  /\ task' \in [Slots -> Task]
         /\ task'[t].pc = pc /\ task'[t].stage = task[t].stage
         /\ task'[t].dec = task[t].dec /\ task'[t].gates = task[t].gates
         /\ task'[t].mem = m
         /\ \A u \in Slots \ {t} : task'[u] = task[u]
<1> DEFINE y == [task[t] EXCEPT !.pc = pc, !.mem = m]
<1>0. task[t] \in Task
  BY DEF TypeOK
<1>1. /\ y \in Task /\ y.pc = pc /\ y.stage = task[t].stage
      /\ y.dec = task[t].dec /\ y.gates = task[t].gates /\ y.mem = m
  BY <1>0 DEF Task
<1>2. Become(t, y)
  BY DEF Hold
<1> HIDE DEF y
<1> QED  BY <1>1, <1>2, BecomeStep

LEMMA ReportStep ==
  ASSUME TypeOK, NEW t \in Slots, NEW pc \in Pcs, NEW s \in 0 .. N,
         Report(t, pc, s)
  PROVE  /\ task' \in [Slots -> Task]
         /\ task'[t].pc = pc /\ task'[t].stage = s
         /\ task'[t].dec = task[t].dec /\ task'[t].mem = task[t].mem
         /\ \A u \in Slots \ {t} : task'[u] = task[u]
<1> DEFINE y == [task[t] EXCEPT !.pc = pc, !.stage = s]
<1>0. task[t] \in Task
  BY DEF TypeOK
<1>1. y \in Task /\ y.pc = pc /\ y.stage = s /\ y.dec = task[t].dec /\ y.mem = task[t].mem
  BY <1>0 DEF Task
<1>2. Become(t, y)
  BY DEF Report
<1> HIDE DEF y
<1> QED  BY <1>1, <1>2, BecomeStep

LEMMA CommitStep ==
  ASSUME TypeOK, NEW t \in Slots, NEW pc \in Pcs, NEW m \in Checkpoint, Commit(t, m, pc)
  PROVE  /\ ck' = m
         /\ task' \in [Slots -> Task]
         /\ task'[t].pc = pc /\ task'[t].stage = task[t].mem.pos /\ task'[t].stage \in Stages
         /\ task'[t].dec = "none" /\ task'[t].mem = m
         /\ \A u \in Slots \ {t} : task'[u] = task[u]
<1> DEFINE s == task[t].mem.pos
           y == [task[t] EXCEPT !.pc = pc, !.mem = m, !.stage = s, !.dec = "none"]
<1>1. s \in Stages /\ s \in 0 .. N /\ task[t] \in Task
  BY FieldTypes, StagesAssumption DEF TypeOK, Stages
<1>2. y \in Task /\ y.pc = pc /\ y.stage = s /\ y.dec = "none" /\ y.mem = m
  BY <1>1 DEF Task, Decisions
<1>3. Become(t, y) /\ ck' = m
  BY DEF Commit
<1> HIDE DEF y
<1> QED  BY <1>1, <1>2, <1>3, BecomeStep

LEMMA FinishStep ==
  ASSUME TypeOK, NEW t \in Slots, Finish(t)
  PROVE  /\ task' \in [Slots -> Task]
         /\ task'[t] = Idle /\ task'[t].pc = "idle"
         /\ \A u \in Slots \ {t} : task'[u] = task[u]
         /\ registered' \in Slots \cup {NoTask}
<1>1. Idle \in Task /\ Idle.pc = "idle"
  BY IdleType
<1>2. Become(t, Idle)
  BY DEF Finish
<1> QED  BY <1>1, <1>2, BecomeStep DEF Finish, TypeOK

LEMMA TypeInit == Init => TypeInv
<1> SUFFICES ASSUME Init PROVE TypeInv
  OBVIOUS
<1>1. row \in Row
  BY StagesAssumption DEF Init, Row, RunStatus, GateValue
<1>2. ck \in Checkpoint /\ frames \in BOOLEAN
  BY InitialTypes DEF Init
<1>3. PICK t \in Slots :
        /\ task = [u \in Slots |-> IF u = t THEN Fresh("provision", 0, "none", NoGates) ELSE Idle]
        /\ registered = t
  BY DEF Init
<1>4. /\ Fresh("provision", 0, "none", NoGates) \in Task
      /\ Fresh("provision", 0, "none", NoGates).pc = "provision"
  <2>1. "provision" \in Pcs /\ 0 \in 0 .. N /\ NoGates \in RowGates
    BY InitialTypes, StagesAssumption DEF Pcs
  <2> QED  BY <2>1, FreshType
<1>5. task \in [Slots -> Task]
  BY <1>3, <1>4, IdleType
<1>6. \A u \in Slots : task[u].pc \in {"idle", "provision"}
  BY <1>3, <1>4, IdleType
<1> QED  BY <1>1, <1>2, <1>3, <1>5, <1>6 DEF TypeInv, TypeOK, StagesNamed, NamesAStage

LEMMA PreviousStage ==
  ASSUME NEW s \in Stages, s # Scenario PROVE s - 1 \in Stages
  BY StagesAssumption DEF Stages, Scenario

\* What a write or a superstep leaves in the checkpoint, field by field.
LEMMA RedoneFacts ==
  ASSUME NEW m \in Checkpoint, NEW r \in Checkpoint, NEW s \in Stages
  PROVE  /\ Redone(m, s, r) \in Checkpoint
         /\ Redone(m, s, r).at = m.at /\ Redone(m, s, r).pos = m.pos
         /\ Redone(m, s, r).err = m.err
         /\ Redone(m, s, r).out = Nullify(s, r.out)
         /\ Redone(m, s, r).gates = ResetGates(s, r.gates)
<1>1. Nullify(s, r.out) \in OutMap /\ ResetGates(s, r.gates) \in GateMap
  BY OutTypes, GateTypes DEF Checkpoint, OutMap, GateMap
<1> QED  BY <1>1 DEF Redone, Checkpoint, OutMap, GateMap

LEMMA EditedFacts ==
  ASSUME NEW m \in Checkpoint, NEW r \in Checkpoint, NEW s \in Stages
  PROVE  /\ Edited(m, s, r) \in Checkpoint
         /\ Edited(m, s, r).at = (IF m.err THEN "end" ELSE "gate")
         /\ Edited(m, s, r).pos = s
         /\ Edited(m, s, r).err = m.err /\ Edited(m, s, r).gates = m.gates
         /\ \A x \in Stages : Edited(m, s, r).out[x] = IF x = N THEN m.out[x] ELSE r.out[x]
<1> DEFINE e == [m EXCEPT !.out = [x \in Stages |-> IF x = N THEN m.out[x] ELSE r.out[x]]]
<1>1. /\ e \in Checkpoint /\ e.err = m.err /\ e.gates = m.gates
      /\ \A x \in Stages : e.out[x] = IF x = N THEN m.out[x] ELSE r.out[x]
  BY DEF Checkpoint
<1>2. m.err \in BOOLEAN
  BY DEF Checkpoint
<1>3. Edited(m, s, r) = At(e, AfterStage(s, m.err))
  BY DEF Edited
<1> HIDE DEF e
<1> QED  BY <1>1, <1>2, <1>3, AfterStageType, AtType

LEMMA SucceededFacts ==
  ASSUME NEW m \in Checkpoint
  PROVE  /\ Succeeded(m) \in Checkpoint
         /\ Succeeded(m).at = "gate" /\ Succeeded(m).pos = m.pos
         /\ Succeeded(m).err = FALSE /\ Succeeded(m).gates = m.gates
         /\ Succeeded(m).out = Produce(m.pos, m.out)
<1> DEFINE e == [m EXCEPT !.out = Produce(m.pos, m.out), !.err = FALSE]
<1>1. m.pos \in Stages /\ Produce(m.pos, m.out) \in OutMap
  BY OutTypes DEF Checkpoint, OutMap
<1>2. /\ e \in Checkpoint /\ e.err = FALSE /\ e.gates = m.gates
      /\ e.out = Produce(m.pos, m.out)
  BY <1>1 DEF Checkpoint, OutMap
<1>3. Succeeded(m) = At(e, AfterStage(m.pos, FALSE))
  BY DEF Succeeded
<1>4. /\ AfterStage(m.pos, FALSE) \in Node
      /\ AfterStage(m.pos, FALSE).at = "gate" /\ AfterStage(m.pos, FALSE).pos = m.pos
  BY <1>1 DEF AfterStage, Node
<1> DEFINE n == AfterStage(m.pos, FALSE)
<1> HIDE DEF e, n
<1>5. /\ At(e, n) \in Checkpoint /\ At(e, n).at = "gate" /\ At(e, n).pos = m.pos
      /\ At(e, n).err = FALSE /\ At(e, n).gates = m.gates
      /\ At(e, n).out = Produce(m.pos, m.out)
  BY <1>2, <1>4, AtType DEF n
<1> QED  BY <1>3, <1>5 DEF n

LEMMA FailedFacts ==
  ASSUME NEW m \in Checkpoint
  PROVE  /\ Failed(m) \in Checkpoint
         /\ Failed(m).at = "end" /\ Failed(m).pos = m.pos /\ Failed(m).err = TRUE
         /\ Failed(m).gates = m.gates /\ Failed(m).out = m.out
<1> DEFINE e == [m EXCEPT !.err = TRUE]
<1>1. m.pos \in Stages /\ e \in Checkpoint /\ e.err = TRUE /\ e.gates = m.gates /\ e.out = m.out
  BY DEF Checkpoint
<1>2. Failed(m) = At(e, AfterStage(m.pos, TRUE))
  BY DEF Failed
<1>3. /\ AfterStage(m.pos, TRUE) \in Node
      /\ AfterStage(m.pos, TRUE).at = "end" /\ AfterStage(m.pos, TRUE).pos = m.pos
  BY <1>1 DEF AfterStage, Node
<1> DEFINE n == AfterStage(m.pos, TRUE)
<1> HIDE DEF e, n
<1>4. /\ At(e, n) \in Checkpoint /\ At(e, n).at = "end" /\ At(e, n).pos = m.pos
      /\ At(e, n).err = TRUE /\ At(e, n).gates = m.gates /\ At(e, n).out = m.out
  BY <1>1, <1>3, AtType DEF n
<1> QED  BY <1>2, <1>4 DEF n

LEMMA DecidedFacts ==
  ASSUME NEW m \in Checkpoint, NEW d \in Decisions
  PROVE  /\ Decided(m, d) \in Checkpoint
         /\ Decided(m, d).at = AfterGate(m.pos, d).at
         /\ Decided(m, d).pos = AfterGate(m.pos, d).pos
         /\ Decided(m, d).err = m.err /\ Decided(m, d).out = m.out
         /\ Decided(m, d).gates[m.pos] = d
         /\ \A x \in Stages \ {m.pos} : Decided(m, d).gates[x] = m.gates[x]
<1> DEFINE e == [m EXCEPT !.gates[m.pos] = d]
<1>1. /\ m.pos \in Stages /\ e \in Checkpoint /\ e.err = m.err /\ e.out = m.out
      /\ e.gates[m.pos] = d /\ \A x \in Stages \ {m.pos} : e.gates[x] = m.gates[x]
  BY DEF Checkpoint, Decisions, GateValue
<1>2. Decided(m, d) = At(e, AfterGate(m.pos, d))
  BY DEF Decided
<1>3. AfterGate(m.pos, d) \in Node
  BY <1>1, AfterGateType
<1> HIDE DEF e
<1>4. /\ At(e, AfterGate(m.pos, d)) \in Checkpoint
      /\ At(e, AfterGate(m.pos, d)).at = AfterGate(m.pos, d).at
      /\ At(e, AfterGate(m.pos, d)).pos = AfterGate(m.pos, d).pos
      /\ At(e, AfterGate(m.pos, d)).err = m.err /\ At(e, AfterGate(m.pos, d)).out = m.out
      /\ At(e, AfterGate(m.pos, d)).gates = e.gates
  BY <1>1, <1>3, AtType
<1> QED  BY <1>1, <1>2, <1>4

LEMMA RetryEntryType ==
  ASSUME NEW s \in Stages, NEW m
  PROVE  RetryEntry(s, m) \in Node
  BY PreviousStage, AfterGateType DEF RetryEntry, Node

LEMMA TypeHandler ==
  ASSUME TypeOK, StagesNamed, NEW t \in Slots, Handler(t)
  PROVE  TypeOK' /\ StagesNamed'
<1>0. task[t] \in Task /\ row \in Row /\ ck \in Checkpoint
  BY DEF TypeOK
<1>1. ASSUME Provision(t) PROVE TypeOK' /\ StagesNamed'
  <2>1. task' \in [Slots -> Task] /\ StagesNamed'
    BY <1>1, GotoStep DEF Provision, Pcs, NamesAStage, StagesNamed
  <2> QED  BY <2>1, <1>1 DEF Provision, TypeOK
<1>2. ASSUME GateRunning(t) PROVE TypeOK' /\ StagesNamed'
  <2>1. row' \in Row
    BY <1>0, <1>2, FieldTypes, GateTypes, StageFacts, StagesAssumption
    DEF GateRunning, Row, RunStatus, RowGates, GateMap, GateValue, Stages, Scenario, NamesAStage, StagesNamed
  <2>2. task' \in [Slots -> Task] /\ StagesNamed'
    BY <1>2, GotoStep DEF GateRunning, Pcs, NamesAStage, StagesNamed
  <2> QED  BY <2>1, <2>2, <1>2 DEF GateRunning, TypeOK
<1>3. ASSUME GateProvision(t) PROVE TypeOK' /\ StagesNamed'
  <2>0. AfterStage(Scenario, ck.err) \in Node
    BY FieldTypes, StageFacts, AfterStageType
  <2>1. ck' \in Checkpoint
    BY <1>0, <1>3, <2>0, AtType DEF GateProvision
  <2>2. task' \in [Slots -> Task] /\ StagesNamed'
    BY <1>3, GotoStep DEF GateProvision, Pcs, NamesAStage, StagesNamed
  <2> QED  BY <2>1, <2>2, <1>3 DEF GateProvision, TypeOK
<1>4. ASSUME GateRead(t) PROVE TypeOK' /\ StagesNamed'
  <2>1. task' \in [Slots -> Task] /\ StagesNamed'
    BY <1>4, <1>0, HoldStep DEF GateRead, Pcs, NamesAStage, StagesNamed
  <2>2. frames' \in BOOLEAN
    BY <1>4 DEF GateRead, TypeOK
  <2> QED  BY <2>1, <2>2, <1>4 DEF GateRead, TypeOK
<1>5. ASSUME GateUpdate(t) PROVE TypeOK' /\ StagesNamed'
  <2>1. ck' \in Checkpoint
    BY <1>0, <1>5, FieldTypes, RedoneFacts, AfterStageType, AtType DEF GateUpdate, NamesAStage, StagesNamed
  <2>2. task' \in [Slots -> Task] /\ StagesNamed'
    BY <1>5, GotoStep DEF GateUpdate, Pcs, NamesAStage, StagesNamed
  <2> QED  BY <2>1, <2>2, <1>5 DEF GateUpdate, TypeOK
<1>6. ASSUME FailureRunning(t) PROVE TypeOK' /\ StagesNamed'
  <2>1. row' \in Row
    BY <1>0, <1>6, FieldTypes, GateTypes, StageFacts, StagesAssumption
    DEF FailureRunning, Row, RunStatus, RowGates, GateMap, GateValue, Stages, Scenario, NamesAStage, StagesNamed
  <2>2. task' \in [Slots -> Task] /\ StagesNamed'
    BY <1>6, GotoStep DEF FailureRunning, Pcs, NamesAStage, StagesNamed
  <2> QED  BY <2>1, <2>2, <1>6 DEF FailureRunning, TypeOK
<1>7. ASSUME RestartDelete(t) PROVE TypeOK' /\ StagesNamed'
  <2>1. ck' \in Checkpoint
    BY <1>0, <1>7, InitialTypes DEF RestartDelete
  <2>2. task' \in [Slots -> Task] /\ StagesNamed'
    BY <1>7, GotoStep DEF RestartDelete, Pcs, NamesAStage, StagesNamed
  <2> QED  BY <2>1, <2>2, <1>7 DEF RestartDelete, TypeOK
<1>8. ASSUME RestartRow(t) PROVE TypeOK' /\ StagesNamed'
  <2>1. row' \in Row
    BY <1>0, <1>8, FieldTypes, GateTypes, StageFacts, StagesAssumption
    DEF RestartRow, Row, RunStatus, RowGates, GateMap, GateValue, Stages, Scenario, NamesAStage, StagesNamed
  <2>2. task' \in [Slots -> Task] /\ StagesNamed'
    BY <1>8, GotoStep DEF RestartRow, Pcs, NamesAStage, StagesNamed
  <2> QED  BY <2>1, <2>2, <1>8 DEF RestartRow, TypeOK
<1>9. ASSUME RetryRead(t) PROVE TypeOK' /\ StagesNamed'
  <2>1. task' \in [Slots -> Task] /\ StagesNamed'
    BY <1>9, <1>0, HoldStep DEF RetryRead, Pcs, NamesAStage, StagesNamed
  <2>2. frames' \in BOOLEAN
    BY <1>9 DEF RetryRead, TypeOK
  <2> QED  BY <2>1, <2>2, <1>9 DEF RetryRead, TypeOK
<1>10. ASSUME RetryUpdate(t) PROVE TypeOK' /\ StagesNamed'
  <2>0. task[t].stage \in Stages /\ task[t].mem \in Checkpoint
    BY <1>10, FieldTypes DEF RetryUpdate, NamesAStage, StagesNamed
  <2> DEFINE m == Redone(ck, task[t].stage, task[t].mem)
             n == RetryEntry(task[t].stage, m)
  <2>3. m \in Checkpoint /\ n \in Node
    BY <2>0, <1>0, RedoneFacts, RetryEntryType
  <2>4. At(m, n) \in Checkpoint
    BY <2>3, AtType
  <2>5. ck' = ck \/ ck' = At(m, n)
    BY <1>10 DEF RetryUpdate
  <2>1. ck' \in Checkpoint
    BY <2>4, <2>5, <1>0
  <2>2. task' \in [Slots -> Task] /\ StagesNamed'
    BY <1>10, GotoStep, FinishStep DEF RetryUpdate, Pcs, NamesAStage, StagesNamed
  <2> QED  BY <2>1, <2>2, <1>10, FinishStep DEF RetryUpdate, TypeOK
<1>11. ASSUME RetryRow(t) PROVE TypeOK' /\ StagesNamed'
  <2>1. row' \in Row
    BY <1>0, <1>11, FieldTypes, GateTypes, StageFacts, StagesAssumption
    DEF RetryRow, Row, RunStatus, RowGates, GateMap, GateValue, Stages, Scenario, NamesAStage, StagesNamed
  <2>2. task' \in [Slots -> Task] /\ StagesNamed'
    BY <1>11, GotoStep DEF RetryRow, Pcs, NamesAStage, StagesNamed
  <2> QED  BY <2>1, <2>2, <1>11 DEF RetryRow, TypeOK
<1>12. ASSUME EditRead(t) PROVE TypeOK' /\ StagesNamed'
  <2>1. task' \in [Slots -> Task] /\ StagesNamed'
    BY <1>12, <1>0, HoldStep, FinishStep DEF EditRead, Pcs, NamesAStage, StagesNamed
  <2> QED  BY <2>1, <1>12, FinishStep DEF EditRead, TypeOK
<1>13. ASSUME EditUpdate(t) PROVE TypeOK' /\ StagesNamed'
  <2>1. ck' \in Checkpoint
    BY <1>0, <1>13, FieldTypes, EditedFacts DEF EditUpdate, NamesAStage, StagesNamed
  <2>2. task' \in [Slots -> Task] /\ StagesNamed'
    BY <1>13, FinishStep DEF EditUpdate, NamesAStage, StagesNamed
  <2> QED  BY <2>1, <2>2, <1>13, FinishStep DEF EditUpdate, TypeOK
<1> QED
  BY <1>1, <1>2, <1>3, <1>4, <1>5, <1>6, <1>7, <1>8, <1>9, <1>10, <1>11, <1>12, <1>13 DEF Handler

LEMMA TypeDrive ==
  ASSUME TypeOK, StagesNamed, NEW t \in Slots, Drive(t)
  PROVE  TypeOK' /\ StagesNamed'
<1>0. task[t] \in Task /\ row \in Row /\ ck \in Checkpoint
  BY DEF TypeOK
<1>1. ASSUME Start(t) PROVE TypeOK' /\ StagesNamed'
  <2>1. ck' \in Checkpoint
    BY <1>0, <1>1, InitialTypes DEF Start
  <2>2. task' \in [Slots -> Task] /\ StagesNamed'
    BY <1>1, <1>0, InitialTypes, HoldStep DEF Start, Pcs, NamesAStage, StagesNamed
  <2> QED  BY <2>1, <2>2, <1>1 DEF Start, TypeOK
<1>2. ASSUME Load(t) PROVE TypeOK' /\ StagesNamed'
  <2>1. task' \in [Slots -> Task] /\ StagesNamed'
    BY <1>2, <1>0, HoldStep, ReportStep, StagesAssumption DEF Load, Pcs, NamesAStage, StagesNamed
  <2> QED  BY <2>1, <1>2 DEF Load, TypeOK
<1>3. ASSUME StageOk(t) PROVE TypeOK' /\ StagesNamed'
  <2>1. Succeeded(task[t].mem) \in Checkpoint
    BY <1>0, <1>3, FieldTypes, SucceededFacts DEF StageOk, Commit
  <2>2. task' \in [Slots -> Task] /\ StagesNamed'
    BY <1>3, <2>1, CommitStep DEF StageOk, Pcs, NamesAStage, StagesNamed
  <2>3. ck' \in Checkpoint
    BY <1>3, <2>1 DEF StageOk, Commit
  <2>4. frames' \in BOOLEAN
    BY <1>3 DEF StageOk, TypeOK
  <2> QED  BY <2>1, <2>2, <2>3, <2>4, <1>3 DEF StageOk, TypeOK, Commit
<1>4. ASSUME StageError(t) PROVE TypeOK' /\ StagesNamed'
  <2>1. Failed(task[t].mem) \in Checkpoint
    BY <1>0, <1>4, FieldTypes, FailedFacts DEF StageError, Commit
  <2>2. task' \in [Slots -> Task] /\ StagesNamed'
    BY <1>4, <2>1, CommitStep DEF StageError, Pcs, NamesAStage, StagesNamed
  <2>3. ck' \in Checkpoint
    BY <1>4, <2>1 DEF StageError, Commit
  <2> QED  BY <2>1, <2>2, <2>3, <1>4 DEF StageError, TypeOK, Commit
<1>5. ASSUME StageRaise(t) PROVE TypeOK' /\ StagesNamed'
  <2>1. task' \in [Slots -> Task] /\ StagesNamed'
    BY <1>5, FieldTypes, ReportStep DEF StageRaise, Pcs, NamesAStage, StagesNamed, Stages
  <2> QED  BY <2>1, <1>5 DEF StageRaise, TypeOK
<1>6. ASSUME GateInterrupt(t) PROVE TypeOK' /\ StagesNamed'
  <2>1. task' \in [Slots -> Task] /\ StagesNamed'
    BY <1>6, FieldTypes, ReportStep DEF GateInterrupt, Pcs, NamesAStage, StagesNamed, Stages
  <2> QED  BY <2>1, <1>6 DEF GateInterrupt, TypeOK
<1>7. ASSUME GateDecide(t) PROVE TypeOK' /\ StagesNamed'
  <2>1. Decided(task[t].mem, task[t].dec) \in Checkpoint
    BY <1>0, <1>7, FieldTypes, DecidedFacts DEF GateDecide, Commit
  <2>2. task' \in [Slots -> Task] /\ StagesNamed'
    BY <1>7, <2>1, CommitStep DEF GateDecide, Pcs, NamesAStage, StagesNamed
  <2>3. ck' \in Checkpoint
    BY <1>7, <2>1 DEF GateDecide, Commit
  <2> QED  BY <2>1, <2>2, <2>3, <1>7 DEF GateDecide, TypeOK, Commit
<1>8. ASSUME StreamEnd(t) PROVE TypeOK' /\ StagesNamed'
  <2>1. task' \in [Slots -> Task] /\ StagesNamed'
    BY <1>8, GotoStep DEF StreamEnd, Pcs, NamesAStage, StagesNamed
  <2> QED  BY <2>1, <1>8 DEF StreamEnd, TypeOK
<1>9. ASSUME WriteEntered(t) PROVE TypeOK' /\ StagesNamed'
  <2>1. row' \in Row
    BY <1>0, <1>9, FieldTypes, GateTypes, StageFacts, StagesAssumption
    DEF WriteEntered, Row, RunStatus, RowGates, GateMap, GateValue, Stages, Scenario, NamesAStage, StagesNamed
  <2>2. task' \in [Slots -> Task] /\ StagesNamed'
    BY <1>9, GotoStep DEF WriteEntered, Pcs, NamesAStage, StagesNamed
  <2> QED  BY <2>1, <2>2, <1>9 DEF WriteEntered, TypeOK
<1>10. ASSUME WriteFailed(t) PROVE TypeOK' /\ StagesNamed'
  <2>1. row' \in Row
    BY <1>0, <1>10, FieldTypes, GateTypes, StageFacts, StagesAssumption
    DEF WriteFailed, Row, RunStatus, RowGates, GateMap, GateValue, Stages, Scenario, NamesAStage, StagesNamed
  <2>2. task' \in [Slots -> Task] /\ StagesNamed'
    BY <1>10, GotoStep DEF WriteFailed, Pcs, NamesAStage, StagesNamed
  <2> QED  BY <2>1, <2>2, <1>10 DEF WriteFailed, TypeOK
<1>11. ASSUME MirrorFailed(t) PROVE TypeOK' /\ StagesNamed'
  <2>1. row' \in Row
    BY <1>0, <1>11, FieldTypes, GateTypes, StageFacts, StagesAssumption
    DEF MirrorFailed, Row, RunStatus, RowGates, GateMap, GateValue, Stages, Scenario, NamesAStage, StagesNamed
  <2>2. task' \in [Slots -> Task] /\ StagesNamed'
    BY <1>11, FinishStep DEF MirrorFailed, NamesAStage, StagesNamed
  <2> QED  BY <2>1, <2>2, <1>11, FinishStep DEF MirrorFailed, TypeOK
<1>12. ASSUME WriteAwaiting(t) PROVE TypeOK' /\ StagesNamed'
  <2>1. row' \in Row
    BY <1>0, <1>12, FieldTypes, GateTypes, StageFacts, StagesAssumption
    DEF WriteAwaiting, Row, RunStatus, RowGates, GateMap, GateValue, Stages, Scenario, NamesAStage, StagesNamed
  <2>2. task' \in [Slots -> Task] /\ StagesNamed'
    BY <1>12, GotoStep DEF WriteAwaiting, Pcs, NamesAStage, StagesNamed
  <2> QED  BY <2>1, <2>2, <1>12 DEF WriteAwaiting, TypeOK
<1>13. ASSUME MirrorPending(t) PROVE TypeOK' /\ StagesNamed'
  <2>1. row' \in Row
    BY <1>0, <1>13, FieldTypes, GateTypes, StageFacts, StagesAssumption
    DEF MirrorPending, Row, RunStatus, RowGates, GateMap, GateValue, Stages, Scenario, NamesAStage, StagesNamed
  <2>2. task' \in [Slots -> Task] /\ StagesNamed'
    BY <1>13, FinishStep DEF MirrorPending, NamesAStage, StagesNamed
  <2> QED  BY <2>1, <2>2, <1>13, FinishStep DEF MirrorPending, TypeOK
<1>14. ASSUME MirrorDecision(t) PROVE TypeOK' /\ StagesNamed'
  <2>0. task[t].stage \in Stages /\ task[t].mem.gates[task[t].stage] \in GateValue
    BY <1>14, FieldTypes DEF MirrorDecision, NamesAStage, StagesNamed, GateMap
  <2>1. row' \in Row
    BY <1>0, <1>14, <2>0 DEF MirrorDecision, Row
  <2>2. task' \in [Slots -> Task] /\ StagesNamed'
    BY <1>14, GotoStep DEF MirrorDecision, Pcs, NamesAStage, StagesNamed
  <2> QED  BY <2>1, <2>2, <1>14 DEF MirrorDecision, TypeOK
<1>15. ASSUME WriteRejected(t) PROVE TypeOK' /\ StagesNamed'
  <2>1. row' \in Row
    BY <1>0, <1>15, FieldTypes, GateTypes, StageFacts, StagesAssumption
    DEF WriteRejected, Row, RunStatus, RowGates, GateMap, GateValue, Stages, Scenario, NamesAStage, StagesNamed
  <2>2. task' \in [Slots -> Task] /\ StagesNamed'
    BY <1>15, FinishStep DEF WriteRejected, NamesAStage, StagesNamed
  <2> QED  BY <2>1, <2>2, <1>15, FinishStep DEF WriteRejected, TypeOK
<1>16. ASSUME WriteComplete(t) PROVE TypeOK' /\ StagesNamed'
  <2>1. row' \in Row
    BY <1>0, <1>16, FieldTypes, GateTypes, StageFacts, StagesAssumption
    DEF WriteComplete, Row, RunStatus, RowGates, GateMap, GateValue, Stages, Scenario, NamesAStage, StagesNamed
  <2>2. task' \in [Slots -> Task] /\ StagesNamed'
    BY <1>16, FinishStep DEF WriteComplete, NamesAStage, StagesNamed
  <2> QED  BY <2>1, <2>2, <1>16, FinishStep DEF WriteComplete, TypeOK
<1>17. ASSUME WriteRaised(t) PROVE TypeOK' /\ StagesNamed'
  <2>1. row' \in Row
    BY <1>0, <1>17, FieldTypes, GateTypes, StageFacts, StagesAssumption
    DEF WriteRaised, Row, RunStatus, RowGates, GateMap, GateValue, Stages, Scenario, NamesAStage, StagesNamed
  <2>2. task' \in [Slots -> Task] /\ StagesNamed'
    BY <1>17, FinishStep DEF WriteRaised, NamesAStage, StagesNamed
  <2> QED  BY <2>1, <2>2, <1>17, FinishStep DEF WriteRaised, TypeOK
<1> QED
  BY <1>1, <1>2, <1>3, <1>4, <1>5, <1>6, <1>7, <1>8, <1>9, <1>10, <1>11, <1>12, <1>13, <1>14, <1>15, <1>16, <1>17 DEF Drive

\* A request schedules one task, with a stage of the run when it names one.
LEMMA FreshStep ==
  ASSUME TypeOK, StagesNamed, NEW t \in Slots, NEW pc \in Pcs, NEW s \in 0 .. N,
         NEW d \in Decisions \cup {"none"}, NEW g \in RowGates,
         Become(t, Fresh(pc, s, d, g)), pc \in NamesAStage => s \in Stages
  PROVE  task' \in [Slots -> Task] /\ StagesNamed'
<1> DEFINE y == Fresh(pc, s, d, g)
<1>1. y \in Task /\ y.pc = pc /\ y.stage = s
  BY FreshType
<1>2. Become(t, y)
  OBVIOUS
<1> HIDE DEF y
<1> QED  BY <1>1, <1>2, BecomeStep DEF StagesNamed

LEMMA TypeRequest ==
  ASSUME TypeOK, StagesNamed, NEW t \in Slots, Request(t)
  PROVE  TypeOK' /\ StagesNamed'
<1>0. /\ Stages \subseteq 0 .. N /\ 0 \in 0 .. N
      /\ NoGates \in RowGates /\ row.gate \in RowGates
      /\ {"g_running", "f_running", "t_read", "e_read", "x_delete"} \subseteq Pcs
  BY InitialTypes, FieldTypes, StagesAssumption DEF Stages, Pcs
<1>1. ASSUME NEW s \in Stages, NEW d \in Decisions, PostGate(t, s, d)
      PROVE  TypeOK' /\ StagesNamed'
  <2>1. task' \in [Slots -> Task] /\ StagesNamed'
    BY <1>0, <1>1, FreshStep DEF PostGate
  <2> QED  BY <2>1, <1>1 DEF PostGate, TypeOK
<1>2. ASSUME PostResumeReplay(t) PROVE TypeOK' /\ StagesNamed'
  <2>1. task' \in [Slots -> Task] /\ StagesNamed'
    BY <1>0, <1>2, FreshStep DEF PostResumeReplay, NamesAStage
  <2> QED  BY <2>1, <1>2 DEF PostResumeReplay, TypeOK
<1>3. ASSUME NEW s \in Stages, PostResumeFailed(t, s) PROVE TypeOK' /\ StagesNamed'
  <2>1. task' \in [Slots -> Task] /\ StagesNamed'
    BY <1>0, <1>3, FreshStep DEF PostResumeFailed
  <2>2. row' \in Row
    BY <1>3 DEF PostResumeFailed, TypeOK, Row, RunStatus
  <2> QED  BY <2>1, <2>2, <1>3 DEF PostResumeFailed, TypeOK
<1>4. ASSUME NEW s \in Stages, PostRetry(t, s) PROVE TypeOK' /\ StagesNamed'
  <2>1. task' \in [Slots -> Task] /\ StagesNamed'
    BY <1>0, <1>4, FreshStep DEF PostRetry
  <2> QED  BY <2>1, <1>4 DEF PostRetry, TypeOK
<1>5. ASSUME NEW s \in Stages, PatchArtifact(t, s) PROVE TypeOK' /\ StagesNamed'
  <2>1. task' \in [Slots -> Task] /\ StagesNamed'
    BY <1>0, <1>5, FreshStep DEF PatchArtifact
  <2> QED  BY <2>1, <1>5 DEF PatchArtifact, TypeOK
<1>6. ASSUME Restart(t) PROVE TypeOK' /\ StagesNamed'
  <2>1. task' \in [Slots -> Task] /\ StagesNamed'
    BY <1>0, <1>6, FreshStep DEF Restart, NamesAStage
  <2> QED  BY <2>1, <1>6 DEF Restart, TypeOK
<1> QED  BY <1>1, <1>2, <1>3, <1>4, <1>5, <1>6 DEF Request

LEMMA TypeCrash ==
  ASSUME TypeOK, Crash PROVE TypeOK' /\ StagesNamed'
  BY IdleType DEF Crash, TypeOK, StagesNamed, NamesAStage

LEMMA TypeStep == TypeInv /\ [Next]_vars => TypeInv'
<1> SUFFICES ASSUME TypeOK, StagesNamed, [Next]_vars PROVE TypeOK' /\ StagesNamed'
  BY DEF TypeInv
<1>1. CASE Crash
  BY <1>1, TypeCrash
<1>2. ASSUME NEW t \in Slots, Handler(t) PROVE TypeOK' /\ StagesNamed'
  BY <1>2, TypeHandler
<1>3. ASSUME NEW t \in Slots, Drive(t) PROVE TypeOK' /\ StagesNamed'
  BY <1>3, TypeDrive
<1>4. ASSUME NEW t \in Slots, Request(t) PROVE TypeOK' /\ StagesNamed'
  BY <1>4, TypeRequest
<1>5. CASE UNCHANGED vars
  BY <1>5 DEF vars, TypeOK, StagesNamed
<1> QED  BY <1>1, <1>2, <1>3, <1>4, <1>5 DEF Next, Step

\* The row, the checkpoint and the tasks keep their shape for every number of
\* stages and of tasks, whatever the operator does and wherever the process
\* dies; in particular no handler is ever left without the stage it is for.
THEOREM TypeCorrect == Spec => []TypeOK
<1>1. TypeInv => TypeOK
  BY DEF TypeInv
<1> QED  BY <1>1, TypeInit, TypeStep, PTL DEF Spec

-----------------------------------------------------------------------------
(* What the registry of tasks is for: when a run is only ever resumed, a   *)
(* live driver is never joined by a second one, however often the operator *)
(* asks and wherever the process dies.  No habit of the operator is        *)
(* assumed; the runs with other requests show what they would break.       *)

\* The run is only resumed, and a stage fails by raising, which marks no
\* stage failed: every driver goes through /resume's registered path.
OnlyResumed == Ops \subseteq {"resume"} /\ "error" \notin Faults

ResumePcs ==
  {"idle", "provision", "f_running", "start", "load", "run", "entered",
   "await1", "await2", "mirror", "reject1", "complete", "raised"}

\* Every live task is the registered one, and no stage is marked failed.
Registered ==
  /\ \A t \in Slots : task[t].pc \in ResumePcs
  /\ \A t \in Slots : ~Free(t) => registered = t
  /\ \A s \in Stages : row.gate[s] # "failed"

RInv == TypeInv /\ Registered

LEMMA ResumeInit == Init => RInv
<1> SUFFICES ASSUME Init PROVE RInv
  OBVIOUS
<1>1. TypeInv
  BY TypeInit
<1>2. PICK t \in Slots :
        /\ task = [u \in Slots |-> IF u = t THEN Fresh("provision", 0, "none", NoGates) ELSE Idle]
        /\ registered = t
  BY DEF Init
<1>3. Fresh("provision", 0, "none", NoGates).pc = "provision"
  BY DEF Fresh
<1>4. \A u \in Slots : task[u].pc = IF u = t THEN "provision" ELSE "idle"
  BY <1>2, <1>3, IdleType
<1>5. \A s \in Stages : row.gate[s] = "none"
  BY DEF Init
<1> QED  BY <1>1, <1>2, <1>4, <1>5 DEF RInv, Registered, Free, ResumePcs

\* A step of a live task keeps it alive and registered, or ends it.
LEMMA ResumeMoves ==
  ASSUME RInv, TypeInv', NEW t \in Slots, ~Free(t),
         \A u \in Slots \ {t} : task'[u] = task[u],
         \/ task'[t].pc \in ResumePcs /\ UNCHANGED registered
         \/ Finish(t),
         \A s \in Stages : row'.gate[s] # "failed"
  PROVE  RInv'
<1>1. registered = t /\ \A u \in Slots \ {t} : Free(u)
  BY DEF RInv, Registered
<1>2. Finish(t) => task'[t].pc = "idle"
  BY FinishStep DEF RInv, TypeInv
<1>3. \A u \in Slots : task'[u].pc \in ResumePcs
  BY <1>2 DEF RInv, Registered, ResumePcs
<1>4. \A u \in Slots : ~Free(u)' => registered' = u
  BY <1>1, <1>2 DEF Free
<1> QED  BY <1>3, <1>4 DEF RInv, Registered

LEMMA ResumeStep ==
  ASSUME OnlyResumed, RInv, [Next]_vars
  PROVE  RInv'
<1>0. TypeOK /\ TypeInv' /\ \A s \in Stages : row.gate[s] # "failed"
  BY TypeStep DEF RInv, TypeInv, Registered
<1>1. ASSUME NEW t \in Slots, Handler(t) PROVE RInv'
  <2>1. CASE Provision(t) \/ FailureRunning(t)
    <3>1. (Goto(t, "start") \/ Goto(t, "load")) /\ ~Free(t) /\ UNCHANGED registered
      BY <2>1 DEF Provision, FailureRunning, Free
    <3>2. {"start", "load"} \subseteq Pcs \cap ResumePcs
      BY DEF Pcs, ResumePcs
    <3>3. task'[t].pc \in ResumePcs /\ \A u \in Slots \ {t} : task'[u] = task[u]
      BY <1>0, <3>1, <3>2, GotoStep
    <3>4. row'.gate = row.gate
      BY <1>0, <2>1 DEF Provision, FailureRunning, TypeOK, Row
    <3> QED  BY <1>0, <3>1, <3>3, <3>4, ResumeMoves
  <2>2. task[t].pc \in ResumePcs
    BY DEF RInv, Registered
  <2> QED  BY <1>1, <2>1, <2>2
           DEF Handler, ResumePcs, GateRunning, GateProvision, GateRead, GateUpdate,
               RestartDelete, RestartRow, RetryRead, RetryUpdate, RetryRow, EditRead, EditUpdate
<1>2. ASSUME NEW t \in Slots, Drive(t) PROVE RInv'
  <2>1. /\ ~Free(t) /\ task[t].mem \in Checkpoint /\ task[t].mem.pos \in Stages
        /\ ck \in Checkpoint /\ task[t].mem.pos \in 0 .. N /\ 0 \in 0 .. N
    <3>1. ~Free(t)
      BY <1>2
         DEF Drive, Free, Running, Start, Load, StageOk, StageError, StageRaise, GateInterrupt,
             GateDecide, StreamEnd, WriteEntered, WriteFailed, MirrorFailed, WriteAwaiting,
             MirrorPending, MirrorDecision, WriteRejected, WriteComplete, WriteRaised
    <3> QED  BY <1>0, <3>1, FieldTypes, StagesAssumption DEF TypeOK, Stages
  <2>2. {"run", "entered", "await1", "await2", "mirror", "reject1", "complete", "raised"}
          \subseteq Pcs \cap ResumePcs
    BY DEF Pcs, ResumePcs
  <2>3. CASE Start(t) \/ Load(t)
    <3>1. /\ Hold(t, "run", InitialState) \/ Hold(t, "run", ck) \/ Report(t, "raised", 0)
          /\ UNCHANGED <<row, registered>>
      BY <2>3 DEF Start, Load
    <3>2. task'[t].pc \in ResumePcs /\ \A u \in Slots \ {t} : task'[u] = task[u]
      BY <1>0, <2>1, <2>2, <3>1, HoldStep, ReportStep, InitialTypes
    <3> QED  BY <1>0, <2>1, <3>1, <3>2, ResumeMoves
  <2>4. CASE StageOk(t)
    <3>1. Commit(t, Succeeded(task[t].mem), "entered") /\ UNCHANGED <<row, registered>>
      BY <2>4 DEF StageOk
    <3>2. task'[t].pc \in ResumePcs /\ \A u \in Slots \ {t} : task'[u] = task[u]
      BY <1>0, <2>1, <2>2, <3>1, SucceededFacts, CommitStep
    <3> QED  BY <1>0, <2>1, <3>1, <3>2, ResumeMoves
  <2>5. CASE GateDecide(t)
    <3>1. /\ Commit(t, Decided(task[t].mem, task[t].dec), "mirror")
          /\ UNCHANGED <<row, registered>> /\ task[t].dec \in Decisions
      BY <1>0, <2>5, FieldTypes DEF GateDecide
    <3>2. task'[t].pc \in ResumePcs /\ \A u \in Slots \ {t} : task'[u] = task[u]
      BY <1>0, <2>1, <2>2, <3>1, DecidedFacts, CommitStep
    <3> QED  BY <1>0, <2>1, <3>1, <3>2, ResumeMoves
  <2>6. CASE StageRaise(t) \/ GateInterrupt(t)
    <3>1. /\ Report(t, "raised", task[t].mem.pos) \/ Report(t, "await1", task[t].mem.pos)
          /\ UNCHANGED <<row, registered>>
      BY <2>6 DEF StageRaise, GateInterrupt
    <3>2. task'[t].pc \in ResumePcs /\ \A u \in Slots \ {t} : task'[u] = task[u]
      BY <1>0, <2>1, <2>2, <3>1, ReportStep
    <3> QED  BY <1>0, <2>1, <3>1, <3>2, ResumeMoves
  <2>7. CASE StreamEnd(t) \/ WriteEntered(t) \/ WriteAwaiting(t)
    <3>1. /\ Goto(t, "complete") \/ Goto(t, "run") \/ Goto(t, "await2")
          /\ UNCHANGED registered
      BY <2>7 DEF StreamEnd, WriteEntered, WriteAwaiting
    <3>2. task'[t].pc \in ResumePcs /\ \A u \in Slots \ {t} : task'[u] = task[u]
      BY <1>0, <2>2, <3>1, GotoStep
    <3>3. row'.gate = row.gate
      BY <1>0, <2>7 DEF StreamEnd, WriteEntered, WriteAwaiting, TypeOK, Row
    <3> QED  BY <1>0, <2>1, <3>1, <3>2, <3>3, ResumeMoves
  <2>8. CASE MirrorDecision(t)
    <3> DEFINE s == task[t].stage
    <3>1. (Goto(t, "reject1") \/ Goto(t, "run")) /\ UNCHANGED registered
      BY <2>8 DEF MirrorDecision
    <3>2. task'[t].pc \in ResumePcs /\ \A u \in Slots \ {t} : task'[u] = task[u]
      BY <1>0, <2>2, <3>1, GotoStep
    <3>3. s \in Stages /\ task[t].mem.gates[s] # "failed"
      BY <2>1, <2>8 DEF RInv, TypeInv, StagesNamed, NamesAStage, MirrorDecision, Checkpoint,
                        GateValue
    <3>4. \A x \in Stages : row'.gate[x] # "failed"
      BY <1>0, <2>8, <3>3 DEF MirrorDecision, TypeOK, Row
    <3> QED  BY <1>0, <2>1, <3>1, <3>2, <3>4, ResumeMoves
  <2>9. CASE MirrorPending(t) \/ WriteRejected(t) \/ WriteComplete(t) \/ WriteRaised(t)
    <3>1. Finish(t) /\ \A u \in Slots \ {t} : task'[u] = task[u]
      BY <1>0, <2>9, FinishStep DEF MirrorPending, WriteRejected, WriteComplete, WriteRaised
    <3>2. \A x \in Stages : row'.gate[x] # "failed"
      <4>1. CASE MirrorPending(t)
        BY <1>0, <4>1 DEF MirrorPending, TypeOK, Row
      <4>2. CASE WriteRejected(t) \/ WriteComplete(t) \/ WriteRaised(t)
        <5>1. row'.gate = row.gate
          BY <1>0, <4>2 DEF WriteRejected, WriteComplete, WriteRaised, TypeOK, Row
        <5> QED  BY <1>0, <5>1
      <4> QED  BY <2>9, <4>1, <4>2
    <3> QED  BY <1>0, <2>1, <3>1, <3>2, ResumeMoves
  <2>10. ~StageError(t) /\ ~WriteFailed(t) /\ ~MirrorFailed(t)
    BY DEF OnlyResumed, StageError, WriteFailed, MirrorFailed, RInv, Registered, ResumePcs
  <2> QED  BY <1>2, <2>3, <2>4, <2>5, <2>6, <2>7, <2>8, <2>9, <2>10 DEF Drive
<1>3. ASSUME NEW t \in Slots, Request(t) PROVE RInv'
  <2>1. PostResumeReplay(t)
    BY <1>0, <1>3
       DEF Request, OnlyResumed, PostGate, PostResumeFailed, ResumeAccepted, IsFirstFailed,
           FailedStages, PostRetry, PatchArtifact, Restart
  <2>2. \A u \in Slots : Free(u)
    BY <2>1, SlotsAssumption
       DEF PostResumeReplay, ResumeAccepted, CanResume, RInv, Registered
  <2>3. registered' = t /\ UNCHANGED row /\ Become(t, Fresh("f_running", 0, "none", NoGates))
    BY <2>1 DEF PostResumeReplay
  <2>4. "f_running" \in Pcs /\ 0 \in 0 .. N /\ NoGates \in RowGates
    BY InitialTypes, StagesAssumption DEF Pcs
  <2> DEFINE y == Fresh("f_running", 0, "none", NoGates)
  <2>5. y \in Task /\ y.pc = "f_running" /\ Become(t, y)
    BY <2>3, <2>4, FreshType
  <2> HIDE DEF y
  <2>6. task'[t] = y /\ \A u \in Slots \ {t} : task'[u] = task[u]
    BY <1>0, <2>5, BecomeStep
  <2> QED  BY <1>0, <2>2, <2>3, <2>5, <2>6 DEF RInv, Registered, Free, ResumePcs
<1>4. CASE Crash
  <2>1. \A u \in Slots : task'[u].pc = "idle"
    BY <1>4, IdleType DEF Crash
  <2> QED  BY <1>0, <1>4, <2>1 DEF Crash, RInv, Registered, Free, ResumePcs
<1>5. CASE UNCHANGED vars
  BY <1>0, <1>5 DEF vars, RInv, Registered, Free
<1> QED  BY <1>1, <1>2, <1>3, <1>4, <1>5 DEF Next, Step

\* is_executing, asked in the same step as the spawn, is enough: two /resume
\* requests never drive one thread twice.
THEOREM OneDriverWhenResumed == ASSUME OnlyResumed PROVE Spec => []OneDriver
<1>1. RInv => OneDriver
  BY DEF RInv, Registered, Free, Driving, OneDriver
<1>2. RInv /\ [Next]_vars => RInv'
  BY ResumeStep
<1> QED  BY <1>1, <1>2, ResumeInit, PTL DEF Spec

-----------------------------------------------------------------------------
\* What the theorems assume of the constants.
Habits == {"one_at_a_time", "current_gate", "current_edit", "retry_rejected"}
LosingPcs ==
  {"provision", "start", "g_update", "t_row", "x_row", "failed1", "failed2",
   "await2", "mirror", "reject1"}
Losing ==
  (LosingPcs \X (Decisions \cup {"none"})) \cup ({"load", "run"} \X {"rejected"})
Assumed == Habits \subseteq Client /\ CrashAt \cap Losing = {}

-----------------------------------------------------------------------------
(* The inductive invariant. *)

\* Every stage before the next node is approved and has its output; nothing
\* after it has an output or an approval.
CkOrdered ==
  ck.at # "none" =>
    \A x \in Stages :
      /\ x < ck.pos => ck.gates[x] = "approved" /\ ck.out[x]
      /\ x > ck.pos => ck.gates[x] # "approved" /\ ~ck.out[x]
CkNext ==
  /\ ck.at = "stage" => ~ck.out[ck.pos]
  /\ ck.at \in {"stage", "gate"} => ck.gates[ck.pos] # "approved"
  /\ ck.at = "gate" => ~ck.err
  /\ ck.at = "end" => ck.err \/ ck.gates[ck.pos] \in Decisions
  /\ ck.at = "end" /\ ck.err => ck.gates[ck.pos] # "approved"
  /\ ck.at = "none" => \A x \in Stages : ck.gates[x] # "approved"

\* A scenario under review and an image stage about to run find no files.
FilesFresh ==
  /\ ck.at = "gate" /\ ck.pos = Scenario => ~frames
  /\ ck.at = "stage" /\ ck.pos = Image => ~frames

CkInv == CkOrdered /\ CkNext /\ FilesFresh

\* The row shows a settled gate only for stages the run has reached.
RowBehind ==
  \A x \in Stages : row.gate[x] \in Retryable => ck.at # "none" /\ x <= ck.pos
NoFailed == \A x \in Stages : row.gate[x] # "failed"
\* The row shows every approval of the checkpoint; a gate just decided is
\* mirrored by the next step.
ProjectedBut(s) ==
  \A x \in Stages : ck.gates[x] = "approved" /\ x # s => row.gate[x] = "approved"
Projected == \A x \in Stages : ck.gates[x] = "approved" => row.gate[x] = "approved"

AtReview(s) ==
  ck.at = "gate" /\ ck.pos = s /\ ck.out[s] /\ (s = Image => frames)
Resumable ==
  /\ ck.at # "none"
  /\ ck.at = "gate" => ck.out[ck.pos] /\ (ck.pos = Image => frames)
  /\ ck.at = "end" => Approved(ck)

\* What a run that nothing drives looks like.
Failure ==
  \/ ck.at = "stage" /\ NoFailed
  \/ /\ ck.at = "end" /\ ck.err
     /\ \A x \in Stages : row.gate[x] = "failed" <=> x = ck.pos
  \/ ck.at = "end" /\ ck.pos = Scenario /\ row.gate[Scenario] = "rejected" /\ NoFailed
Settled ==
  /\ row.status = "awaiting_approval" =>
       /\ row.current \in Stages /\ AtReview(row.current)
       /\ row.gate[row.current] = "pending" /\ NoFailed
  /\ row.status = "complete" => Approved(ck) /\ ck.at = "end" /\ NoFailed
  /\ row.status = "failed" => Failure
  /\ row.status = "running" => NoFailed /\ Resumable

Reviewing(t) ==
  /\ AtReview(task[t].stage) /\ NoFailed /\ row.gate[task[t].stage] = "pending"
  /\ task[t].dec \in Decisions

\* A decision on its way to the gate it was made for.
Carried(t) ==
  /\ ck.at = "gate" /\ ck.pos = task[t].stage /\ NoFailed
  /\ task[t].dec \in Decisions
  /\ task[t].dec = "approved" =>
       ck.out[task[t].stage] /\ (task[t].stage = Image => frames)
  /\ task[t].dec = "rejected" /\ task[t].stage # Scenario =>
       ~ck.out[task[t].stage] /\ (task[t].stage = Image => ~frames)

Retrying(t) ==
  /\ Settled /\ row.status \in Mutable
  /\ row.gate[task[t].stage] \in Retryable
  /\ task[t].gates = row.gate

\* The steps of a task that may carry a decision.
Deciding == {"g_running", "g_provision", "g_read", "g_update", "load", "run"}

\* What is true of the run while a task is at each of its steps.
Live(t) ==
  LET v == task[t]
      pc == task[t].pc
      s == task[t].stage
  IN
  /\ pc \notin Deciding => v.dec = "none"
  /\ pc \in {"provision", "start"} =>
       /\ row.status = "running" /\ ck.at = "none"
       /\ \A x \in Stages : row.gate[x] = "none"
  /\ pc = "g_running" => Reviewing(t) /\ Settled /\ row.status = "awaiting_approval" /\ row.current = s
  /\ pc = "g_provision" => Reviewing(t) /\ row.status = "running" /\ s = Scenario /\ v.dec = "approved"
  /\ pc = "g_read" => Reviewing(t) /\ row.status = "running" /\ s # Scenario /\ v.dec = "rejected"
  /\ pc = "g_update" =>
       /\ ck.at = "gate" /\ ck.pos = s /\ NoFailed /\ row.status = "running"
       /\ s # Scenario /\ v.dec = "rejected" /\ v.mem = ck /\ (s = Image => ~frames)
  /\ pc = "f_running" => Settled /\ Resumable /\ NoFailed
  /\ pc = "t_read" => Retrying(t)
  /\ pc = "t_update" => Retrying(t) /\ v.mem = ck /\ (s = Image => ~frames)
  /\ pc = "t_row" =>
       /\ ck.at = "stage" /\ ck.pos = s
       /\ \A x \in Stages : x < s => v.gates[x] = "approved"
  /\ pc \in {"e_read", "e_update"} => Settled /\ row.status = "awaiting_approval" /\ row.current = s
  /\ pc = "e_update" => v.mem = ck
  /\ pc = "x_delete" => Settled
  /\ pc = "x_row" => ck.at = "none"
  /\ pc \in {"load", "run"} => row.status = "running" /\ NoFailed
  /\ pc \in {"load", "run"} /\ v.dec # "none" => Carried(t)
  /\ pc \in {"load", "run"} /\ v.dec = "none" => Resumable
  /\ pc = "run" => v.mem = ck
  /\ pc \in {"entered", "await1", "await2"} =>
       AtReview(s) /\ NoFailed /\ v.mem = ck
  /\ pc \in {"entered", "await1"} => row.status = "running"
  /\ pc = "await2" => row.status = "awaiting_approval" /\ row.current = s
  /\ pc \in {"failed1", "failed2"} => ck.at = "end" /\ ck.err /\ ck.pos = s /\ NoFailed
  /\ pc = "failed2" => row.status = "failed"
  /\ pc = "mirror" =>
       /\ v.mem = ck /\ row.status = "running" /\ NoFailed
       /\ ck.gates[s] \in Decisions /\ s <= ck.pos
       /\ IF ck.gates[s] = "rejected" /\ s = Scenario
          THEN ck.at = "end" /\ ck.pos = Scenario
          ELSE ck.at \in {"stage", "end"} /\ Resumable
  /\ pc = "reject1" =>
       ck.at = "end" /\ ck.pos = Scenario /\ row.gate[Scenario] = "rejected" /\ NoFailed
  /\ pc = "complete" => Approved(ck) /\ ck.at = "end" /\ row.status = "running" /\ NoFailed
  /\ pc = "raised" => ck.at = "stage" /\ row.status = "running" /\ NoFailed

RowOk(t) ==
  /\ task[t].pc \notin {"t_row", "x_row"} => RowBehind
  /\ task[t].pc \notin {"t_row", "x_row", "mirror"} => Projected
  /\ task[t].pc = "mirror" => ProjectedBut(task[t].stage)

Single == \A t, u \in Slots : ~Free(t) /\ ~Free(u) => t = u
Rest == \A t \in Slots : Free(t) => task[t].dec = "none"
Registration == registered # NoTask => registered \in Slots /\ ~Free(registered)

IInv ==
  /\ TypeInv /\ Single /\ Registration /\ Rest
  /\ CkInv
  /\ Quiet => Settled /\ RowBehind /\ Projected
  /\ \A t \in Slots : ~Free(t) => Live(t) /\ RowOk(t)

-----------------------------------------------------------------------------
(* A step belongs to the one task there is: it stays alive, it returns, or *)
(* a request makes it begin.                                               *)

Others(t) == \A u \in Slots \ {t} : task'[u] = task[u]

LEMMA Stays ==
  ASSUME IInv, TypeInv', NEW t \in Slots, ~Free(t), Others(t), ~Free(t)',
         UNCHANGED registered, CkInv', Live(t)', RowOk(t)'
  PROVE  IInv'
<1>1. \A u \in Slots \ {t} : Free(u) /\ Free(u)'
  BY DEF IInv, Single, Others, Free
<1>2. Single' /\ Registration' /\ Rest' /\ ~Quiet'
  BY <1>1 DEF IInv, Single, Registration, Rest, Quiet, Others, Free
<1> QED  BY <1>1, <1>2 DEF IInv

LEMMA Ends ==
  ASSUME IInv, TypeInv', NEW t \in Slots, ~Free(t), Finish(t),
         CkInv', Settled', RowBehind', Projected'
  PROVE  IInv'
<1>0. TypeOK
  BY DEF IInv, TypeInv
<1>1. /\ Free(t)' /\ \A u \in Slots \ {t} : Free(u)'
  BY <1>0, FinishStep DEF IInv, Single, Free
<1>2. registered' = NoTask
  BY <1>1 DEF Finish, IInv, Registration, Single
<1>3. Single' /\ Registration' /\ Rest'
  <2>1. task'[t].dec = "none" /\ \A u \in Slots \ {t} : task'[u] = task[u]
    BY <1>0, FinishStep, IdleType
  <2> QED  BY <1>1, <1>2, <2>1 DEF IInv, Single, Registration, Rest, Free
<1> QED  BY <1>1, <1>3 DEF IInv

LEMMA Begins ==
  ASSUME IInv, TypeInv', NEW t \in Slots, Quiet, Others(t), ~Free(t)',
         registered' \in {registered, t}, CkInv', Live(t)', RowOk(t)'
  PROVE  IInv'
<1>1. \A u \in Slots \ {t} : Free(u)'
  BY DEF Quiet, Others, Free
<1>2. registered = NoTask
  BY DEF IInv, Registration, Quiet
<1>3. Single' /\ Registration' /\ Rest' /\ ~Quiet'
  BY <1>1, <1>2 DEF IInv, Single, Registration, Rest, Quiet, Others, Free
<1> QED  BY <1>1, <1>3 DEF IInv

\* What stays true of a checkpoint a step leaves alone.
LEMMA CkInvStays == CkInv /\ UNCHANGED <<ck, frames>> => CkInv'
  BY DEF CkInv, CkOrdered, CkNext, FilesFresh

-----------------------------------------------------------------------------
(* The handlers. *)

LEMMA SafeProvision ==
  ASSUME IInv, TypeInv', NEW t \in Slots, Provision(t) PROVE IInv'
<1>0. TypeOK /\ ~Free(t) /\ Live(t) /\ RowOk(t)
  BY DEF IInv, TypeInv, Provision, Free
<1>1. Others(t) /\ task'[t].pc = "start" /\ task'[t].dec = task[t].dec
  BY <1>0, GotoStep DEF Provision, Pcs, Others
<1>2. CkInv'
  BY CkInvStays DEF IInv, Provision
<1>3. Live(t)'
  BY <1>0, <1>1 DEF Provision, Live, Deciding
<1>4. RowOk(t)'
  BY <1>0, <1>1 DEF Provision, RowOk, RowBehind, Projected
<1> QED  BY <1>0, <1>1, <1>2, <1>3, <1>4, Stays DEF Free, Provision

LEMMA SafeGateRunning ==
  ASSUME IInv, TypeInv', NEW t \in Slots, GateRunning(t) PROVE IInv'
<1>0. TypeOK /\ ~Free(t) /\ Live(t) /\ RowOk(t) /\ StagesNamed
  BY DEF IInv, TypeInv, GateRunning, Free
<1>1. task[t].stage \in Stages /\ Reviewing(t)
  BY <1>0 DEF GateRunning, StagesNamed, NamesAStage, Live
<1>2. /\ Others(t) /\ task'[t].pc \in {"g_provision", "g_read", "load"}
      /\ task'[t].stage = task[t].stage /\ task'[t].dec = task[t].dec
      /\ task'[t].pc = "g_provision" => task[t].stage = Scenario /\ task[t].dec = "approved"
      /\ task'[t].pc = "g_read" => task[t].stage # Scenario /\ task[t].dec = "rejected"
      /\ task'[t].pc = "load" => task[t].dec = "approved" \/ task[t].stage = Scenario
  BY <1>0, <1>1, GotoStep DEF GateRunning, Pcs, Others, Reviewing, Decisions
<1>3. row' = [row EXCEPT !.status = "running"] /\ row'.status = "running" /\ row'.gate = row.gate
  BY <1>0 DEF GateRunning, TypeOK, Row
<1>4. CkInv'
  BY CkInvStays DEF IInv, GateRunning
<1>5. Live(t)'
  BY <1>1, <1>2, <1>3 DEF GateRunning, Live, Deciding, Reviewing, Carried, AtReview, NoFailed, Decisions
<1>6. RowOk(t)'
  BY <1>0, <1>2, <1>3 DEF GateRunning, RowOk, RowBehind, Projected
<1> QED  BY <1>0, <1>2, <1>4, <1>5, <1>6, Stays DEF Free, GateRunning

\* The warnings of the cards are written back where the graph is paused.
LEMMA GateProvisionKeeps ==
  ASSUME IInv, NEW t \in Slots, GateProvision(t)
  PROVE  UNCHANGED <<ck, frames, row, registered>>
<1>1. ck.at = "gate" /\ ck.pos = Scenario /\ ck.err = FALSE /\ ck \in Checkpoint
  BY DEF IInv, TypeInv, GateProvision, Free, Live, Reviewing, AtReview, CkInv, CkNext,
         TypeOK, Checkpoint
<1>2. At(ck, AfterStage(Scenario, ck.err)) = ck
  BY <1>1 DEF At, AfterStage, Checkpoint
<1> QED  BY <1>2 DEF GateProvision

LEMMA SafeGateProvision ==
  ASSUME IInv, TypeInv', NEW t \in Slots, GateProvision(t) PROVE IInv'
<1>0. TypeOK /\ ~Free(t) /\ Live(t) /\ RowOk(t) /\ CkInv
  BY DEF IInv, TypeInv, GateProvision, Free
<1>1. /\ Reviewing(t) /\ row.status = "running"
      /\ task[t].stage = Scenario /\ task[t].dec = "approved"
  BY <1>0 DEF GateProvision, Live
<1>2. /\ Others(t) /\ task'[t].pc = "load"
      /\ task'[t].stage = task[t].stage /\ task'[t].dec = task[t].dec
  BY <1>0, GotoStep DEF GateProvision, Pcs, Others
<1>5. UNCHANGED <<ck, frames, row, registered>>
  BY GateProvisionKeeps
<1>6. CkInv'
  BY <1>0, <1>5, CkInvStays
<1>7. Live(t)'
  BY <1>1, <1>2, <1>5 DEF Live, Deciding, Reviewing, Carried, AtReview, NoFailed, Decisions
<1>8. RowOk(t)'
  BY <1>0, <1>2, <1>5 DEF GateProvision, RowOk, RowBehind, Projected
<1> QED  BY <1>0, <1>2, <1>5, <1>6, <1>7, <1>8, Stays DEF Free

LEMMA SafeGateRead ==
  ASSUME IInv, TypeInv', NEW t \in Slots, GateRead(t) PROVE IInv'
<1>0. TypeOK /\ ~Free(t) /\ Live(t) /\ RowOk(t) /\ CkInv
  BY DEF IInv, TypeInv, GateRead, Free
<1>1. /\ Reviewing(t) /\ row.status = "running"
      /\ task[t].stage # Scenario /\ task[t].dec = "rejected"
  BY <1>0 DEF GateRead, Live
<1>2. /\ Others(t) /\ task'[t].pc = "g_update" /\ task'[t].mem = ck
      /\ task'[t].stage = task[t].stage /\ task'[t].dec = task[t].dec
  BY <1>0, HoldStep DEF GateRead, Pcs, Others, TypeOK
<1>3. CkInv'
  BY <1>0, <1>1 DEF GateRead, Reviewing, AtReview, CkInv, CkOrdered, CkNext, FilesFresh
<1>4. Live(t)'
  BY <1>1, <1>2 DEF GateRead, Live, Deciding, Reviewing, AtReview, NoFailed
<1>5. RowOk(t)'
  BY <1>0, <1>2 DEF GateRead, RowOk, RowBehind, Projected
<1> QED  BY <1>0, <1>2, <1>3, <1>4, <1>5, Stays DEF Free, GateRead

LEMMA SafeFailureRunning ==
  ASSUME IInv, TypeInv', NEW t \in Slots, FailureRunning(t) PROVE IInv'
<1>0. TypeOK /\ ~Free(t) /\ Live(t) /\ RowOk(t)
  BY DEF IInv, TypeInv, FailureRunning, Free
<1>2. /\ Others(t) /\ task'[t].pc = "load"
      /\ task'[t].stage = task[t].stage /\ task'[t].dec = task[t].dec
  BY <1>0, GotoStep DEF FailureRunning, Pcs, Others
<1>3. row'.status = "running" /\ row'.gate = row.gate
  BY <1>0 DEF FailureRunning, TypeOK, Row
<1>4. CkInv'
  BY CkInvStays DEF IInv, FailureRunning
<1>5. Live(t)'
  BY <1>0, <1>2, <1>3 DEF FailureRunning, Live, Resumable, NoFailed, Approved, Deciding
<1>6. RowOk(t)'
  BY <1>0, <1>2, <1>3 DEF FailureRunning, RowOk, RowBehind, Projected
<1> QED  BY <1>0, <1>2, <1>4, <1>5, <1>6, Stays DEF Free, FailureRunning

LEMMA SafeRestartDelete ==
  ASSUME IInv, TypeInv', NEW t \in Slots, RestartDelete(t) PROVE IInv'
<1>0. TypeOK /\ ~Free(t) /\ Live(t)
  BY DEF IInv, TypeInv, RestartDelete, Free
<1>1. Others(t) /\ task'[t].pc = "x_row" /\ task'[t].dec = task[t].dec
  BY <1>0, GotoStep DEF RestartDelete, Pcs, Others
<1>2. /\ ck'.at = "none" /\ ck'.pos = Scenario
      /\ \A x \in Stages : ck'.gates[x] = "none"
  BY DEF RestartDelete, NoCheckpoint
<1>3. CkInv'
  BY <1>2 DEF CkInv, CkOrdered, CkNext, FilesFresh
<1>4. Live(t)' /\ RowOk(t)'
  BY <1>0, <1>1, <1>2 DEF RestartDelete, Live, Deciding, RowOk
<1> QED  BY <1>0, <1>1, <1>3, <1>4, Stays DEF Free, RestartDelete

LEMMA SafeRestartRow ==
  ASSUME IInv, TypeInv', NEW t \in Slots, RestartRow(t) PROVE IInv'
<1>0. TypeOK /\ ~Free(t) /\ Live(t) /\ CkInv
  BY DEF IInv, TypeInv, RestartRow, Free
<1>1. Others(t) /\ task'[t].pc = "start" /\ task'[t].dec = task[t].dec
  BY <1>0, GotoStep DEF RestartRow, Pcs, Others
<1>2. row'.status = "running" /\ \A x \in Stages : row'.gate[x] = "none"
  BY DEF RestartRow
<1>3. ck.at = "none" /\ CkInv'
  BY <1>0, CkInvStays DEF RestartRow, Live
<1>4. Live(t)'
  BY <1>0, <1>1, <1>2, <1>3 DEF RestartRow, Live, Deciding
<1>5. RowOk(t)'
  BY <1>1, <1>2, <1>3 DEF RestartRow, RowOk, RowBehind, Projected, Retryable, CkInv, CkNext
<1> QED  BY <1>0, <1>1, <1>3, <1>4, <1>5, Stays DEF Free, RestartRow

\* A redo of s keeps what is before s and withdraws the rest.
LEMMA RedoKeepsBefore ==
  ASSUME NEW s \in Stages, NEW g, NEW out \in OutMap
  PROVE  /\ \A x \in Stages : x < s => ResetGates(s, g)[x] = g[x] /\ Nullify(s, out)[x] = out[x]
         /\ \A x \in Stages : ~(x < s) => ResetGates(s, g)[x] = "pending" /\ ~Nullify(s, out)[x]
<1>1. \A x \in Stages : x < s <=> ~(x >= s)
  BY StagesAssumption DEF Stages
<1>2. \A x \in Stages : out[x] \in BOOLEAN
  BY DEF OutMap
<1> QED  BY <1>1, <1>2 DEF ResetGates, Nullify

LEMMA GateUpdateWrites ==
  ASSUME IInv, NEW t \in Slots, GateUpdate(t)
  PROVE  LET s == task[t].stage IN
         /\ s \in Stages /\ s # Scenario /\ task[t].dec = "rejected"
         /\ ck.at = "gate" /\ ck.pos = s /\ (s = Image => ~frames)
         /\ ck'.at = "gate" /\ ck'.pos = s /\ ck'.err = FALSE
         /\ \A x \in Stages : x < s => ck'.gates[x] = ck.gates[x] /\ ck'.out[x] = ck.out[x]
         /\ \A x \in Stages : ~(x < s) => ck'.gates[x] = "pending" /\ ~ck'.out[x]
<1>0. TypeOK /\ ~Free(t) /\ Live(t) /\ RowOk(t) /\ CkInv
  BY DEF IInv, TypeInv, GateUpdate, Free
<1> DEFINE s == task[t].stage
<1>1. /\ ck.at = "gate" /\ ck.pos = s /\ NoFailed /\ row.status = "running"
      /\ s # Scenario /\ task[t].dec = "rejected" /\ task[t].mem = ck
      /\ s = Image => ~frames
  BY <1>0 DEF GateUpdate, Live
<1>2. s \in Stages /\ ck \in Checkpoint /\ ck.err = FALSE
  BY <1>0, <1>1, FieldTypes DEF TypeOK, Checkpoint, CkInv, CkNext
<1>4. /\ AfterStage(s, FALSE) \in Node
      /\ AfterStage(s, FALSE).at = "gate" /\ AfterStage(s, FALSE).pos = s
  BY <1>2, AfterStageType
<1>5. ck' = At(Redone(ck, s, ck), AfterStage(s, FALSE))
  BY <1>1, <1>2 DEF GateUpdate
<1>6. /\ ck'.at = "gate" /\ ck'.pos = s /\ ck'.err = FALSE
      /\ ck'.gates = ResetGates(s, ck.gates) /\ ck'.out = Nullify(s, ck.out)
  <2> DEFINE state == Redone(ck, s, ck)
             node == AfterStage(s, FALSE)
  <2>1. /\ state \in Checkpoint
        /\ state.gates = ResetGates(s, ck.gates) /\ state.out = Nullify(s, ck.out)
        /\ state.err = FALSE
    BY <1>2, RedoneFacts
  <2>2. ck' = At(state, node) /\ node \in Node /\ node.at = "gate" /\ node.pos = s
    BY <1>4, <1>5
  <2> HIDE DEF state, node
  <2> QED  BY <2>1, <2>2, AtType
<1>7. /\ \A x \in Stages : x < s => ck'.gates[x] = ck.gates[x] /\ ck'.out[x] = ck.out[x]
      /\ \A x \in Stages : ~(x < s) => ck'.gates[x] = "pending" /\ ~ck'.out[x]
  BY <1>0, <1>2, <1>6, FieldTypes, RedoKeepsBefore
<1> QED  BY <1>1, <1>2, <1>6, <1>7

LEMMA SafeGateUpdate ==
  ASSUME IInv, TypeInv', NEW t \in Slots, GateUpdate(t) PROVE IInv'
<1>0. TypeOK /\ ~Free(t) /\ Live(t) /\ RowOk(t) /\ CkInv
  BY DEF IInv, TypeInv, GateUpdate, Free
<1> DEFINE s == task[t].stage
<1>1. NoFailed /\ row.status = "running"
  BY <1>0 DEF GateUpdate, Live
<1>2. /\ s \in Stages /\ s # Scenario /\ task[t].dec = "rejected"
      /\ ck.at = "gate" /\ ck.pos = s /\ (s = Image => ~frames)
      /\ ck'.at = "gate" /\ ck'.pos = s /\ ck'.err = FALSE
      /\ \A x \in Stages : x < s => ck'.gates[x] = ck.gates[x] /\ ck'.out[x] = ck.out[x]
      /\ \A x \in Stages : ~(x < s) => ck'.gates[x] = "pending" /\ ~ck'.out[x]
  BY GateUpdateWrites
<1>3. /\ Others(t) /\ task'[t].pc = "load"
      /\ task'[t].stage = s /\ task'[t].dec = task[t].dec
  BY <1>0, GotoStep DEF GateUpdate, Pcs, Others
<1> HIDE DEF s
<1>8. CkInv'
  BY <1>0, <1>1, <1>2 DEF CkInv, CkOrdered, CkNext, FilesFresh, Stages, GateUpdate
<1>9. Live(t)'
  <2>1. ~(s < s)
    BY <1>2 DEF Stages
  <2> QED  BY <1>1, <1>2, <1>3, <2>1
           DEF GateUpdate, Live, Deciding, Carried, NoFailed, Decisions, s
<1>10. RowOk(t)'
  BY <1>0, <1>2, <1>3 DEF GateUpdate, RowOk, RowBehind, Projected
<1> QED  BY <1>0, <1>3, <1>8, <1>9, <1>10, Stays DEF Free, GateUpdate

LEMMA RetriedStage ==
  ASSUME CkInv, RowBehind, Projected, TypeOK, NEW s \in Stages, row.gate[s] \in Retryable
  PROVE  /\ ck.at # "none" /\ s <= ck.pos
         /\ \A x \in Stages : x < s => /\ ck.gates[x] = "approved" /\ ck.out[x]
                                       /\ row.gate[x] = "approved"
<1>1. ck.at # "none" /\ s <= ck.pos /\ ck.pos \in Stages
  BY DEF RowBehind, TypeOK, Checkpoint
<1>2. \A x \in Stages : x < s => x < ck.pos
  BY <1>1, StagesAssumption DEF Stages
<1> QED  BY <1>1, <1>2 DEF CkInv, CkOrdered, Projected

LEMMA SafeRetryRead ==
  ASSUME IInv, TypeInv', NEW t \in Slots, RetryRead(t) PROVE IInv'
<1>0. TypeOK /\ ~Free(t) /\ Live(t) /\ RowOk(t) /\ CkInv
  BY DEF IInv, TypeInv, RetryRead, Free
<1>1. Retrying(t) /\ task[t].dec = "none"
  BY <1>0 DEF RetryRead, Live, Deciding
<1>2. /\ Others(t) /\ task'[t].pc = "t_update" /\ task'[t].mem = ck
      /\ task'[t].stage = task[t].stage /\ task'[t].dec = task[t].dec
      /\ task'[t].gates = task[t].gates
  BY <1>0, HoldStep DEF RetryRead, Pcs, Others, TypeOK
<1>3. frames' => frames /\ task[t].stage # Image
  BY DEF RetryRead
<1>4. CkInv'
  BY <1>0, <1>3 DEF RetryRead, CkInv, CkOrdered, CkNext, FilesFresh
<1>5. row.status = "awaiting_approval" => task[t].stage # row.current
  BY <1>1 DEF Retrying, Settled, Retryable
<1>6. frames' = frames \/ (task[t].stage = Image /\ ~frames')
  BY <1>0 DEF RetryRead, TypeOK
<1>7. Settled'
  BY <1>1, <1>5, <1>6 DEF RetryRead, Retrying, Settled, Mutable, AtReview, Approved, Failure, NoFailed
<1>8. Live(t)'
  BY <1>1, <1>2, <1>3, <1>7 DEF RetryRead, Live, Deciding, Retrying
<1>9. RowOk(t)'
  BY <1>0, <1>2 DEF RetryRead, RowOk, RowBehind, Projected
<1> QED  BY <1>0, <1>2, <1>4, <1>8, <1>9, Stays DEF Free, RetryRead

\* The write of a retry goes through: the previous gate is approved, so its
\* edge leads to the retried stage.
LEMMA RetryUpdateWrites ==
  ASSUME IInv, NEW t \in Slots, RetryUpdate(t)
  PROVE  LET s == task[t].stage IN
         /\ s \in Stages /\ Retrying(t) /\ task[t].dec = "none" /\ (s = Image => ~frames)
         /\ ck.at # "none" /\ s <= ck.pos
         /\ \A x \in Stages : x < s => /\ ck.gates[x] = "approved" /\ ck.out[x]
                                       /\ row.gate[x] = "approved"
         /\ ck'.at = "stage" /\ ck'.pos = s
         /\ \A x \in Stages : x < s => ck'.gates[x] = "approved" /\ ck'.out[x]
         /\ \A x \in Stages : ~(x < s) => ck'.gates[x] = "pending" /\ ~ck'.out[x]
         /\ Goto(t, "t_row") /\ UNCHANGED <<registered, frames>>
<1>0. TypeOK /\ ~Free(t) /\ Live(t) /\ RowOk(t) /\ CkInv /\ StagesNamed
  BY DEF IInv, TypeInv, RetryUpdate, Free
<1> DEFINE s == task[t].stage
           state == Redone(ck, s, ck)
<1>1. /\ Retrying(t) /\ task[t].dec = "none" /\ task[t].mem = ck
      /\ s = Image => ~frames
  BY <1>0 DEF RetryUpdate, Live, Deciding
<1>2. s \in Stages /\ ck \in Checkpoint /\ ck.out \in OutMap /\ ck.pos \in Stages
  BY <1>0, FieldTypes DEF TypeOK, StagesNamed, NamesAStage, RetryUpdate
<1>3. RowBehind /\ Projected
  BY <1>0 DEF RetryUpdate, RowOk
<1>4. /\ ck.at # "none" /\ s <= ck.pos
      /\ \A x \in Stages : x < s => /\ ck.gates[x] = "approved" /\ ck.out[x]
                                    /\ row.gate[x] = "approved"
  BY <1>0, <1>1, <1>2, <1>3, RetriedStage DEF Retrying
<1>5. /\ state \in Checkpoint
      /\ state.gates = ResetGates(s, ck.gates) /\ state.out = Nullify(s, ck.out)
  BY <1>2, RedoneFacts
<1>6. /\ \A x \in Stages : x < s => state.gates[x] = "approved" /\ state.out[x]
      /\ \A x \in Stages : ~(x < s) => state.gates[x] = "pending" /\ ~state.out[x]
  BY <1>2, <1>4, <1>5, RedoKeepsBefore
<1>7. s # Scenario => s - 1 \in Stages /\ s - 1 < s /\ s - 1 # N /\ s - 1 + 1 = s
  BY <1>2, StagesAssumption DEF Stages, Scenario
<1> HIDE DEF state
<1>8. ~EntryRaises(s, state)
  BY <1>6, <1>7 DEF EntryRaises
<1>9. /\ RetryEntry(s, state) \in Node
      /\ RetryEntry(s, state).at = "stage" /\ RetryEntry(s, state).pos = s
  BY <1>2, <1>6, <1>7 DEF RetryEntry, AfterGate, Node
<1>10. ck' = At(state, RetryEntry(s, state)) /\ Goto(t, "t_row") /\ UNCHANGED <<registered, frames>>
  BY <1>1, <1>8 DEF RetryUpdate, state
<1>11. /\ ck'.at = "stage" /\ ck'.pos = s /\ ck'.gates = state.gates /\ ck'.out = state.out
  BY <1>5, <1>9, <1>10, AtType
<1> QED  BY <1>1, <1>2, <1>4, <1>6, <1>10, <1>11

LEMMA SafeRetryUpdate ==
  ASSUME IInv, TypeInv', NEW t \in Slots, RetryUpdate(t) PROVE IInv'
<1>0. TypeOK /\ ~Free(t)
  BY DEF IInv, TypeInv, RetryUpdate, Free
<1> DEFINE s == task[t].stage
<1>1. /\ s \in Stages /\ Retrying(t) /\ task[t].dec = "none" /\ (s = Image => ~frames)
      /\ \A x \in Stages : x < s => row.gate[x] = "approved"
      /\ ck'.at = "stage" /\ ck'.pos = s
      /\ \A x \in Stages : x < s => ck'.gates[x] = "approved" /\ ck'.out[x]
      /\ \A x \in Stages : ~(x < s) => ck'.gates[x] = "pending" /\ ~ck'.out[x]
      /\ Goto(t, "t_row") /\ UNCHANGED <<registered, frames>>
  BY RetryUpdateWrites
<1>2. /\ Others(t) /\ task'[t].pc = "t_row"
      /\ task'[t].stage = s /\ task'[t].dec = task[t].dec
      /\ task'[t].gates = task[t].gates
  BY <1>0, <1>1, GotoStep DEF Pcs, Others
<1> HIDE DEF s
<1>3. /\ ~(s < s) /\ \A x \in Stages : x > s => ~(x < s)
  BY <1>1 DEF Stages
<1>4. CkInv'
  BY <1>1, <1>3, StageFacts DEF CkInv, CkOrdered, CkNext, FilesFresh
<1>5. Live(t)'
  BY <1>1, <1>2 DEF Live, Deciding, Retrying
<1>6. RowOk(t)'
  BY <1>2 DEF RowOk
<1> QED  BY <1>0, <1>1, <1>2, <1>4, <1>5, <1>6, Stays DEF Free

LEMMA SafeRetryRow ==
  ASSUME IInv, TypeInv', NEW t \in Slots, RetryRow(t) PROVE IInv'
<1>0. TypeOK /\ ~Free(t) /\ Live(t) /\ CkInv /\ StagesNamed
  BY DEF IInv, TypeInv, RetryRow, Free
<1> DEFINE s == task[t].stage
<1>1. /\ ck.at = "stage" /\ ck.pos = s /\ task[t].dec = "none" /\ s \in Stages
      /\ \A x \in Stages : x < s => task[t].gates[x] = "approved"
  BY <1>0 DEF RetryRow, Live, Deciding, StagesNamed, NamesAStage
<1>2. Others(t) /\ task'[t].pc = "load" /\ task'[t].dec = task[t].dec
  BY <1>0, GotoStep DEF RetryRow, Pcs, Others
<1>3. /\ row'.status = "running"
      /\ \A x \in Stages : row'.gate[x] = IF x >= s THEN "pending" ELSE task[t].gates[x]
  BY DEF RetryRow, ResetGates
<1> HIDE DEF s
<1>4. \A x \in Stages : x < s \/ x >= s
  BY <1>1 DEF Stages
<1>5. CkInv' /\ UNCHANGED <<ck, frames, registered>>
  BY <1>0, CkInvStays DEF RetryRow
<1>6. Live(t)'
  BY <1>1, <1>2, <1>3, <1>4, <1>5 DEF Live, Deciding, NoFailed, Resumable
<1>7. \A x \in Stages : row'.gate[x] \in Retryable => x < s
  BY <1>3, <1>4 DEF Retryable
<1>8. \A x \in Stages : ck.gates[x] = "approved" => x < s
  BY <1>0, <1>1 DEF CkInv, CkOrdered, CkNext, Stages
<1>9. \A x \in Stages : x < s => x <= s /\ ~(x >= s)
  BY <1>1 DEF Stages
<1>10. RowOk(t)'
  BY <1>1, <1>2, <1>3, <1>5, <1>7, <1>8, <1>9 DEF RowOk, RowBehind, Projected
<1> QED  BY <1>0, <1>2, <1>5, <1>6, <1>10, Stays DEF Free

LEMMA SafeEditRead ==
  ASSUME IInv, TypeInv', NEW t \in Slots, EditRead(t) PROVE IInv'
<1>0. TypeOK /\ ~Free(t) /\ Live(t) /\ RowOk(t) /\ CkInv
  BY DEF IInv, TypeInv, EditRead, Free
<1>1. Settled /\ row.status = "awaiting_approval" /\ row.current = task[t].stage
      /\ task[t].dec = "none"
  BY <1>0 DEF EditRead, Live, Deciding
<1>2. ck.out[task[t].stage]
  BY <1>1 DEF Settled, AtReview
<1>3. Hold(t, "e_update", ck) /\ UNCHANGED registered
  BY <1>2 DEF EditRead
<1>4. /\ Others(t) /\ task'[t].pc = "e_update" /\ task'[t].mem = ck
      /\ task'[t].stage = task[t].stage /\ task'[t].dec = task[t].dec
  BY <1>0, <1>3, HoldStep DEF Pcs, Others, TypeOK
<1>5. UNCHANGED <<row, ck, frames>>
  BY DEF EditRead
<1>6. CkInv' /\ Settled'
  BY <1>0, <1>1, <1>5, CkInvStays
     DEF Settled, AtReview, NoFailed
<1>7. Live(t)'
  BY <1>1, <1>4, <1>5, <1>6 DEF Live, Deciding
<1>8. RowOk(t)'
  BY <1>0, <1>4, <1>5 DEF EditRead, RowOk, RowBehind, Projected
<1> QED  BY <1>0, <1>3, <1>4, <1>6, <1>7, <1>8, Stays DEF Free

\* An edit of the stage under review leaves the graph where it is.
LEMMA EditUpdateKeeps ==
  ASSUME IInv, NEW t \in Slots, EditUpdate(t)
  PROVE  UNCHANGED <<row, ck, frames>> /\ Finish(t)
<1>0. TypeOK /\ ~Free(t) /\ Live(t) /\ RowOk(t) /\ CkInv
  BY DEF IInv, TypeInv, EditUpdate, Free
<1> DEFINE s == task[t].stage
           new == Edited(ck, s, ck)
<1>1. Settled /\ row.status = "awaiting_approval" /\ row.current = s /\ task[t].mem = ck
  BY <1>0 DEF EditUpdate, Live
<1>2. s \in Stages /\ ck.at = "gate" /\ ck.pos = s /\ ck.err = FALSE /\ ck \in Checkpoint
      /\ ck.out \in OutMap
  BY <1>0, <1>1, FieldTypes DEF Settled, AtReview, TypeOK, Checkpoint, CkInv, CkNext
<1>3. /\ new \in Checkpoint /\ new.at = "gate" /\ new.pos = s /\ new.err = FALSE
      /\ new.gates = ck.gates /\ \A x \in Stages : new.out[x] = ck.out[x]
  <2> HIDE DEF s
  <2>1. /\ new \in Checkpoint /\ new.at = (IF ck.err THEN "end" ELSE "gate") /\ new.pos = s
        /\ new.err = ck.err /\ new.gates = ck.gates
        /\ \A x \in Stages : new.out[x] = IF x = N THEN ck.out[x] ELSE ck.out[x]
    BY ONLY <1>2, EditedFacts
  <2> QED  BY <1>2, <2>1
<1> HIDE DEF new
<1>4. new = ck
  <2>1. new.out = ck.out
    BY <1>2, <1>3 DEF Checkpoint
  <2> QED  BY <1>2, <1>3, <2>1 DEF Checkpoint
<1>5. UNCHANGED <<row, ck, frames>> /\ Finish(t)
  BY <1>1, <1>4 DEF EditUpdate, new
<1> QED  BY <1>5

LEMMA SafeEditUpdate ==
  ASSUME IInv, TypeInv', NEW t \in Slots, EditUpdate(t) PROVE IInv'
<1>0. TypeOK /\ ~Free(t) /\ Live(t) /\ RowOk(t) /\ CkInv
  BY DEF IInv, TypeInv, EditUpdate, Free
<1>1. UNCHANGED <<row, ck, frames>> /\ Finish(t)
  BY EditUpdateKeeps
<1>2. CkInv' /\ Settled'
  BY <1>0, <1>1, CkInvStays DEF EditUpdate, Live, Settled, AtReview, NoFailed
<1>3. RowBehind' /\ Projected'
  BY <1>0, <1>1 DEF EditUpdate, RowOk, RowBehind, Projected
<1> QED  BY <1>0, <1>1, <1>2, <1>3, Ends

-----------------------------------------------------------------------------
(* The driver. *)

LEMMA SafeStart ==
  ASSUME IInv, TypeInv', NEW t \in Slots, Start(t) PROVE IInv'
<1>0. TypeOK /\ ~Free(t) /\ Live(t)
  BY DEF IInv, TypeInv, Start, Free
<1>1. /\ ck'.at = "stage" /\ ck'.pos = Scenario /\ ck' \in Checkpoint
      /\ \A x \in Stages : ck'.gates[x] = "none" /\ ~ck'.out[x]
  BY InitialTypes DEF Start, InitialState, NoCheckpoint
<1>2. /\ Others(t) /\ task'[t].pc = "run" /\ task'[t].mem = InitialState
      /\ task'[t].dec = task[t].dec
  BY <1>0, HoldStep, InitialTypes DEF Start, Pcs, Others
<1>3. /\ row.status = "running" /\ task[t].dec = "none"
      /\ \A x \in Stages : row.gate[x] = "none"
  BY <1>0 DEF Start, Live, Deciding
<1>4. CkInv'
  <2>1. \A x \in Stages : ~(x < Scenario)
    BY DEF Stages, Scenario
  <2>2. Scenario # Image
    BY DEF Scenario, Image
  <2> QED  BY <1>1, <2>1, <2>2, StageFacts DEF CkInv, CkOrdered, CkNext, FilesFresh
<1>5. Live(t)'
  BY <1>1, <1>2, <1>3 DEF Start, Live, Deciding, NoFailed, Resumable
<1>6. RowOk(t)'
  BY <1>1, <1>2, <1>3 DEF Start, RowOk, RowBehind, Projected, Retryable
<1> QED  BY <1>0, <1>2, <1>4, <1>5, <1>6, Stays DEF Start, Free

LEMMA SafeLoad ==
  ASSUME IInv, TypeInv', NEW t \in Slots, Load(t) PROVE IInv'
<1>0. TypeOK /\ ~Free(t) /\ Live(t) /\ RowOk(t) /\ CkInv
  BY DEF IInv, TypeInv, Load, Free
<1>1. /\ row.status = "running" /\ NoFailed
      /\ task[t].dec # "none" => Carried(t)
      /\ task[t].dec = "none" => Resumable
  BY <1>0 DEF Load, Live
<1>2. ck.at # "none" /\ Hold(t, "run", ck)
  BY <1>1 DEF Load, Carried, Resumable
<1>3. /\ Others(t) /\ task'[t].pc = "run" /\ task'[t].mem = ck
      /\ task'[t].dec = task[t].dec /\ task'[t].stage = task[t].stage
  BY <1>0, <1>2, HoldStep DEF Pcs, Others, TypeOK
<1>4. UNCHANGED <<row, ck, frames, registered>> /\ CkInv'
  BY <1>0, CkInvStays DEF Load
<1>5. Live(t)'
  BY <1>1, <1>3, <1>4 DEF Live, Deciding, NoFailed, Resumable, Carried, Approved
<1>6. RowOk(t)'
  BY <1>0, <1>3, <1>4 DEF Load, RowOk, RowBehind, Projected
<1> QED  BY <1>0, <1>3, <1>4, <1>5, <1>6, Stays DEF Free

\* What a task about to take a step of the graph knows.
LEMMA RunFacts ==
  ASSUME IInv, NEW t \in Slots, task[t].pc = "run"
  PROVE  /\ TypeOK /\ ~Free(t) /\ Live(t) /\ CkInv /\ RowBehind /\ Projected
         /\ row.status = "running" /\ NoFailed /\ task[t].mem = ck
         /\ task[t].dec # "none" => Carried(t)
         /\ task[t].dec = "none" => Resumable
         /\ ck \in Checkpoint /\ ck.pos \in Stages
         /\ ck.gates \in GateMap /\ ck.out \in OutMap /\ ck.err \in BOOLEAN
<1>1. TypeOK /\ ~Free(t) /\ Live(t) /\ RowOk(t) /\ CkInv
  BY DEF IInv, TypeInv, Free
<1> QED  BY <1>1, FieldTypes DEF Live, RowOk, TypeOK

LEMMA StageOkWrites ==
  ASSUME IInv, NEW t \in Slots, StageOk(t)
  PROVE  /\ ck.at = "stage" /\ ck.pos \in Stages /\ task[t].dec = "none"
         /\ ck'.at = "gate" /\ ck'.pos = ck.pos /\ ck'.err = FALSE /\ ck'.gates = ck.gates
         /\ \A x \in Stages : ck'.out[x] <=> x = ck.pos \/ (x < ck.pos /\ ck.out[x])
         /\ Others(t)
         /\ task'[t].pc = "entered" /\ task'[t].stage = ck.pos
         /\ task'[t].dec = "none" /\ task'[t].mem = ck'
<1>0. /\ TypeOK /\ CkInv /\ task[t].mem = ck /\ ck.at = "stage" /\ task[t].dec = "none"
      /\ ck \in Checkpoint /\ ck.pos \in Stages /\ ck.out \in OutMap
  BY RunFacts DEF StageOk, Running, Carried
<1> DEFINE new == Succeeded(ck)
<1>1. /\ new \in Checkpoint /\ new.at = "gate" /\ new.pos = ck.pos
      /\ new.err = FALSE /\ new.gates = ck.gates /\ new.out = Produce(ck.pos, ck.out)
  BY <1>0, SucceededFacts
<1>2. Commit(t, new, "entered")
  BY <1>0 DEF StageOk
<1> HIDE DEF new
<1>3. /\ ck' = new /\ Others(t)
      /\ task'[t].pc = "entered" /\ task'[t].stage = ck.pos
      /\ task'[t].dec = "none" /\ task'[t].mem = new
  BY <1>0, <1>1, <1>2, CommitStep DEF Pcs, Others
<1>4. \A x \in Stages : ck'.out[x] <=> x = ck.pos \/ (x < ck.pos /\ ck.out[x])
  <2>1. \A x \in Stages : x # ck.pos => x < ck.pos \/ x > ck.pos
    BY <1>0 DEF Stages
  <2>2. \A x \in Stages : x > ck.pos => ~ck.out[x]
    BY <1>0 DEF CkInv, CkOrdered
  <2>3. \A x \in Stages : ~(x < Scenario)
    BY DEF Stages, Scenario
  <2> QED  BY <1>0, <1>1, <1>3, <2>1, <2>2, <2>3 DEF Produce
<1> QED  BY <1>0, <1>1, <1>3, <1>4

LEMMA SafeStageOk ==
  ASSUME IInv, TypeInv', NEW t \in Slots, StageOk(t) PROVE IInv'
<1>0. /\ TypeOK /\ ~Free(t) /\ CkInv /\ RowBehind /\ Projected
      /\ row.status = "running" /\ NoFailed
  BY RunFacts DEF StageOk, Running
<1>1. /\ ck.at = "stage" /\ ck.pos \in Stages
      /\ ck'.at = "gate" /\ ck'.pos = ck.pos /\ ck'.err = FALSE /\ ck'.gates = ck.gates
      /\ \A x \in Stages : ck'.out[x] <=> x = ck.pos \/ (x < ck.pos /\ ck.out[x])
      /\ Others(t)
      /\ task'[t].pc = "entered" /\ task'[t].stage = ck.pos
      /\ task'[t].dec = "none" /\ task'[t].mem = ck'
  BY StageOkWrites
<1>2. task[t].mem.pos = ck.pos
  BY RunFacts DEF StageOk, Running
<1>5. /\ ck.pos = Scenario => frames' = FALSE
      /\ ck.pos = Image => frames'
  BY <1>2 DEF StageOk, Scenario, Image
<1>6. CkInv'
  <2>1. \A x \in Stages : x > ck.pos => x # ck.pos /\ ~(x < ck.pos)
    BY <1>1 DEF Stages
  <2> QED  BY <1>0, <1>1, <1>5, <2>1 DEF CkInv, CkOrdered, CkNext, FilesFresh
<1>7. Live(t)'
  BY <1>0, <1>1, <1>5 DEF StageOk, Live, Deciding, AtReview, NoFailed
<1>8. RowOk(t)'
  BY <1>0, <1>1 DEF StageOk, RowOk, RowBehind, Projected
<1> QED  BY <1>0, <1>1, <1>6, <1>7, <1>8, Stays DEF StageOk, Free

LEMMA StageErrorWrites ==
  ASSUME IInv, NEW t \in Slots, StageError(t)
  PROVE  /\ ck.at = "stage" /\ ck.pos \in Stages /\ task[t].dec = "none"
         /\ ck'.at = "end" /\ ck'.pos = ck.pos /\ ck'.err = TRUE
         /\ ck'.gates = ck.gates /\ ck'.out = ck.out
         /\ Others(t)
         /\ task'[t].pc = "failed1" /\ task'[t].stage = ck.pos /\ task'[t].dec = "none"
         /\ UNCHANGED <<row, frames, registered>>
<1>0. /\ TypeOK /\ task[t].mem = ck /\ ck.at = "stage" /\ task[t].dec = "none"
      /\ ck \in Checkpoint /\ ck.pos \in Stages
  BY RunFacts DEF StageError, Running, Carried
<1> DEFINE new == Failed(ck)
<1>1. /\ new \in Checkpoint /\ new.at = "end" /\ new.pos = ck.pos
      /\ new.err = TRUE /\ new.gates = ck.gates /\ new.out = ck.out
  BY <1>0, FailedFacts
<1>2. Commit(t, new, "failed1") /\ UNCHANGED <<row, frames, registered>>
  BY <1>0 DEF StageError
<1> HIDE DEF new
<1>3. /\ ck' = new /\ Others(t)
      /\ task'[t].pc = "failed1" /\ task'[t].stage = ck.pos /\ task'[t].dec = "none"
  BY <1>0, <1>1, <1>2, CommitStep DEF Pcs, Others
<1> QED  BY <1>0, <1>1, <1>2, <1>3

LEMMA SafeStageError ==
  ASSUME IInv, TypeInv', NEW t \in Slots, StageError(t) PROVE IInv'
<1>0. /\ TypeOK /\ ~Free(t) /\ CkInv /\ RowBehind /\ Projected
      /\ row.status = "running" /\ NoFailed
  BY RunFacts DEF StageError, Running
<1>1. /\ ck.at = "stage" /\ ck.pos \in Stages
      /\ ck'.at = "end" /\ ck'.pos = ck.pos /\ ck'.err = TRUE
      /\ ck'.gates = ck.gates /\ ck'.out = ck.out
      /\ Others(t)
      /\ task'[t].pc = "failed1" /\ task'[t].stage = ck.pos /\ task'[t].dec = "none"
      /\ UNCHANGED <<row, frames, registered>>
  BY StageErrorWrites
<1>4. CkInv'
  BY <1>0, <1>1 DEF CkInv, CkOrdered, CkNext, FilesFresh
<1>5. Live(t)'
  BY <1>0, <1>1 DEF Live, Deciding, NoFailed
<1>6. RowOk(t)'
  BY <1>0, <1>1 DEF RowOk, RowBehind, Projected
<1> QED  BY <1>0, <1>1, <1>4, <1>5, <1>6, Stays DEF Free

LEMMA SafeStageRaise ==
  ASSUME IInv, TypeInv', NEW t \in Slots, StageRaise(t) PROVE IInv'
<1>0. /\ TypeOK /\ ~Free(t) /\ CkInv /\ RowBehind /\ Projected
      /\ row.status = "running" /\ NoFailed /\ task[t].mem = ck /\ ck.at = "stage"
      /\ ck.pos \in Stages /\ task[t].dec = "none"
  BY RunFacts DEF StageRaise, Running, Carried
<1>1. ck.pos \in 0 .. N
  BY <1>0 DEF Stages
<1>2. Others(t) /\ task'[t].pc = "raised" /\ task'[t].dec = task[t].dec
  BY <1>0, <1>1, ReportStep DEF StageRaise, Pcs, Others
<1>3. UNCHANGED <<row, ck, frames, registered>> /\ CkInv'
  BY <1>0, CkInvStays DEF StageRaise
<1>4. Live(t)' /\ RowOk(t)'
  BY <1>0, <1>2, <1>3 DEF Live, Deciding, NoFailed, RowOk, RowBehind, Projected
<1> QED  BY <1>0, <1>2, <1>3, <1>4, Stays DEF Free

LEMMA SafeGateInterrupt ==
  ASSUME IInv, TypeInv', NEW t \in Slots, GateInterrupt(t) PROVE IInv'
<1>0. /\ TypeOK /\ ~Free(t) /\ CkInv /\ RowBehind /\ Projected
      /\ row.status = "running" /\ NoFailed /\ task[t].mem = ck /\ ck.at = "gate"
      /\ ck.pos \in Stages /\ Resumable /\ task[t].dec = "none"
  BY RunFacts DEF GateInterrupt, Running
<1>1. ck.pos \in 0 .. N
  BY <1>0 DEF Stages
<1>2. /\ Others(t) /\ task'[t].pc = "await1" /\ task'[t].stage = ck.pos
      /\ task'[t].mem = ck /\ task'[t].dec = "none"
  BY <1>0, <1>1, ReportStep DEF GateInterrupt, Pcs, Others
<1>3. UNCHANGED <<row, ck, frames, registered>> /\ CkInv'
  BY <1>0, CkInvStays DEF GateInterrupt
<1>4. Live(t)'
  BY <1>0, <1>2, <1>3 DEF Live, Deciding, NoFailed, AtReview, Resumable
<1>5. RowOk(t)'
  BY <1>0, <1>2, <1>3 DEF RowOk, RowBehind, Projected
<1> QED  BY <1>0, <1>2, <1>3, <1>4, <1>5, Stays DEF Free

\* The node after a gate, case by case.
LEMMA AfterGateFacts ==
  ASSUME NEW s \in Stages, NEW d \in Decisions
  PROVE  /\ AfterGate(s, d).at \in {"stage", "end"}
         /\ d = "approved" /\ s # N =>
              AfterGate(s, d).at = "stage" /\ AfterGate(s, d).pos = s + 1
         /\ d = "approved" /\ s = N => AfterGate(s, d).at = "end" /\ AfterGate(s, d).pos = s
         /\ d = "rejected" => AfterGate(s, d).pos = s
         /\ d = "rejected" => (AfterGate(s, d).at = "end" <=> s = Scenario)
  BY DEF AfterGate, Decisions

LEMMA GateDecideWrites ==
  ASSUME IInv, NEW t \in Slots, GateDecide(t)
  PROVE  LET s == ck.pos
             d == task[t].dec
         IN
         /\ ck.at = "gate" /\ s \in Stages /\ task[t].stage = s /\ d \in Decisions
         /\ d = "approved" => ck.out[s] /\ (s = Image => frames)
         /\ d = "rejected" /\ s # Scenario => ~ck.out[s] /\ (s = Image => ~frames)
         /\ ck'.err = FALSE /\ ck'.out = ck.out /\ ck'.gates[s] = d
         /\ \A x \in Stages \ {s} : ck'.gates[x] = ck.gates[x]
         /\ d = "approved" /\ s # N => ck'.at = "stage" /\ ck'.pos = s + 1
         /\ d = "approved" /\ s = N => ck'.at = "end" /\ ck'.pos = s
         /\ d = "rejected" =>
              ck'.pos = s /\ ck'.at = (IF s = Scenario THEN "end" ELSE "stage")
         /\ Others(t) /\ task'[t].pc = "mirror" /\ task'[t].stage = s
         /\ task'[t].dec = "none" /\ task'[t].mem = ck'
         /\ UNCHANGED <<row, frames, registered>>
<1> DEFINE s == ck.pos
           d == task[t].dec
           new == Decided(ck, d)
           node == AfterGate(s, d)
<1>0. /\ TypeOK /\ CkInv /\ task[t].mem = ck /\ ck.at = "gate"
      /\ ck \in Checkpoint /\ s \in Stages /\ Carried(t) /\ ck.err = FALSE
  BY RunFacts DEF GateDecide, Running, CkInv, CkNext
<1>1. /\ d \in Decisions /\ task[t].stage = s
      /\ d = "approved" => ck.out[s] /\ (s = Image => frames)
      /\ d = "rejected" /\ s # Scenario => ~ck.out[s] /\ (s = Image => ~frames)
  BY <1>0 DEF Carried
<1>2. /\ new \in Checkpoint /\ new.at = node.at /\ new.pos = node.pos
      /\ new.err = ck.err /\ new.out = ck.out /\ new.gates[s] = d
      /\ \A x \in Stages \ {s} : new.gates[x] = ck.gates[x]
  BY <1>0, <1>1, DecidedFacts
<1>3. Commit(t, new, "mirror") /\ UNCHANGED <<row, frames, registered>>
  BY <1>0 DEF GateDecide
<1>4. /\ node.at \in {"stage", "end"}
      /\ d = "approved" /\ s # N => node.at = "stage" /\ node.pos = s + 1
      /\ d = "approved" /\ s = N => node.at = "end" /\ node.pos = s
      /\ d = "rejected" => node.pos = s /\ (node.at = "end" <=> s = Scenario)
  BY <1>0, <1>1, AfterGateFacts
<1> HIDE DEF new, node
<1>5. /\ ck' = new /\ Others(t) /\ task'[t].pc = "mirror" /\ task'[t].stage = s
      /\ task'[t].dec = "none" /\ task'[t].mem = new
  BY <1>0, <1>2, <1>3, CommitStep DEF Pcs, Others
<1> QED  BY <1>0, <1>1, <1>2, <1>3, <1>4, <1>5

LEMMA SafeGateDecide ==
  ASSUME IInv, TypeInv', NEW t \in Slots, GateDecide(t) PROVE IInv'
<1> DEFINE s == ck.pos
           d == task[t].dec
<1>0. /\ TypeOK /\ ~Free(t) /\ CkInv /\ RowBehind /\ Projected
      /\ row.status = "running" /\ NoFailed
  BY RunFacts DEF GateDecide, Running
<1>1. /\ ck.at = "gate" /\ s \in Stages /\ d \in Decisions
      /\ d = "approved" => ck.out[s] /\ (s = Image => frames)
      /\ d = "rejected" /\ s # Scenario => ~ck.out[s] /\ (s = Image => ~frames)
  BY GateDecideWrites
<1>2. /\ ck'.err = FALSE /\ ck'.out = ck.out /\ ck'.gates[s] = d
      /\ \A x \in Stages \ {s} : ck'.gates[x] = ck.gates[x]
      /\ Others(t) /\ task'[t].pc = "mirror" /\ task'[t].stage = s
      /\ task'[t].dec = "none" /\ task'[t].mem = ck'
      /\ UNCHANGED <<row, frames, registered>>
  BY GateDecideWrites
<1>4. /\ d = "approved" /\ s # N => ck'.at = "stage" /\ ck'.pos = s + 1
      /\ d = "approved" /\ s = N => ck'.at = "end" /\ ck'.pos = s
      /\ d = "rejected" =>
           ck'.pos = s /\ ck'.at = (IF s = Scenario THEN "end" ELSE "stage")
  BY GateDecideWrites
<1> HIDE DEF s, d
<1>6. /\ \A x \in Stages : x < s => ck.gates[x] = "approved" /\ ck.out[x]
      /\ \A x \in Stages : x > s => ck.gates[x] # "approved" /\ ~ck.out[x]
      /\ s = Scenario => ~frames
  BY <1>0, <1>1 DEF CkInv, CkOrdered, FilesFresh, s
<1>7. \A x \in Stages : /\ x = s \/ x < s \/ x > s
                        /\ x < s => x # s
                        /\ x > s => x # s
  BY <1>1 DEF Stages
<1>8. d = "approved" \/ d = "rejected"
  BY <1>1 DEF Decisions
<1>9. CASE d = "approved" /\ s # N
  <2>1. /\ ck'.at = "stage" /\ ck'.pos = s + 1 /\ s + 1 \in Stages
        /\ \A x \in Stages : /\ x < s + 1 => x = s \/ x < s
                             /\ x > s + 1 => x > s
        /\ s + 1 > s /\ s <= s + 1
    <3>1. s \in Stages /\ s # N /\ ck'.at = "stage" /\ ck'.pos = s + 1
      BY <1>1, <1>4, <1>9
    <3> QED  BY <3>1, StagesAssumption DEF Stages
  <2>2. CkOrdered'
    BY <1>1, <1>2, <1>6, <1>7, <1>9, <2>1 DEF CkOrdered
  <2>3. s + 1 = Image => s = Scenario
    BY <1>1 DEF Stages, Image, Scenario
  <2>4. CkNext' /\ FilesFresh'
    BY <1>2, <1>6, <1>7, <2>1, <2>3 DEF CkNext, FilesFresh
  <2>5. Live(t)'
    BY <1>0, <1>1, <1>2, <1>9, <2>1 DEF Live, Deciding, NoFailed, Resumable
  <2>6. RowOk(t)'
    <3>1. \A x \in Stages : x <= s => x <= s + 1
      BY <1>1 DEF Stages
    <3> QED  BY <1>0, <1>2, <2>1, <3>1 DEF RowOk, RowBehind, ProjectedBut, Projected, s
  <2> QED  BY <1>0, <1>2, <2>2, <2>4, <2>5, <2>6, Stays DEF CkInv, Free
<1>10. CASE d = "approved" /\ s = N
  <2>1. /\ ck'.at = "end" /\ ck'.pos = s /\ s <= s
        /\ \A x \in Stages : x = s \/ x < s
    BY <1>1, <1>4, <1>10 DEF Stages
  <2>2. CkOrdered'
    BY <1>1, <1>2, <1>6, <1>7, <1>10, <2>1 DEF CkOrdered
  <2>3. CkNext' /\ FilesFresh'
    BY <1>1, <1>2, <1>6, <2>1 DEF CkNext, FilesFresh
  <2>4. Approved(ck')
    BY <1>1, <1>2, <1>6, <1>7, <1>10, <2>1 DEF Approved
  <2>5. Live(t)'
    BY <1>0, <1>1, <1>2, <1>10, <2>1, <2>4
       DEF Live, Deciding, NoFailed, Resumable
  <2>6. RowOk(t)'
    BY <1>0, <1>2, <2>1 DEF RowOk, RowBehind, ProjectedBut, Projected, s
  <2> QED  BY <1>0, <1>2, <2>2, <2>3, <2>5, <2>6, Stays DEF CkInv, Free
<1>11. CASE d = "rejected"
  <2>1. /\ ck'.at = (IF s = Scenario THEN "end" ELSE "stage") /\ ck'.pos = s /\ s <= s
    BY <1>1, <1>4, <1>11 DEF Stages
  <2>2. CkOrdered'
    BY <1>1, <1>2, <1>6, <1>7, <2>1 DEF CkOrdered
  <2>3. CkNext' /\ FilesFresh'
    BY <1>1, <1>2, <1>6, <1>11, <2>1 DEF CkNext, FilesFresh
  <2>4. Live(t)'
    BY <1>0, <1>1, <1>2, <1>11, <2>1 DEF Live, Deciding, NoFailed, Resumable
  <2>5. RowOk(t)'
    BY <1>0, <1>2, <2>1 DEF RowOk, RowBehind, ProjectedBut, Projected, s
  <2> QED  BY <1>0, <1>2, <2>2, <2>3, <2>4, <2>5, Stays DEF CkInv, Free
<1> QED  BY <1>8, <1>9, <1>10, <1>11

LEMMA SafeStreamEnd ==
  ASSUME IInv, TypeInv', NEW t \in Slots, StreamEnd(t) PROVE IInv'
<1>0. /\ TypeOK /\ ~Free(t) /\ CkInv /\ RowBehind /\ Projected
      /\ row.status = "running" /\ NoFailed /\ ck.at = "end"
      /\ task[t].dec = "none" /\ Resumable
  BY RunFacts DEF StreamEnd, Running, Carried
<1>1. Approved(ck)
  BY <1>0 DEF Resumable
<1>2. Others(t) /\ task'[t].pc = "complete" /\ task'[t].dec = task[t].dec
  BY <1>0, GotoStep DEF StreamEnd, Pcs, Others
<1>3. UNCHANGED <<row, ck, frames, registered>> /\ CkInv'
  BY <1>0, CkInvStays DEF StreamEnd
<1>4. Live(t)' /\ RowOk(t)'
  BY <1>0, <1>1, <1>2, <1>3
     DEF Live, Deciding, NoFailed, Approved, RowOk, RowBehind, Projected
<1> QED  BY <1>0, <1>2, <1>3, <1>4, Stays DEF Free

LEMMA SafeWriteEntered ==
  ASSUME IInv, TypeInv', NEW t \in Slots, WriteEntered(t) PROVE IInv'
<1>0. TypeOK /\ ~Free(t) /\ Live(t) /\ RowOk(t) /\ CkInv
  BY DEF IInv, TypeInv, WriteEntered, Free
<1>1. AtReview(task[t].stage) /\ NoFailed /\ task[t].mem = ck /\ task[t].dec = "none"
  BY <1>0 DEF WriteEntered, Live, Deciding
<1>2. /\ Others(t) /\ task'[t].pc = "run" /\ task'[t].mem = ck
      /\ task'[t].dec = "none"
  BY <1>0, <1>1, GotoStep DEF WriteEntered, Pcs, Others
<1>3. row'.status = "running" /\ row'.gate = row.gate
  BY <1>0 DEF WriteEntered, TypeOK, Row
<1>4. UNCHANGED <<ck, frames, registered>> /\ CkInv'
  BY <1>0, CkInvStays DEF WriteEntered
<1>5. Live(t)'
  BY <1>1, <1>2, <1>3, <1>4 DEF Live, Deciding, NoFailed, Resumable, AtReview
<1>6. RowOk(t)'
  BY <1>0, <1>2, <1>3, <1>4 DEF WriteEntered, RowOk, RowBehind, Projected
<1> QED  BY <1>0, <1>2, <1>4, <1>5, <1>6, Stays DEF Free

LEMMA SafeWriteFailed ==
  ASSUME IInv, TypeInv', NEW t \in Slots, WriteFailed(t) PROVE IInv'
<1>0. TypeOK /\ ~Free(t) /\ Live(t) /\ RowOk(t) /\ CkInv
  BY DEF IInv, TypeInv, WriteFailed, Free
<1>1. ck.at = "end" /\ ck.err /\ ck.pos = task[t].stage /\ NoFailed
      /\ task[t].dec = "none"
  BY <1>0 DEF WriteFailed, Live, Deciding
<1>2. Others(t) /\ task'[t].pc = "failed2" /\ task'[t].stage = task[t].stage
      /\ task'[t].dec = task[t].dec
  BY <1>0, GotoStep DEF WriteFailed, Pcs, Others
<1>3. row'.status = "failed" /\ row'.gate = row.gate
  BY <1>0 DEF WriteFailed, TypeOK, Row
<1>4. UNCHANGED <<ck, frames, registered>> /\ CkInv'
  BY <1>0, CkInvStays DEF WriteFailed
<1>5. Live(t)'
  BY <1>1, <1>2, <1>3, <1>4 DEF Live, Deciding, NoFailed
<1>6. RowOk(t)'
  BY <1>0, <1>2, <1>3, <1>4 DEF WriteFailed, RowOk, RowBehind, Projected
<1> QED  BY <1>0, <1>2, <1>4, <1>5, <1>6, Stays DEF Free

LEMMA SafeMirrorFailed ==
  ASSUME IInv, TypeInv', NEW t \in Slots, MirrorFailed(t) PROVE IInv'
<1>0. TypeOK /\ ~Free(t) /\ Live(t) /\ RowOk(t) /\ CkInv /\ StagesNamed
  BY DEF IInv, TypeInv, MirrorFailed, Free
<1> DEFINE s == task[t].stage
<1>1. /\ ck.at = "end" /\ ck.err /\ ck.pos = s /\ NoFailed /\ row.status = "failed"
      /\ s \in Stages
  BY <1>0 DEF MirrorFailed, Live, StagesNamed, NamesAStage
<1>2. /\ row'.status = "failed"
      /\ row'.gate[s] = "failed" /\ \A x \in Stages \ {s} : row'.gate[x] = row.gate[x]
  BY <1>0, <1>1 DEF MirrorFailed, TypeOK, Row
<1>3. UNCHANGED <<ck, frames>> /\ CkInv' /\ Finish(t)
  BY <1>0, CkInvStays DEF MirrorFailed
<1> HIDE DEF s
<1>4. Settled'
  BY <1>1, <1>2, <1>3 DEF Settled, Failure, NoFailed
<1>5. RowBehind' /\ Projected'
  <2>1. RowBehind /\ Projected /\ ck.gates[s] # "approved" /\ s <= s
    BY <1>0, <1>1 DEF MirrorFailed, RowOk, CkInv, CkNext, Stages
  <2> QED  BY <1>1, <1>2, <1>3, <2>1 DEF RowBehind, Projected
<1> QED  BY <1>0, <1>3, <1>4, <1>5, Ends

LEMMA SafeWriteAwaiting ==
  ASSUME IInv, TypeInv', NEW t \in Slots, WriteAwaiting(t) PROVE IInv'
<1>0. TypeOK /\ ~Free(t) /\ Live(t) /\ RowOk(t) /\ CkInv
  BY DEF IInv, TypeInv, WriteAwaiting, Free
<1>1. AtReview(task[t].stage) /\ NoFailed /\ task[t].mem = ck
      /\ task[t].dec = "none"
  BY <1>0 DEF WriteAwaiting, Live, Deciding
<1>2. /\ Others(t) /\ task'[t].pc = "await2" /\ task'[t].mem = ck
      /\ task'[t].stage = task[t].stage /\ task'[t].dec = task[t].dec
  BY <1>0, <1>1, GotoStep DEF WriteAwaiting, Pcs, Others
<1>3. /\ row'.status = "awaiting_approval" /\ row'.gate = row.gate
      /\ row'.current = task[t].stage
  BY <1>0 DEF WriteAwaiting, TypeOK, Row
<1>4. UNCHANGED <<ck, frames, registered>> /\ CkInv'
  BY <1>0, CkInvStays DEF WriteAwaiting
<1>5. Live(t)'
  BY <1>1, <1>2, <1>3, <1>4 DEF Live, Deciding, NoFailed, AtReview
<1>6. RowOk(t)'
  BY <1>0, <1>2, <1>3, <1>4 DEF WriteAwaiting, RowOk, RowBehind, Projected
<1> QED  BY <1>0, <1>2, <1>4, <1>5, <1>6, Stays DEF Free

LEMMA SafeMirrorPending ==
  ASSUME IInv, TypeInv', NEW t \in Slots, MirrorPending(t) PROVE IInv'
<1>0. TypeOK /\ ~Free(t) /\ Live(t) /\ RowOk(t) /\ CkInv /\ StagesNamed
  BY DEF IInv, TypeInv, MirrorPending, Free
<1> DEFINE s == task[t].stage
<1>1. /\ AtReview(s) /\ NoFailed /\ row.status = "awaiting_approval" /\ row.current = s
      /\ s \in Stages
  BY <1>0 DEF MirrorPending, Live, StagesNamed, NamesAStage
<1>2. /\ row'.status = "awaiting_approval" /\ row'.current = s
      /\ row'.gate[s] = "pending" /\ \A x \in Stages \ {s} : row'.gate[x] = row.gate[x]
  BY <1>0, <1>1 DEF MirrorPending, TypeOK, Row
<1>3. UNCHANGED <<ck, frames>> /\ CkInv' /\ Finish(t)
  BY <1>0, CkInvStays DEF MirrorPending
<1> HIDE DEF s
<1>4. Settled'
  BY <1>1, <1>2, <1>3 DEF Settled, NoFailed, AtReview
<1>5. RowBehind' /\ Projected'
  <2>1. RowBehind /\ Projected /\ ck.gates[s] # "approved"
    BY <1>0, <1>1 DEF MirrorPending, RowOk, CkInv, CkNext, AtReview
  <2> QED  BY <1>1, <1>2, <1>3, <2>1 DEF RowBehind, Projected, Retryable
<1> QED  BY <1>0, <1>3, <1>4, <1>5, Ends

LEMMA SafeMirrorDecision ==
  ASSUME IInv, TypeInv', NEW t \in Slots, MirrorDecision(t) PROVE IInv'
<1>0. TypeOK /\ ~Free(t) /\ Live(t) /\ RowOk(t) /\ CkInv /\ StagesNamed
  BY DEF IInv, TypeInv, MirrorDecision, Free
<1> DEFINE s == task[t].stage
           d == ck.gates[s]
           pc == IF d = "rejected" /\ s = Scenario THEN "reject1" ELSE "run"
<1>1. /\ task[t].mem = ck /\ task[t].dec = "none" /\ row.status = "running" /\ NoFailed
      /\ d \in Decisions /\ s <= ck.pos /\ s \in Stages
      /\ IF d = "rejected" /\ s = Scenario
         THEN ck.at = "end" /\ ck.pos = Scenario
         ELSE ck.at \in {"stage", "end"} /\ Resumable
  BY <1>0 DEF MirrorDecision, Live, Deciding, StagesNamed, NamesAStage
<1>2. Goto(t, pc) /\ pc \in Pcs
  BY <1>1 DEF MirrorDecision, Pcs
<1>3. /\ row'.status = "running"
      /\ row'.gate[s] = d /\ \A x \in Stages \ {s} : row'.gate[x] = row.gate[x]
  BY <1>0, <1>1 DEF MirrorDecision, TypeOK, Row
<1>4. UNCHANGED <<ck, frames, registered>> /\ CkInv'
  BY <1>0, CkInvStays DEF MirrorDecision
<1> HIDE DEF pc
<1>5. /\ Others(t) /\ task'[t].pc = pc /\ task'[t].mem = ck
      /\ task'[t].dec = "none" /\ task'[t].stage = s
  BY <1>0, <1>1, <1>2, GotoStep DEF Others
<1> HIDE DEF s, d
<1>6. RowBehind' /\ Projected'
  <2>1. RowBehind /\ ProjectedBut(s)
    BY <1>0 DEF MirrorDecision, RowOk, s
  <2>2. ck.at # "none"
    BY <1>1
  <2> QED  BY <1>1, <1>3, <1>4, <2>1, <2>2 DEF RowBehind, ProjectedBut, Projected, d
<1>7. \A x \in Stages : row'.gate[x] # "failed"
  BY <1>1, <1>3 DEF NoFailed, Decisions
<1>8. pc = (IF d = "rejected" /\ s = Scenario THEN "reject1" ELSE "run")
  BY DEF pc
<1>9. Live(t)'
  BY <1>1, <1>3, <1>4, <1>5, <1>7, <1>8 DEF Live, Deciding, NoFailed, Resumable, Approved
<1>10. RowOk(t)'
  BY <1>5, <1>6, <1>8 DEF RowOk
<1> QED  BY <1>0, <1>4, <1>5, <1>8, <1>9, <1>10, Stays DEF Free

LEMMA SafeWriteRejected ==
  ASSUME IInv, TypeInv', NEW t \in Slots, WriteRejected(t) PROVE IInv'
<1>0. TypeOK /\ ~Free(t) /\ Live(t) /\ RowOk(t) /\ CkInv
  BY DEF IInv, TypeInv, WriteRejected, Free
<1>1. ck.at = "end" /\ ck.pos = Scenario /\ row.gate[Scenario] = "rejected" /\ NoFailed
  BY <1>0 DEF WriteRejected, Live
<1>2. row'.status = "failed" /\ row'.gate = row.gate
  BY <1>0 DEF WriteRejected, TypeOK, Row
<1>3. UNCHANGED <<ck, frames>> /\ CkInv' /\ Finish(t)
  BY <1>0, CkInvStays DEF WriteRejected
<1>4. Settled'
  BY <1>1, <1>2, <1>3 DEF Settled, Failure, NoFailed
<1>5. RowBehind' /\ Projected'
  BY <1>0, <1>2, <1>3 DEF WriteRejected, RowOk, RowBehind, Projected
<1> QED  BY <1>0, <1>3, <1>4, <1>5, Ends

LEMMA SafeWriteComplete ==
  ASSUME IInv, TypeInv', NEW t \in Slots, WriteComplete(t) PROVE IInv'
<1>0. TypeOK /\ ~Free(t) /\ Live(t) /\ RowOk(t) /\ CkInv
  BY DEF IInv, TypeInv, WriteComplete, Free
<1>1. Approved(ck) /\ ck.at = "end" /\ NoFailed
  BY <1>0 DEF WriteComplete, Live
<1>2. row'.status = "complete" /\ row'.gate = row.gate
  BY <1>0 DEF WriteComplete, TypeOK, Row
<1>3. UNCHANGED <<ck, frames>> /\ CkInv' /\ Finish(t)
  BY <1>0, CkInvStays DEF WriteComplete
<1>4. Settled'
  BY <1>1, <1>2, <1>3 DEF Settled, Approved, NoFailed
<1>5. RowBehind' /\ Projected'
  BY <1>0, <1>2, <1>3 DEF WriteComplete, RowOk, RowBehind, Projected
<1> QED  BY <1>0, <1>3, <1>4, <1>5, Ends

LEMMA SafeWriteRaised ==
  ASSUME IInv, TypeInv', NEW t \in Slots, WriteRaised(t) PROVE IInv'
<1>0. TypeOK /\ ~Free(t) /\ Live(t) /\ RowOk(t) /\ CkInv
  BY DEF IInv, TypeInv, WriteRaised, Free
<1>1. ck.at = "stage" /\ NoFailed
  BY <1>0 DEF WriteRaised, Live
<1>2. row'.status = "failed" /\ row'.gate = row.gate
  BY <1>0 DEF WriteRaised, TypeOK, Row
<1>3. UNCHANGED <<ck, frames>> /\ CkInv' /\ Finish(t)
  BY <1>0, CkInvStays DEF WriteRaised
<1>4. Settled'
  BY <1>1, <1>2, <1>3 DEF Settled, Failure, NoFailed
<1>5. RowBehind' /\ Projected'
  BY <1>0, <1>2, <1>3 DEF WriteRaised, RowOk, RowBehind, Projected
<1> QED  BY <1>0, <1>3, <1>4, <1>5, Ends

-----------------------------------------------------------------------------
(* The requests, of an operator who keeps the habits. *)

\* What a request that is accepted finds, and the task it leaves.
LEMMA Requested ==
  ASSUME Assumed, IInv, NEW t \in Slots, Ready(t),
         NEW pc \in Pcs \ {"idle"}, NEW s \in 0 .. N, NEW d \in Decisions \cup {"none"},
         NEW g \in RowGates, Become(t, Fresh(pc, s, d, g))
  PROVE  /\ Quiet /\ TypeOK /\ CkInv /\ Settled /\ RowBehind /\ Projected
         /\ Others(t) /\ ~Free(t)'
         /\ task'[t].pc = pc /\ task'[t].stage = s /\ task'[t].dec = d
         /\ task'[t].gates = g
<1>1. Quiet
  BY DEF Assumed, Habits, Ready
<1>2. TypeOK /\ CkInv /\ Settled /\ RowBehind /\ Projected
  BY <1>1 DEF IInv, TypeInv
<1> DEFINE y == Fresh(pc, s, d, g)
<1>3. /\ y \in Task /\ y.pc = pc /\ y.stage = s /\ y.dec = d /\ y.gates = g
  BY FreshType
<1>4. Become(t, y)
  OBVIOUS
<1> HIDE DEF y
<1>5. task'[t] = y /\ Others(t)
  BY <1>2, <1>3, <1>4, BecomeStep DEF Others
<1> QED  BY <1>1, <1>2, <1>3, <1>5 DEF Free

LEMMA NoGatesType == NoGates \in RowGates /\ 0 \in 0 .. N /\ \A s \in Stages : s \in 0 .. N
  BY InitialTypes, StagesAssumption DEF Stages

LEMMA SafePostGate ==
  ASSUME Assumed, IInv, TypeInv', NEW t \in Slots, NEW s \in Stages, NEW d \in Decisions,
         PostGate(t, s, d)
  PROVE  IInv'
<1>1. /\ Ready(t) /\ s = row.current /\ GateOpen(s)
      /\ Become(t, Fresh("g_running", s, d, NoGates))
      /\ UNCHANGED <<row, ck, frames, registered>>
  BY DEF PostGate, Assumed, Habits
<1>2. /\ Quiet /\ TypeOK /\ CkInv /\ Settled /\ RowBehind /\ Projected
      /\ Others(t) /\ ~Free(t)'
      /\ task'[t].pc = "g_running" /\ task'[t].stage = s /\ task'[t].dec = d
  <2>1. "g_running" \in Pcs \ {"idle"}
    BY DEF Pcs
  <2> QED  BY ONLY Assumed, IInv, t \in Slots, s \in Stages, d \in Decisions,
              <1>1, <2>1, NoGatesType, Requested
<1>3. CkInv'
  BY <1>1, <1>2, CkInvStays
<1>4. AtReview(s) /\ NoFailed /\ row.gate[s] = "pending" /\ row.status = "awaiting_approval"
  BY <1>1, <1>2 DEF GateOpen, Settled
<1>5. Settled'
  BY <1>1, <1>2, <1>4 DEF Settled, AtReview, NoFailed
<1>6. Live(t)'
  BY <1>1, <1>2, <1>4, <1>5 DEF Live, Deciding, Reviewing, AtReview, NoFailed
<1>7. RowOk(t)'
  BY <1>1, <1>2 DEF RowOk, RowBehind, Projected
<1> QED  BY <1>1, <1>2, <1>3, <1>6, <1>7, Begins

LEMMA SettledStays == Settled /\ UNCHANGED <<row, ck, frames>> => Settled'
  BY DEF Settled, AtReview, NoFailed, Approved, Failure, Resumable

LEMMA SafePostResumeReplay ==
  ASSUME Assumed, IInv, TypeInv', NEW t \in Slots, PostResumeReplay(t)
  PROVE  IInv'
<1>1. /\ Ready(t) /\ row.gate[Scenario] # "rejected" /\ FailedStages(row.gate) = {}
      /\ row.status \in {"failed", "running"}
      /\ Become(t, Fresh("f_running", 0, "none", NoGates))
      /\ registered' = t
      /\ UNCHANGED <<row, ck, frames>>
  BY DEF PostResumeReplay, ResumeAccepted, CanResume, Assumed, Habits
<1>2. /\ Quiet /\ TypeOK /\ CkInv /\ Settled /\ RowBehind /\ Projected
      /\ Others(t) /\ ~Free(t)'
      /\ task'[t].pc = "f_running" /\ task'[t].dec = "none"
  <2>1. "f_running" \in Pcs \ {"idle"}
    BY DEF Pcs
  <2> QED  BY ONLY Assumed, IInv, t \in Slots, <1>1, <2>1, NoGatesType, Requested
<1>3. CkInv' /\ Settled'
  BY <1>1, <1>2, CkInvStays, SettledStays
<1>4. NoFailed
  BY <1>1 DEF FailedStages, NoFailed
<1>5. Resumable
  <2>1. CASE row.status = "running"
    BY <1>2, <2>1 DEF Settled
  <2>2. CASE row.status = "failed"
    <3>1. Failure /\ ck.pos \in Stages
      BY <1>2, <2>2, FieldTypes DEF Settled, TypeOK, Checkpoint
    <3> QED  BY <1>1, <1>4, <3>1 DEF Failure, NoFailed, Resumable
  <2> QED  BY <1>1, <2>1, <2>2
<1>6. Live(t)'
  BY <1>1, <1>2, <1>3, <1>4, <1>5 DEF Live, Deciding, NoFailed, Resumable, Approved
<1>7. RowOk(t)'
  BY <1>1, <1>2 DEF RowOk, RowBehind, Projected
<1> QED  BY <1>1, <1>2, <1>3, <1>6, <1>7, Begins

\* A task that is to retry a stage, on a row the request left as it was.
LEMMA SafeRetryRequest ==
  ASSUME Assumed, IInv, TypeInv', NEW t \in Slots, NEW s \in Stages, Ready(t),
         row.gate[s] \in Retryable, row.status \in Mutable,
         Become(t, Fresh("t_read", s, "none", row.gate)),
         UNCHANGED <<row, ck, frames, registered>>
  PROVE  IInv'
<1>2. /\ Quiet /\ TypeOK /\ CkInv /\ Settled /\ RowBehind /\ Projected
      /\ Others(t) /\ ~Free(t)'
      /\ task'[t].pc = "t_read" /\ task'[t].stage = s /\ task'[t].dec = "none"
      /\ task'[t].gates = row.gate
  <2>1. "t_read" \in Pcs \ {"idle"} /\ row.gate \in RowGates
    BY FieldTypes DEF Pcs, IInv, TypeInv, TypeOK, Row, RowGates
  <2> QED  BY <2>1, NoGatesType, Requested
<1>3. CkInv' /\ Settled'
  BY <1>2, CkInvStays, SettledStays
<1>4. Live(t)'
  BY <1>2, <1>3 DEF Live, Deciding, Retrying
<1>5. RowOk(t)'
  BY <1>2 DEF RowOk, RowBehind, Projected
<1> QED  BY <1>2, <1>3, <1>4, <1>5, Begins

LEMMA SafePostResumeFailed ==
  ASSUME Assumed, IInv, TypeInv', NEW t \in Slots, NEW s \in Stages, PostResumeFailed(t, s)
  PROVE  IInv'
<1>1. /\ Ready(t) /\ row.gate[s] = "failed" /\ row.status \in {"failed", "running"}
      /\ row' = [row EXCEPT !.status = "failed"]
      /\ Become(t, Fresh("t_read", s, "none", row.gate))
      /\ UNCHANGED <<ck, frames, registered>>
  BY DEF PostResumeFailed, ResumeAccepted, CanResume, IsFirstFailed, FailedStages
<1>2. Quiet /\ Settled /\ TypeOK
  BY <1>1 DEF Assumed, Habits, Ready, IInv, TypeInv
<1>3. row.status = "failed"
  BY <1>1, <1>2 DEF Settled, NoFailed
<1>4. row' = row
  BY <1>1, <1>2, <1>3 DEF TypeOK, Row
<1> QED  BY <1>1, <1>3, <1>4, SafeRetryRequest DEF Retryable, Mutable

LEMMA SafePatchArtifact ==
  ASSUME Assumed, IInv, TypeInv', NEW t \in Slots, NEW s \in Stages, PatchArtifact(t, s)
  PROVE  IInv'
<1>1. /\ Ready(t) /\ s = row.current /\ row.status = "awaiting_approval"
      /\ Become(t, Fresh("e_read", s, "none", NoGates))
      /\ UNCHANGED <<row, ck, frames, registered>>
  BY DEF PatchArtifact, Assumed, Habits
<1>2. /\ Quiet /\ TypeOK /\ CkInv /\ Settled /\ RowBehind /\ Projected
      /\ Others(t) /\ ~Free(t)' /\ task'[t].pc = "e_read" /\ task'[t].stage = s
      /\ task'[t].dec = "none"
  <2>1. "e_read" \in Pcs \ {"idle"}
    BY DEF Pcs
  <2> QED  BY ONLY Assumed, IInv, t \in Slots, s \in Stages, <1>1, <2>1, NoGatesType, Requested
<1>3. CkInv' /\ Settled'
  BY <1>1, <1>2, CkInvStays, SettledStays
<1>4. Live(t)'
  BY <1>1, <1>2, <1>3 DEF Live, Deciding
<1>5. RowOk(t)'
  BY <1>1, <1>2 DEF RowOk, RowBehind, Projected
<1> QED  BY <1>1, <1>2, <1>3, <1>4, <1>5, Begins

LEMMA SafeRestart ==
  ASSUME Assumed, IInv, TypeInv', NEW t \in Slots, Restart(t)
  PROVE  IInv'
<1>1. /\ Ready(t) /\ Become(t, Fresh("x_delete", 0, "none", NoGates))
      /\ UNCHANGED <<row, ck, frames, registered>>
  BY DEF Restart
<1>2. /\ Quiet /\ TypeOK /\ CkInv /\ Settled /\ RowBehind /\ Projected
      /\ Others(t) /\ ~Free(t)' /\ task'[t].pc = "x_delete" /\ task'[t].dec = "none"
  <2>1. "x_delete" \in Pcs \ {"idle"}
    BY DEF Pcs
  <2> QED  BY ONLY Assumed, IInv, t \in Slots, <1>1, <2>1, NoGatesType, Requested
<1>3. CkInv' /\ Settled'
  BY <1>1, <1>2, CkInvStays, SettledStays
<1>4. Live(t)'
  BY <1>2, <1>3 DEF Live, Deciding
<1>5. RowOk(t)'
  BY <1>1, <1>2 DEF RowOk, RowBehind, Projected
<1> QED  BY <1>1, <1>2, <1>3, <1>4, <1>5, Begins

-----------------------------------------------------------------------------
\* A death of the process at one of the other steps leaves a run that nothing
\* drives as a settled one looks: to be resumed, or as the operator left it.
LEMMA SafeCrash ==
  ASSUME Assumed, IInv, TypeInv', Crash
  PROVE  IInv'
<1>0. PICK t \in Slots : ~Free(t)
  BY DEF Crash, Quiet
<1>1. <<task[t].pc, task[t].dec>> \notin Losing
  BY <1>0 DEF Crash, Assumed
<1>2. TypeOK /\ Live(t) /\ RowOk(t) /\ CkInv
  BY <1>0 DEF IInv, TypeInv
<1>3. task[t].pc \in Pcs /\ task[t].dec \in Decisions \cup {"none"}
  BY <1>2 DEF TypeOK, Task
<1>4. /\ task[t].pc \notin LosingPcs \cup {"idle"}
      /\ task[t].pc \in {"load", "run"} => task[t].dec # "rejected"
  BY <1>0, <1>1, <1>3 DEF Losing, Free
<1>5. RowBehind /\ Projected
  BY <1>2, <1>4 DEF RowOk, LosingPcs
<1>6. Settled \/ (row.status = "running" /\ NoFailed /\ Resumable)
  <2>1. CASE task[t].pc \in {"g_running", "f_running", "t_read", "t_update", "e_read",
                             "e_update", "x_delete"}
    BY <1>2, <2>1 DEF Live, Retrying
  <2>2. CASE task[t].pc \in {"g_provision", "g_read", "entered", "await1"}
    BY <1>2, <2>2 DEF Live, Reviewing, AtReview, Resumable
  <2>3. CASE task[t].pc \in {"load", "run"}
    BY <1>2, <1>3, <1>4, <2>3 DEF Live, Carried, Resumable, Decisions
  <2>4. CASE task[t].pc \in {"complete", "raised"}
    BY <1>2, <2>4 DEF Live, Resumable
  <2> QED  BY <1>3, <1>4, <2>1, <2>2, <2>3, <2>4 DEF Pcs, LosingPcs
<1>7. Settled
  BY <1>6 DEF Settled
<1>8. UNCHANGED <<row, ck, frames>> /\ registered' = NoTask
  BY DEF Crash
<1>9. \A u \in Slots : Free(u)'
  BY IdleType DEF Crash, Free
<1>10. Settled' /\ CkInv' /\ RowBehind' /\ Projected'
  BY <1>2, <1>5, <1>7, <1>8, SettledStays, CkInvStays DEF RowBehind, Projected
<1>11. Single' /\ Registration' /\ Rest'
  BY <1>8, <1>9, IdleType DEF Single, Registration, Rest, Crash
<1> QED  BY <1>9, <1>10, <1>11 DEF IInv

LEMMA SafeInit == Init => IInv
<1> SUFFICES ASSUME Init PROVE IInv
  OBVIOUS
<1>1. TypeInv
  BY TypeInit
<1>2. PICK t \in Slots :
        /\ task = [u \in Slots |-> IF u = t THEN Fresh("provision", 0, "none", NoGates) ELSE Idle]
        /\ registered = t
  BY DEF Init
<1>3. /\ Fresh("provision", 0, "none", NoGates).pc = "provision"
      /\ Fresh("provision", 0, "none", NoGates).dec = "none"
  <2>1. "provision" \in Pcs
    BY DEF Pcs
  <2> QED  BY <2>1, NoGatesType, FreshType
<1>4. /\ task[t].pc = "provision" /\ task[t].dec = "none"
      /\ \A u \in Slots : u # t <=> Free(u)
  BY <1>2, <1>3, IdleType DEF Free
<1>5. Single /\ Registration /\ Rest /\ ~Quiet
  BY <1>2, <1>4, IdleType DEF Single, Registration, Rest, Quiet
<1>6. /\ ck.at = "none" /\ ck.pos = Scenario /\ \A x \in Stages : ck.gates[x] = "none"
      /\ row.status = "running" /\ \A x \in Stages : row.gate[x] = "none"
  BY DEF Init, NoCheckpoint
<1>7. CkInv
  BY <1>6 DEF CkInv, CkOrdered, CkNext, FilesFresh
<1>8. Live(t) /\ RowOk(t)
  BY <1>4, <1>6 DEF Live, Deciding, RowOk, RowBehind, Projected, Retryable
<1> QED  BY <1>1, <1>4, <1>5, <1>7, <1>8 DEF IInv

LEMMA SafeStutter == IInv /\ UNCHANGED vars => IInv'
<1> SUFFICES ASSUME IInv, UNCHANGED vars PROVE IInv'
  OBVIOUS
<1>1. TypeInv' /\ Single' /\ Registration' /\ Rest' /\ CkInv'
  BY CkInvStays DEF IInv, vars, TypeInv, TypeOK, StagesNamed, Single, Registration, Rest, Free
<1>2. Quiet' => Settled' /\ RowBehind' /\ Projected'
  BY SettledStays DEF IInv, vars, Quiet, Free, RowBehind, Projected
<1>3. ASSUME NEW t \in Slots, ~Free(t)' PROVE Live(t)' /\ RowOk(t)'
  <2>1. Live(t) /\ RowOk(t)
    BY <1>3 DEF IInv, vars, Free
  <2>2. Live(t)'
    BY <2>1, SettledStays
       DEF vars, Live, Reviewing, Carried, Retrying, Resumable, NoFailed, AtReview, Approved
  <2>3. RowOk(t)'
    BY <2>1 DEF vars, RowOk, RowBehind, Projected, ProjectedBut
  <2> QED  BY <2>2, <2>3
<1> QED  BY <1>1, <1>2, <1>3 DEF IInv

LEMMA SafeStep ==
  ASSUME Assumed, IInv, [Next]_vars
  PROVE  IInv'
<1>1. TypeInv'
  BY TypeStep DEF IInv
<1>2. CASE Crash
  BY <1>1, <1>2, SafeCrash
<1>3. ASSUME NEW t \in Slots, Handler(t) PROVE IInv'
  BY <1>1, <1>3, SafeProvision, SafeGateRunning, SafeGateProvision, SafeGateRead,
     SafeGateUpdate, SafeFailureRunning, SafeRestartDelete, SafeRestartRow, SafeRetryRead,
     SafeRetryUpdate, SafeRetryRow, SafeEditRead, SafeEditUpdate DEF Handler
<1>4. ASSUME NEW t \in Slots, Drive(t) PROVE IInv'
  BY <1>1, <1>4, SafeStart, SafeLoad, SafeStageOk, SafeStageError, SafeStageRaise,
     SafeGateInterrupt, SafeGateDecide, SafeStreamEnd, SafeWriteEntered, SafeWriteFailed,
     SafeMirrorFailed, SafeWriteAwaiting, SafeMirrorPending, SafeMirrorDecision,
     SafeWriteRejected, SafeWriteComplete, SafeWriteRaised DEF Drive
<1>5. ASSUME NEW t \in Slots, Request(t) PROVE IInv'
  <2>1. ASSUME NEW s \in Stages, PostRetry(t, s) PROVE IInv'
    BY <1>1, <2>1, SafeRetryRequest DEF PostRetry, CanRetry
  <2> QED  BY <1>1, <1>5, <2>1, SafePostGate, SafePostResumeReplay, SafePostResumeFailed,
              SafePatchArtifact, SafeRestart DEF Request
<1>6. CASE UNCHANGED vars
  BY <1>6, SafeStutter
<1> QED  BY <1>2, <1>3, <1>4, <1>5, <1>6 DEF Next, Step

-----------------------------------------------------------------------------
(* The invariants of the run. *)

LEMMA Implied ==
  ASSUME IInv
  PROVE  /\ CompleteIsApproved /\ WorkIsBehindApprovals /\ AskedIsPaused
         /\ OrphanIsResumable /\ NeverStuck /\ RowProjectsApprovals
         /\ RedoRenders /\ DecisionReachesItsGate
<1>0. TypeOK /\ CkInv /\ ck.pos \in Stages /\ ck \in Checkpoint
  BY DEF IInv, TypeInv, TypeOK, Checkpoint
<1>1. CompleteIsApproved
  BY DEF IInv, Settled, CompleteIsApproved
<1>2. WorkIsBehindApprovals
  <2>1. ck.at \in {"stage", "gate"} =>
          \A s \in Stages : /\ s < ck.pos => ck.gates[s] = "approved" /\ ck.out[s]
                            /\ s > ck.pos => ~ck.out[s]
    BY <1>0 DEF CkInv, CkOrdered
  <2> QED  BY <1>0, <2>1 DEF WorkIsBehindApprovals, Behind, CkInv, CkNext
<1>3. AskedIsPaused
  BY DEF IInv, Settled, AskedIsPaused, AtReview
<1>4. OrphanIsResumable
  BY DEF IInv, Settled, Resumable, OrphanIsResumable
<1>5. NeverStuck
  <2> SUFFICES ASSUME Quiet, row.status # "complete"
               PROVE  (\E s \in Stages : GateOpen(s)) \/ CanResume
    BY DEF NeverStuck
  <2>1. Settled /\ registered = NoTask
    BY DEF IInv, Registration, Quiet
  <2>2. row.status \in RunStatus
    BY <1>0 DEF TypeOK, Row
  <2> QED  BY <2>1, <2>2 DEF Settled, GateOpen, CanResume, RunStatus
<1>6. RowProjectsApprovals
  BY DEF IInv, Projected, RowProjectsApprovals
<1>7. ASSUME NEW t \in Slots, task[t].pc = "run"
      PROVE  /\ task[t].mem = ck
             /\ task[t].dec # "none" => ck.at = "gate" /\ ck.pos = task[t].stage
  BY <1>7, RunFacts DEF Carried
<1>8. RedoRenders
  BY <1>0, <1>7 DEF RedoRenders, Running, CkInv, FilesFresh
<1>9. DecisionReachesItsGate
  BY <1>7 DEF DecisionReachesItsGate
<1> QED  BY <1>1, <1>2, <1>3, <1>4, <1>5, <1>6, <1>8, <1>9

LEMMA AlwaysIInv == ASSUME Assumed PROVE Spec => []IInv
<1>1. IInv /\ [Next]_vars => IInv'
  BY SafeStep
<1> QED  BY <1>1, SafeInit, PTL DEF Spec

\* A run the operator is told is complete holds the approval of every stage
\* and every stage's output (_consume: "stream reached END after final
\* approval").
THEOREM CompletionSafe == ASSUME Assumed PROVE Spec => []CompleteIsApproved
  BY AlwaysIInv, Implied, PTL

\* The graph never works past a gate that is not approved, and never holds an
\* output beyond the node it runs next.
THEOREM GatesHold == ASSUME Assumed PROVE Spec => []WorkIsBehindApprovals
  BY AlwaysIInv, Implied, PTL

\* A row that asks for a decision names the gate the graph is paused at, with
\* the artifact to decide on there.
THEOREM ReviewIsReal == ASSUME Assumed PROVE Spec => []AskedIsPaused
  BY AlwaysIInv, Implied, PTL

\* A run orphaned by a restart of the process has a checkpoint that a resume
\* can go on from (the reconcile at startup, and /resume of a running row).
THEOREM OrphansResume == ASSUME Assumed PROVE Spec => []OrphanIsResumable
  BY AlwaysIInv, Implied, PTL

\* The routes always accept some request that takes an unfinished run further.
THEOREM AlwaysAWayOn == ASSUME Assumed PROVE Spec => []NeverStuck
  BY AlwaysIInv, Implied, PTL

\* The gate_states of the row show every approval the checkpoint holds.
THEOREM RowFollowsCheckpoint == ASSUME Assumed PROVE Spec => []RowProjectsApprovals
  BY AlwaysIInv, Implied, PTL

\* A redo of the image stage never finds the files of the attempt it replaces.
THEOREM RedoIsReal == ASSUME Assumed PROVE Spec => []RedoRenders
  BY AlwaysIInv, Implied, PTL

\* The decision a task carries is consumed by the gate it was made for.
THEOREM DecisionsArrive == ASSUME Assumed PROVE Spec => []DecisionReachesItsGate
  BY AlwaysIInv, Implied, PTL

-----------------------------------------------------------------------------
(* From the same invariant: what a step of run_service may do to the       *)
(* approvals and the outputs, and that every step keeps the promise of     *)
(* GatedPipeline.                                                          *)

\* A step that drops outputs and approvals from stage s on.
WithdrawsFrom(s) ==
  /\ \A x \in Stages : x < s => ck'.gates[x] = ck.gates[x] /\ (ck'.out[x] <=> ck.out[x])
  /\ \A x \in Stages : ~(x < s) => ck'.gates[x] = "pending" /\ ~ck'.out[x]

\* The steps that change the checkpoint, and what they do to it.
ChangesCheckpoint(t) ==
  \/ GateUpdate(t) /\ WithdrawsFrom(task[t].stage) /\ task[t].stage \in Stages
  \/ RetryUpdate(t) /\ WithdrawsFrom(task[t].stage) /\ task[t].stage \in Stages
  \/ RestartDelete(t) /\ ck' = NoCheckpoint
  \/ Start(t) /\ ck' = InitialState /\ ck.at = "none"
  \/ /\ StageOk(t) /\ ck.at = "stage" /\ ck.pos \in Stages /\ ck'.gates = ck.gates
     /\ \A x \in Stages : ck'.out[x] <=> x = ck.pos \/ (x < ck.pos /\ ck.out[x])
  \/ StageError(t) /\ ck'.gates = ck.gates /\ ck'.out = ck.out
  \/ /\ GateDecide(t) /\ ck.at = "gate" /\ ck'.out = ck.out
     /\ \A x \in Stages \ {ck.pos} : ck'.gates[x] = ck.gates[x]

LEMMA CheckpointSteps ==
  ASSUME IInv, [Next]_vars
  PROVE  UNCHANGED ck \/ \E t \in Slots : ChangesCheckpoint(t)
<1>1. ASSUME NEW t \in Slots, Handler(t) PROVE UNCHANGED ck \/ ChangesCheckpoint(t)
  <2>1. CASE GateUpdate(t)
    BY <2>1, GateUpdateWrites DEF ChangesCheckpoint, WithdrawsFrom
  <2>2. CASE RetryUpdate(t)
    BY <2>2, RetryUpdateWrites DEF ChangesCheckpoint, WithdrawsFrom
  <2>3. CASE RestartDelete(t)
    BY <2>3 DEF RestartDelete, ChangesCheckpoint
  <2>4. CASE GateProvision(t) \/ EditUpdate(t)
    BY <2>4, GateProvisionKeeps, EditUpdateKeeps
  <2>5. CASE \/ Provision(t) \/ GateRunning(t) \/ GateRead(t) \/ FailureRunning(t)
             \/ RestartRow(t) \/ RetryRead(t) \/ RetryRow(t) \/ EditRead(t)
    BY <2>5 DEF Provision, GateRunning, GateRead, FailureRunning, RestartRow, RetryRead,
                RetryRow, EditRead
  <2> QED  BY <1>1, <2>1, <2>2, <2>3, <2>4, <2>5 DEF Handler
<1>2. ASSUME NEW t \in Slots, Drive(t) PROVE UNCHANGED ck \/ ChangesCheckpoint(t)
  <2>1. CASE Start(t)
    <3>1. ck.at = "none"
      BY <2>1 DEF IInv, Start, Free, Live
    <3> QED  BY <2>1, <3>1 DEF Start, ChangesCheckpoint
  <2>2. CASE StageOk(t)
    BY <2>2, StageOkWrites DEF ChangesCheckpoint
  <2>3. CASE StageError(t)
    BY <2>3, StageErrorWrites DEF ChangesCheckpoint
  <2>4. CASE GateDecide(t)
    BY <2>4, GateDecideWrites DEF ChangesCheckpoint
  <2>5. CASE \/ Load(t) \/ StageRaise(t) \/ GateInterrupt(t) \/ StreamEnd(t)
             \/ WriteEntered(t) \/ WriteFailed(t) \/ MirrorFailed(t)
             \/ WriteAwaiting(t) \/ MirrorPending(t) \/ MirrorDecision(t)
             \/ WriteRejected(t) \/ WriteComplete(t) \/ WriteRaised(t)
    BY <2>5 DEF Load, StageRaise, GateInterrupt, StreamEnd, WriteEntered, WriteFailed,
                MirrorFailed, WriteAwaiting, MirrorPending, MirrorDecision, WriteRejected,
                WriteComplete, WriteRaised
  <2> QED  BY <1>2, <2>1, <2>2, <2>3, <2>4, <2>5 DEF Drive
<1>3. ASSUME NEW t \in Slots, Request(t) PROVE UNCHANGED ck
  BY <1>3 DEF Request, PostGate, PostResumeReplay, PostResumeFailed, PostRetry,
              PatchArtifact, Restart
<1>4. Crash \/ UNCHANGED vars => UNCHANGED ck
  BY DEF Crash, vars
<1> QED  BY <1>1, <1>2, <1>3, <1>4 DEF Next, Step

-----------------------------------------------------------------------------
(* The action properties. *)

LEMMA StepKeepsApprovals ==
  ASSUME IInv, [Next]_vars, NEW s \in Stages,
         ck.gates[s] = "approved", ck'.gates[s] # "approved"
  PROVE  \E t \in Slots :
           \/ task[t].pc \in {"g_update", "t_update"} /\ task[t].stage <= s
           \/ task[t].pc = "x_delete"
<1>1. PICK t \in Slots : ChangesCheckpoint(t)
  BY CheckpointSteps
<1>2. ck.at \notin {"none", "gate"} \/ (s # ck.pos /\ ck.at # "none")
  BY DEF IInv, CkInv, CkNext
<1>3. CASE GateUpdate(t) /\ WithdrawsFrom(task[t].stage) /\ task[t].stage \in Stages
  <2>1. ~(s < task[t].stage)
    BY <1>3 DEF WithdrawsFrom
  <2> QED  BY <1>3, <2>1 DEF GateUpdate, Stages
<1>4. CASE RetryUpdate(t) /\ WithdrawsFrom(task[t].stage) /\ task[t].stage \in Stages
  <2>1. ~(s < task[t].stage)
    BY <1>4 DEF WithdrawsFrom
  <2> QED  BY <1>4, <2>1 DEF RetryUpdate, Stages
<1>5. CASE RestartDelete(t)
  BY <1>5 DEF RestartDelete
<1> QED  BY <1>1, <1>2, <1>3, <1>4, <1>5 DEF ChangesCheckpoint

LEMMA StepStacksOutputs ==
  ASSUME IInv, [Next]_vars, NEW s \in Stages \ {Scenario}, ck'.out[s], ~ck.out[s]
  PROVE  ck.gates[s - 1] = "approved" /\ ck.out[s - 1]
<1>1. PICK t \in Slots : ChangesCheckpoint(t)
  BY CheckpointSteps
<1>2. ~ck'.out[s] \/ (ck'.out[s] <=> ck.out[s]) \/ (ck.at = "stage" /\ s = ck.pos)
  <2>1. CASE WithdrawsFrom(task[t].stage)
    BY <2>1 DEF WithdrawsFrom
  <2>2. CASE ck' = NoCheckpoint \/ ck' = InitialState
    BY <2>2 DEF NoCheckpoint, InitialState
  <2>3. CASE /\ ck.at = "stage" /\ ck.pos \in Stages
             /\ \A x \in Stages : ck'.out[x] <=> x = ck.pos \/ (x < ck.pos /\ ck.out[x])
    BY <2>3
  <2> QED  BY <1>1, <2>1, <2>2, <2>3 DEF ChangesCheckpoint
<1>3. ck.at = "stage" /\ s = ck.pos
  BY <1>2
<1>4. s - 1 \in Stages /\ s - 1 < s
  BY PreviousStage DEF Stages
<1> QED  BY <1>3, <1>4 DEF IInv, CkInv, CkOrdered

\* An approval is withdrawn only by a redo of that stage or an earlier one, or
\* by a full restart.
THEOREM ApprovalsStand == ASSUME Assumed PROVE Spec => ApprovalStands
<1>1. IInv /\ [Next]_vars =>
        [\A s \in Stages :
           ck.gates[s] = "approved" /\ ck'.gates[s] # "approved" =>
             \E t \in Slots :
               \/ task[t].pc \in {"g_update", "t_update"} /\ task[t].stage <= s
               \/ task[t].pc = "x_delete"]_vars
  BY StepKeepsApprovals
<1> QED  BY <1>1, AlwaysIInv, PTL DEF Spec, ApprovalStands

\* A stage leaves an output only on top of an approved stage, whose output is
\* still there.
THEOREM StagesFollowApprovals == ASSUME Assumed PROVE Spec => StageFollowsApproval
<1>1. IInv /\ [Next]_vars =>
        [\A s \in Stages \ {Scenario} :
           ck'.out[s] /\ ~ck.out[s] => ck.gates[s - 1] = "approved" /\ ck.out[s - 1]]_vars
  BY StepStacksOutputs
<1> QED  BY <1>1, AlwaysIInv, PTL DEF Spec, StageFollowsApproval

-----------------------------------------------------------------------------
(* The refinement.  At most one task carries a decision, so the decision   *)
(* outstanding is the one it carries.                                      *)

NoneOutstanding == [stage |-> 0, says |-> "none"]
DecisionOf(v) == [stage |-> v.stage, says |-> v.dec]

LEMMA ChosenOne == \A S, t : S = {t} => (CHOOSE u \in S : TRUE) = t
  OBVIOUS

LEMMA OutstandingNow ==
  ASSUME Single, Rest, NEW t \in Slots, \A u \in Slots \ {t} : Free(u)
  PROVE  Outstanding = IF task[t].dec = "none" THEN NoneOutstanding ELSE DecisionOf(task[t])
<1>1. Carrying = IF task[t].dec = "none" THEN {} ELSE {t}
  BY DEF Rest, Carrying
<1> QED  BY <1>1, ChosenOne DEF Outstanding, NoneOutstanding, DecisionOf

LEMMA OutstandingNext ==
  ASSUME Single', Rest', NEW t \in Slots, \A u \in Slots \ {t} : Free(u)'
  PROVE  Outstanding' =
           IF task'[t].dec = "none" THEN NoneOutstanding ELSE DecisionOf(task'[t])
<1>1. Carrying' = IF task'[t].dec = "none" THEN {} ELSE {t}
  BY DEF Rest, Carrying
<1> QED  BY <1>1, ChosenOne DEF Outstanding, NoneOutstanding, DecisionOf

\* What a step of the one live task makes of the decision it carries.
LEMMA Outstandings ==
  ASSUME IInv, IInv', NEW t \in Slots, ~Free(t) \/ Quiet, Others(t)
  PROVE  /\ Outstanding =
              IF task[t].dec = "none" THEN NoneOutstanding ELSE DecisionOf(task[t])
         /\ Outstanding' =
              IF task'[t].dec = "none" THEN NoneOutstanding ELSE DecisionOf(task'[t])
<1>1. \A u \in Slots \ {t} : Free(u) /\ Free(u)'
  BY DEF IInv, Single, Quiet, Others, Free
<1> QED  BY <1>1, OutstandingNow, OutstandingNext DEF IInv

\* A step that moves neither the graph nor the decision.
LEMMA Unnoticed ==
  ASSUME IInv, IInv', NEW t \in Slots, ~Free(t) \/ Quiet, Others(t), UNCHANGED ck,
         task'[t].dec = task[t].dec,
         task[t].dec # "none" => task'[t].stage = task[t].stage
  PROVE  UNCHANGED Pipeline!vars
<1>1. Outstanding' = Outstanding
  BY Outstandings DEF DecisionOf
<1> QED  BY <1>1 DEF Pipeline!vars, PhaseOf

\* The decision is where Live says it is: nowhere once a task finishes.
LEMMA FinishUnnoticed ==
  ASSUME IInv, IInv', NEW t \in Slots, ~Free(t), task[t].pc \notin Deciding, Finish(t),
         UNCHANGED ck
  PROVE  UNCHANGED Pipeline!vars
<1>1. TypeOK /\ task[t].dec = "none"
  BY DEF IInv, TypeInv, Live
<1>2. Others(t) /\ task'[t].dec = "none"
  BY <1>1, FinishStep, IdleType DEF Others
<1> QED  BY <1>1, <1>2, Unnoticed

LEMMA GotoUnnoticed ==
  ASSUME IInv, IInv', NEW t \in Slots, ~Free(t), NEW pc \in Pcs, Goto(t, pc), UNCHANGED ck
  PROVE  UNCHANGED Pipeline!vars
<1>1. TypeOK
  BY DEF IInv, TypeInv
<1>2. /\ Others(t) /\ task'[t].dec = task[t].dec /\ task'[t].stage = task[t].stage
  BY <1>1, GotoStep DEF Others
<1> QED  BY <1>2, Unnoticed

LEMMA HoldUnnoticed ==
  ASSUME IInv, IInv', NEW t \in Slots, ~Free(t), NEW pc \in Pcs, Hold(t, pc, ck), UNCHANGED ck
  PROVE  UNCHANGED Pipeline!vars
<1>1. TypeOK /\ ck \in Checkpoint
  BY DEF IInv, TypeInv, TypeOK
<1>2. /\ Others(t) /\ task'[t].dec = task[t].dec /\ task'[t].stage = task[t].stage
  BY <1>1, HoldStep DEF Others
<1> QED  BY <1>2, Unnoticed

LEMMA ReportUnnoticed ==
  ASSUME IInv, IInv', NEW t \in Slots, ~Free(t), NEW pc \in Pcs, NEW s \in 0 .. N,
         Report(t, pc, s), UNCHANGED ck, task[t].dec = "none"
  PROVE  UNCHANGED Pipeline!vars
<1>1. TypeOK
  BY DEF IInv, TypeInv
<1>2. Others(t) /\ task'[t].dec = task[t].dec
  BY <1>1, ReportStep DEF Others
<1> QED  BY <1>2, Unnoticed

-----------------------------------------------------------------------------
(* Every step keeps the promise. *)

Kept == [Pipeline!Next]_(Pipeline!vars)

LEMMA GateUpdateKept ==
  ASSUME IInv, IInv', NEW t \in Slots, GateUpdate(t) PROVE Kept
<1> DEFINE s == task[t].stage
<1>0. TypeOK /\ ~Free(t) /\ CkInv
  BY DEF IInv, TypeInv, GateUpdate, Free
<1>1. /\ s \in Stages /\ ck.at = "gate" /\ ck.pos = s /\ ck'.at = "gate" /\ ck'.pos = s
      /\ \A x \in Stages : x < s => ck'.gates[x] = ck.gates[x]
      /\ \A x \in Stages : ~(x < s) => ck'.gates[x] = "pending"
  BY GateUpdateWrites
<1>2. \A x \in Stages : ~(x < s) => ck.gates[x] # "approved"
  BY <1>0, <1>1 DEF CkInv, CkOrdered, CkNext, Stages
<1>3. Others(t) /\ task'[t].dec = task[t].dec /\ task'[t].stage = s
  BY <1>0, GotoStep DEF GateUpdate, Pcs, Others
<1>4. Outstanding' = Outstanding
  BY <1>0, <1>3, Outstandings DEF DecisionOf
<1> HIDE DEF s
<1>5. {x \in Stages : ck'.gates[x] = "approved"} = {x \in Stages : ck.gates[x] = "approved"}
  BY <1>1, <1>2
<1>6. PhaseOf(ck') = PhaseOf(ck)
  BY <1>1 DEF PhaseOf
<1>7. UNCHANGED Pipeline!vars
  BY <1>1, <1>4, <1>5, <1>6 DEF Pipeline!vars
<1> QED  BY <1>7 DEF Kept

LEMMA RetryUpdateKept ==
  ASSUME IInv, IInv', NEW t \in Slots, RetryUpdate(t) PROVE Kept
<1> DEFINE s == task[t].stage
<1>0. TypeOK /\ ~Free(t) /\ CkInv
  BY DEF IInv, TypeInv, RetryUpdate, Free
<1>1. /\ s \in Stages /\ task[t].dec = "none" /\ ck.at # "none" /\ s <= ck.pos
      /\ ck'.at = "stage" /\ ck'.pos = s
      /\ \A x \in Stages : x < s => ck.gates[x] = "approved"
      /\ \A x \in Stages : x < s => ck'.gates[x] = "approved"
      /\ \A x \in Stages : ~(x < s) => ck'.gates[x] = "pending"
      /\ Goto(t, "t_row")
  BY RetryUpdateWrites
<1>2. Others(t) /\ task'[t].dec = "none"
  BY <1>0, <1>1, GotoStep DEF Pcs, Others
<1>3. Outstanding = NoneOutstanding /\ Outstanding' = NoneOutstanding
  BY <1>0, <1>1, <1>2, Outstandings
<1> HIDE DEF s
<1>4. {x \in Stages : ck'.gates[x] = "approved"}
        = {x \in {y \in Stages : ck.gates[y] = "approved"} : x < s}
  BY <1>1
<1>5. PhaseOf(ck) # "new" /\ PhaseOf(ck') = "work"
  BY <1>0, <1>1 DEF PhaseOf, TypeOK, Checkpoint
<1>6. Pipeline!GoBack(s)
  BY <1>1, <1>3, <1>4, <1>5 DEF Pipeline!GoBack, Pipeline!NoDecision, NoneOutstanding
<1>7. s \in Pipeline!Stages
  BY <1>1 DEF Pipeline!Stages, Stages
<1>8. \E x \in Pipeline!Stages : Pipeline!GoBack(x)
  BY <1>6, <1>7 DEF Pipeline!GoBack
<1> QED  BY <1>8 DEF Kept, Pipeline!Next

LEMMA RestartDeleteKept ==
  ASSUME IInv, IInv', NEW t \in Slots, RestartDelete(t) PROVE Kept
<1>0. TypeOK /\ ~Free(t) /\ task[t].dec = "none"
  BY DEF IInv, TypeInv, RestartDelete, Free, Live, Deciding
<1>1. Others(t) /\ task'[t].dec = "none"
  BY <1>0, GotoStep DEF RestartDelete, Pcs, Others
<1>2. Outstanding = NoneOutstanding /\ Outstanding' = NoneOutstanding
  BY <1>0, <1>1, Outstandings
<1>3. /\ ck'.at = "none" /\ ck'.pos = 1
      /\ {x \in Stages : ck'.gates[x] = "approved"} = {}
  BY DEF RestartDelete, NoCheckpoint, Scenario
<1>4. PhaseOf(ck') = "new"
  BY <1>3 DEF PhaseOf
<1>5. Pipeline!StartOver
  BY <1>2, <1>3, <1>4 DEF Pipeline!StartOver, Pipeline!NoDecision, NoneOutstanding
<1> QED  BY <1>5 DEF Kept, Pipeline!Next

LEMMA StartKept ==
  ASSUME IInv, IInv', NEW t \in Slots, Start(t) PROVE Kept
<1>0. /\ TypeOK /\ ~Free(t) /\ task[t].dec = "none" /\ ck.at = "none"
      /\ \A x \in Stages : ck.gates[x] # "approved"
  BY DEF IInv, TypeInv, Start, Free, Live, Deciding, CkInv, CkNext
<1>1. Others(t) /\ task'[t].dec = "none"
  BY <1>0, HoldStep, InitialTypes DEF Start, Pcs, Others
<1>2. Outstanding = NoneOutstanding /\ Outstanding' = NoneOutstanding
  BY <1>0, <1>1, Outstandings
<1>3. /\ ck'.at = "stage" /\ ck'.pos = 1
      /\ {x \in Stages : ck'.gates[x] = "approved"} = {x \in Stages : ck.gates[x] = "approved"}
  BY <1>0 DEF Start, InitialState, NoCheckpoint, Scenario
<1>4. PhaseOf(ck) = "new" /\ PhaseOf(ck') = "work"
  BY <1>0, <1>3 DEF PhaseOf
<1>5. Pipeline!Begin
  BY <1>2, <1>3, <1>4 DEF Pipeline!Begin
<1> QED  BY <1>5 DEF Kept, Pipeline!Next

LEMMA StageOkKept ==
  ASSUME IInv, IInv', NEW t \in Slots, StageOk(t) PROVE Kept
<1>0. ~Free(t)
  BY DEF StageOk, Running, Free
<1>1. /\ ck.at = "stage" /\ task[t].dec = "none" /\ Others(t) /\ task'[t].dec = "none"
      /\ ck'.at = "gate" /\ ck'.pos = ck.pos /\ ck'.gates = ck.gates
  BY StageOkWrites
<1>2. Outstanding = NoneOutstanding /\ Outstanding' = NoneOutstanding
  BY <1>0, <1>1, Outstandings
<1>3. PhaseOf(ck) = "work" /\ PhaseOf(ck') = "review"
  BY <1>1 DEF PhaseOf
<1>4. Pipeline!Finish
  BY <1>1, <1>2, <1>3 DEF Pipeline!Finish, Pipeline!NoDecision, NoneOutstanding
<1> QED  BY <1>4 DEF Kept, Pipeline!Next

LEMMA StageErrorKept ==
  ASSUME IInv, IInv', NEW t \in Slots, StageError(t) PROVE Kept
<1>0. ~Free(t)
  BY DEF StageError, Running, Free
<1>1. /\ ck.at = "stage" /\ task[t].dec = "none" /\ Others(t) /\ task'[t].dec = "none"
      /\ ck'.at = "end" /\ ck'.err = TRUE /\ ck'.pos = ck.pos /\ ck'.gates = ck.gates
  BY StageErrorWrites
<1>2. Outstanding = NoneOutstanding /\ Outstanding' = NoneOutstanding
  BY <1>0, <1>1, Outstandings
<1>3. PhaseOf(ck) = "work" /\ PhaseOf(ck') = "stopped"
  BY <1>1 DEF PhaseOf
<1>4. Pipeline!Fail
  BY <1>1, <1>2, <1>3 DEF Pipeline!Fail, Pipeline!NoDecision, NoneOutstanding
<1> QED  BY <1>4 DEF Kept, Pipeline!Next

LEMMA GateDecideKept ==
  ASSUME IInv, IInv', NEW t \in Slots, GateDecide(t) PROVE Kept
<1> DEFINE s == ck.pos
           d == task[t].dec
           old == {x \in Stages : ck.gates[x] = "approved"}
           new == {x \in Stages : ck'.gates[x] = "approved"}
<1>0. ~Free(t) /\ CkInv
  BY DEF GateDecide, Running, Free, IInv
<1>1. /\ ck.at = "gate" /\ s \in Stages /\ task[t].stage = s /\ d \in Decisions
      /\ Others(t) /\ task'[t].dec = "none"
      /\ ck'.err = FALSE /\ ck'.gates[s] = d
      /\ \A x \in Stages \ {s} : ck'.gates[x] = ck.gates[x]
  BY GateDecideWrites
<1>2. /\ d = "approved" /\ s # N => ck'.at = "stage" /\ ck'.pos = s + 1
      /\ d = "approved" /\ s = N => ck'.at = "end" /\ ck'.pos = s
      /\ d = "rejected" =>
           ck'.pos = s /\ ck'.at = (IF s = Scenario THEN "end" ELSE "stage")
  BY GateDecideWrites
<1>3. Outstanding = [stage |-> s, says |-> d] /\ Outstanding' = NoneOutstanding
  BY <1>0, <1>1, Outstandings DEF DecisionOf, Decisions
<1>4. PhaseOf(ck) = "review" /\ ck.gates[s] # "approved"
  BY <1>0, <1>1 DEF PhaseOf, CkInv, CkNext
<1> HIDE DEF s, d
<1>5. CASE d = "approved"
  <2>1. new = old \cup {s}
    BY <1>1, <1>5
  <2>2. CASE s # N
    <3>1. PhaseOf(ck') = "work"
      BY <1>2, <1>5, <2>2 DEF PhaseOf
    <3>2. Pipeline!Approve
      BY <1>2, <1>3, <1>4, <1>5, <2>1, <2>2, <3>1
         DEF Pipeline!Approve, Pipeline!NoDecision, NoneOutstanding, s
    <3> QED  BY <3>2 DEF Kept, Pipeline!Next
  <2>3. CASE s = N
    <3>1. ck'.gates[Scenario] = "approved"
      <4>1. Scenario \in Stages /\ Scenario < s /\ Scenario # s
        BY <2>3, StagesAssumption DEF Stages, Scenario
      <4>2. ck.gates[Scenario] = "approved"
        BY <1>0, <1>1, <4>1 DEF CkInv, CkOrdered, s
      <4> QED  BY <1>1, <4>1, <4>2
    <3>2. PhaseOf(ck') = "done"
      BY <1>1, <1>2, <1>5, <2>3, <3>1 DEF PhaseOf
    <3>3. Pipeline!Approve
      BY <1>2, <1>3, <1>4, <1>5, <2>1, <2>3, <3>2
         DEF Pipeline!Approve, Pipeline!NoDecision, NoneOutstanding, s
    <3> QED  BY <3>3 DEF Kept, Pipeline!Next
  <2> QED  BY <2>2, <2>3
<1>6. CASE d = "rejected"
  <2>1. new = old
    BY <1>1, <1>4, <1>6
  <2>2. PhaseOf(ck') = IF s = 1 THEN "stopped" ELSE "work"
    BY <1>1, <1>2, <1>6 DEF PhaseOf, Scenario
  <2>3. Pipeline!Reject
    BY <1>2, <1>3, <1>4, <1>6, <2>1, <2>2
       DEF Pipeline!Reject, Pipeline!NoDecision, NoneOutstanding, s
  <2> QED  BY <2>3 DEF Kept, Pipeline!Next
<1> QED  BY <1>1, <1>5, <1>6 DEF Decisions

\* The handlers' other steps move neither the graph nor the decision.
LEMMA HandlerKept ==
  ASSUME IInv, IInv', NEW t \in Slots, Handler(t) PROVE Kept
<1>1. CASE GateUpdate(t) \/ RetryUpdate(t) \/ RestartDelete(t)
  BY <1>1, GateUpdateKept, RetryUpdateKept, RestartDeleteKept
<1>2. CASE Provision(t)
  <2>1. ~Free(t) /\ UNCHANGED ck /\ Goto(t, "start") /\ "start" \in Pcs
    BY <1>2 DEF Provision, Free, Pcs
  <2> QED  BY <2>1, GotoUnnoticed DEF Kept
<1>3. CASE GateRunning(t)
  <2> DEFINE pc == CASE task[t].stage = Scenario /\ task[t].dec = "approved" -> "g_provision"
                     [] task[t].stage # Scenario /\ task[t].dec = "rejected" -> "g_read"
                     [] OTHER -> "load"
  <2>1. ~Free(t) /\ UNCHANGED ck /\ Goto(t, pc) /\ pc \in Pcs
    BY <1>3 DEF GateRunning, Free, Pcs
  <2> HIDE DEF pc
  <2> QED  BY <2>1, GotoUnnoticed DEF Kept
<1>4. CASE GateProvision(t)
  <2>1. ~Free(t) /\ UNCHANGED ck /\ Goto(t, "load") /\ "load" \in Pcs
    BY <1>4, GateProvisionKeeps DEF GateProvision, Free, Pcs
  <2> QED  BY <2>1, GotoUnnoticed DEF Kept
<1>5. CASE GateRead(t)
  <2>1. ~Free(t) /\ UNCHANGED ck /\ Hold(t, "g_update", ck) /\ "g_update" \in Pcs
    BY <1>5 DEF GateRead, Free, Pcs
  <2> QED  BY <2>1, HoldUnnoticed DEF Kept
<1>6. CASE FailureRunning(t)
  <2>1. ~Free(t) /\ UNCHANGED ck /\ Goto(t, "load") /\ "load" \in Pcs
    BY <1>6 DEF FailureRunning, Free, Pcs
  <2> QED  BY <2>1, GotoUnnoticed DEF Kept
<1>7. CASE RestartRow(t)
  <2>1. ~Free(t) /\ UNCHANGED ck /\ Goto(t, "start") /\ "start" \in Pcs
    BY <1>7 DEF RestartRow, Free, Pcs
  <2> QED  BY <2>1, GotoUnnoticed DEF Kept
<1>8. CASE RetryRead(t)
  <2>1. ~Free(t) /\ UNCHANGED ck /\ Hold(t, "t_update", ck) /\ "t_update" \in Pcs
    BY <1>8 DEF RetryRead, Free, Pcs
  <2> QED  BY <2>1, HoldUnnoticed DEF Kept
<1>9. CASE RetryRow(t)
  <2>1. ~Free(t) /\ UNCHANGED ck /\ Goto(t, "load") /\ "load" \in Pcs
    BY <1>9 DEF RetryRow, Free, Pcs
  <2> QED  BY <2>1, GotoUnnoticed DEF Kept
<1>10. CASE EditRead(t)
  <2>1. ~Free(t) /\ UNCHANGED ck /\ "e_update" \in Pcs /\ task[t].pc \notin Deciding
    BY <1>10 DEF EditRead, Free, Pcs, Deciding
  <2>2. Hold(t, "e_update", ck) \/ Finish(t)
    BY <1>10 DEF EditRead
  <2> QED  BY <2>1, <2>2, HoldUnnoticed, FinishUnnoticed DEF Kept
<1>11. CASE EditUpdate(t)
  <2>1. ~Free(t) /\ UNCHANGED ck /\ Finish(t) /\ task[t].pc \notin Deciding
    BY <1>11, EditUpdateKeeps DEF EditUpdate, Free, Deciding
  <2> QED  BY <2>1, FinishUnnoticed DEF Kept
<1> QED  BY <1>1, <1>2, <1>3, <1>4, <1>5, <1>6, <1>7, <1>8, <1>9, <1>10, <1>11 DEF Handler

LEMMA DriveKept ==
  ASSUME IInv, IInv', NEW t \in Slots, Drive(t) PROVE Kept
<1>1. CASE Start(t) \/ StageOk(t) \/ StageError(t) \/ GateDecide(t)
  BY <1>1, StartKept, StageOkKept, StageErrorKept, GateDecideKept
<1>2. CASE Load(t)
  <2>1. ~Free(t) /\ UNCHANGED ck /\ "run" \in Pcs
    BY <1>2 DEF Load, Free, Pcs
  <2>2. ck.at # "none"
    BY <1>2, <2>1 DEF IInv, Load, Live, Carried, Resumable
  <2>3. Hold(t, "run", ck)
    BY <1>2, <2>2 DEF Load
  <2> QED  BY <2>1, <2>3, HoldUnnoticed DEF Kept
<1>3. CASE StageRaise(t)
  <2>1. /\ ~Free(t) /\ UNCHANGED ck /\ "raised" \in Pcs /\ task[t].dec = "none"
        /\ task[t].mem.pos \in 0 .. N /\ Report(t, "raised", task[t].mem.pos)
    BY <1>3, RunFacts DEF StageRaise, Running, Carried, Pcs, Stages
  <2> QED  BY <2>1, ReportUnnoticed DEF Kept
<1>4. CASE GateInterrupt(t)
  <2>1. /\ ~Free(t) /\ UNCHANGED ck /\ "await1" \in Pcs /\ task[t].dec = "none"
        /\ task[t].mem.pos \in 0 .. N /\ Report(t, "await1", task[t].mem.pos)
    BY <1>4, RunFacts DEF GateInterrupt, Running, Pcs, Stages
  <2> QED  BY <2>1, ReportUnnoticed DEF Kept
<1>5. CASE StreamEnd(t)
  <2>1. ~Free(t) /\ UNCHANGED ck /\ Goto(t, "complete") /\ "complete" \in Pcs
    BY <1>5 DEF StreamEnd, Running, Free, Pcs
  <2> QED  BY <2>1, GotoUnnoticed DEF Kept
<1>6. CASE WriteEntered(t) \/ WriteFailed(t) \/ WriteAwaiting(t)
  <2>1. ~Free(t) /\ UNCHANGED ck /\ {"run", "failed2", "await2"} \subseteq Pcs
    BY <1>6 DEF WriteEntered, WriteFailed, WriteAwaiting, Free, Pcs
  <2>2. Goto(t, "run") \/ Goto(t, "failed2") \/ Goto(t, "await2")
    BY <1>6 DEF WriteEntered, WriteFailed, WriteAwaiting
  <2> QED  BY <2>1, <2>2, GotoUnnoticed DEF Kept
<1>7. CASE MirrorDecision(t)
  <2>1. ~Free(t) /\ UNCHANGED ck /\ {"run", "reject1"} \subseteq Pcs
    BY <1>7 DEF MirrorDecision, Free, Pcs
  <2>2. Goto(t, "run") \/ Goto(t, "reject1")
    BY <1>7 DEF MirrorDecision
  <2> QED  BY <2>1, <2>2, GotoUnnoticed DEF Kept
<1>8. CASE \/ MirrorFailed(t) \/ MirrorPending(t) \/ WriteRejected(t) \/ WriteComplete(t)
           \/ WriteRaised(t)
  <2>1. ~Free(t) /\ UNCHANGED ck /\ Finish(t) /\ task[t].pc \notin Deciding
    BY <1>8 DEF MirrorFailed, MirrorPending, WriteRejected, WriteComplete, WriteRaised, Free,
                Deciding
  <2> QED  BY <2>1, FinishUnnoticed DEF Kept
<1> QED  BY <1>1, <1>2, <1>3, <1>4, <1>5, <1>6, <1>7, <1>8 DEF Drive

\* A request that carries no decision goes unnoticed.
LEMMA RequestUnnoticed ==
  ASSUME Assumed, IInv, IInv', NEW t \in Slots, Ready(t),
         NEW pc \in Pcs \ {"idle"}, NEW s \in 0 .. N, NEW g \in RowGates,
         Become(t, Fresh(pc, s, "none", g)), UNCHANGED ck
  PROVE  UNCHANGED Pipeline!vars
<1>1. Quiet /\ Others(t) /\ task'[t].dec = "none"
  BY Requested
<1>2. task[t].dec = "none"
  BY <1>1 DEF IInv, Rest, Quiet
<1> QED  BY <1>1, <1>2, Unnoticed

LEMMA PostGateKept ==
  ASSUME Assumed, IInv, IInv', NEW t \in Slots, NEW s \in Stages, NEW d \in Decisions,
         PostGate(t, s, d)
  PROVE  Kept
<1>1. /\ Ready(t) /\ s = row.current /\ GateOpen(s)
      /\ Become(t, Fresh("g_running", s, d, NoGates)) /\ UNCHANGED ck
  BY DEF PostGate, Assumed, Habits
<1>2. /\ Quiet /\ Settled /\ Others(t) /\ task'[t].stage = s /\ task'[t].dec = d
  <2>1. "g_running" \in Pcs \ {"idle"}
    BY DEF Pcs
  <2> QED  BY ONLY Assumed, IInv, t \in Slots, s \in Stages, d \in Decisions,
              <1>1, <2>1, NoGatesType, Requested
<1>3. ck.at = "gate" /\ ck.pos = s
  BY <1>1, <1>2 DEF GateOpen, Settled, AtReview
<1>4. task[t].dec = "none" /\ d # "none"
  BY <1>2 DEF IInv, Rest, Quiet, Decisions
<1>5. Outstanding = NoneOutstanding /\ Outstanding' = [stage |-> s, says |-> d]
  BY <1>2, <1>4, Outstandings DEF DecisionOf
<1>6. PhaseOf(ck) = "review"
  BY <1>3 DEF PhaseOf
<1>7. \E says \in {"approved", "rejected"} : Pipeline!Decide(says)
  BY <1>1, <1>3, <1>5, <1>6
     DEF Pipeline!Decide, Pipeline!NoDecision, NoneOutstanding, Decisions
<1> QED  BY <1>7 DEF Kept, Pipeline!Next

LEMMA RequestKept ==
  ASSUME Assumed, IInv, IInv', NEW t \in Slots, Request(t) PROVE Kept
<1>0. /\ {"f_running", "t_read", "e_read", "x_delete"} \subseteq Pcs \ {"idle"}
      /\ row.gate \in RowGates
  BY FieldTypes DEF Pcs, IInv, TypeInv
<1>1. CASE \E s \in Stages, d \in Decisions : PostGate(t, s, d)
  BY <1>1, PostGateKept
<1>2. CASE PostResumeReplay(t) \/ Restart(t)
  BY <1>0, <1>2, NoGatesType, RequestUnnoticed
     DEF PostResumeReplay, ResumeAccepted, Restart, Kept
<1>3. CASE \E s \in Stages : PostResumeFailed(t, s) \/ PostRetry(t, s) \/ PatchArtifact(t, s)
  BY <1>0, <1>3, NoGatesType, RequestUnnoticed
     DEF PostResumeFailed, ResumeAccepted, PostRetry, PatchArtifact, Kept
<1> QED  BY <1>1, <1>2, <1>3 DEF Request

\* A decision that dies with the process is forgotten.
LEMMA CrashKept ==
  ASSUME IInv, IInv', Crash PROVE Kept
<1>1. PICK t \in Slots : ~Free(t)
  BY DEF Crash, Quiet
<1>2. UNCHANGED ck /\ \A u \in Slots : task'[u].dec = "none" /\ Free(u)'
  BY IdleType DEF Crash, Free
<1>3. \A u \in Slots \ {t} : Free(u)
  BY <1>1 DEF IInv, Single
<1>4. /\ Outstanding =
           IF task[t].dec = "none" THEN NoneOutstanding ELSE DecisionOf(task[t])
      /\ Outstanding' = NoneOutstanding
  BY <1>2, <1>3, OutstandingNow, OutstandingNext DEF IInv
<1>5. CASE task[t].dec = "none"
  BY <1>2, <1>4, <1>5 DEF Kept, Pipeline!vars, PhaseOf
<1>6. CASE task[t].dec # "none"
  <2>1. ck.at = "gate"
    BY <1>1, <1>6 DEF IInv, Live, Deciding, Reviewing, AtReview, Carried
  <2>2. PhaseOf(ck) = "review" /\ PhaseOf(ck') = PhaseOf(ck)
    BY <1>2, <2>1 DEF PhaseOf
  <2>3. Outstanding # NoneOutstanding
    BY <1>4, <1>6 DEF DecisionOf, NoneOutstanding
  <2>4. Pipeline!Forget
    BY <1>2, <1>4, <2>2, <2>3 DEF Pipeline!Forget, Pipeline!NoDecision, NoneOutstanding
  <2> QED  BY <2>4 DEF Kept, Pipeline!Next
<1> QED  BY <1>5, <1>6

LEMMA StepKept ==
  ASSUME Assumed, IInv, IInv', [Next]_vars PROVE Kept
<1>1. CASE UNCHANGED vars
  BY <1>1 DEF vars, Kept, Pipeline!vars, PhaseOf, Outstanding, Carrying
<1> QED  BY <1>1, CrashKept, HandlerKept, DriveKept, RequestKept DEF Next, Step

LEMMA InitKept == Init => Pipeline!Init
<1> SUFFICES ASSUME Init PROVE Pipeline!Init
  OBVIOUS
<1>1. IInv
  BY SafeInit
<1>2. PICK t \in Slots : task[t].pc = "provision"
  <2>1. "provision" \in Pcs
    BY DEF Pcs
  <2> QED  BY <2>1, FreshType, NoGatesType DEF Init
<1>3. ~Free(t) /\ task[t].dec = "none"
  BY <1>1, <1>2 DEF Free, IInv, Live, Deciding
<1>4. \A u \in Slots \ {t} : Free(u)
  BY <1>1, <1>3 DEF IInv, Single
<1>5. Outstanding = NoneOutstanding
  BY <1>1, <1>3, <1>4, OutstandingNow DEF IInv
<1>6. /\ ck.at = "none" /\ ck.pos = 1
      /\ {x \in Stages : ck.gates[x] = "approved"} = {}
  BY DEF Init, NoCheckpoint, Scenario
<1>7. PhaseOf(ck) = "new"
  BY <1>6 DEF PhaseOf
<1> QED  BY <1>5, <1>6, <1>7 DEF Pipeline!Init, Pipeline!NoDecision, NoneOutstanding

\* Everything run_service does to a run, its handlers, its driver and a death
\* of the process, is what GatedPipeline promises the operator: stages in
\* order, each reviewed, only a decision on the stage under review moves on.
THEOREM PromiseKept == ASSUME Assumed PROVE Spec => KeepsThePromise
<1>1. IInv /\ IInv' /\ [Next]_vars => [Pipeline!Next]_(Pipeline!vars)
  BY StepKept DEF Kept
<1> QED  BY <1>1, InitKept, AlwaysIInv, PTL DEF Spec, KeepsThePromise, Pipeline!Spec
=============================================================================
