------------------------------ MODULE RunService ------------------------------
(***************************************************************************)
(* One run of yt.flow: the row of the runs table, the LangGraph checkpoint *)
(* of its thread, and the asyncio tasks of services/run_service.py that    *)
(* drive it, between two requests of the operator and across a restart of  *)
(* the process.  Every await of the code is a boundary between two steps:  *)
(* tasks interleave there, and the process may die there.                  *)
(*                                                                         *)
(* Stages are the numbers 1 .. N in pipeline order.  Stage 1 is scenario   *)
(* (the only stage whose gate ends the run on a reject) and stage 2 is     *)
(* image (the only stage whose files are a resume cache of their own).     *)
(*                                                                         *)
(* Definitions marked "Mutant" are slips a change to the code could make;  *)
(* no action uses them.  Each breaks a property, which shows the property  *)
(* is able to fail.                                                        *)
(***************************************************************************)
EXTENDS Naturals, FiniteSets

CONSTANTS
  N,         \* number of stages; the program has 5
  Slots,     \* asyncio tasks that may be alive at once (bounds concurrency)
  NoTask,    \* "no task is registered for this run"
  Editable,  \* stages whose text the operator may edit
  Ops,       \* kinds of operator requests: "gate", "resume", "retry", "edit", "restart"
  Client,    \* what the operator is known to do; see the requests
  Faults,    \* how a stage node may fail: "error" (returned), "raise"
  CrashAt    \* where the process may die: pairs of a task's pc and its dec

ASSUME StagesAssumption == N \in Nat /\ N >= 2
ASSUME SlotsAssumption == NoTask \notin Slots
ASSUME EditableAssumption == Editable \subseteq 1 .. N

Stages == 1 .. N
Scenario == 1
Image == 2

Decisions == {"approved", "rejected"}
RunStatus == {"running", "awaiting_approval", "failed", "complete"}
GateValue == {"none", "pending", "approved", "rejected"}

Mutable == {"awaiting_approval", "failed", "complete"}
Retryable == {"approved", "rejected", "failed"}

VARIABLES
  row,        \* the runs table: status, current_stage (0: unknown), gate_states
  ck,         \* the latest checkpoint of the thread, and the node it runs next
  frames,     \* the image files of the current shots are on disk
  task,       \* what each asyncio task is about to do
  registered  \* _run_tasks[run_id]

vars == <<row, ck, frames, task, registered>>

\* PipelineState as the checkpoint keeps it; at/pos name the next node.
Checkpoint ==
  [at: {"none", "stage", "gate", "end"}, pos: Stages,
   gates: [Stages -> GateValue], out: [Stages -> BOOLEAN], err: BOOLEAN]

NoCheckpoint ==
  [at |-> "none", pos |-> Scenario, gates |-> [s \in Stages |-> "none"],
   out |-> [s \in Stages |-> FALSE], err |-> FALSE]

\* _initial_state, after START has been routed to the scenario node.
InitialState == [NoCheckpoint EXCEPT !.at = "stage"]

Row ==
  [status: RunStatus, current: 0 .. N,
   gate: [Stages -> GateValue \cup {"failed"}]]

Pcs ==
  {"idle",
   "provision",                                        \* start_run
   "g_running", "g_provision", "g_read", "g_update",   \* resume_run
   "f_running",                                        \* resume_run_from_failure
   "t_read", "t_update", "t_row",                      \* retry_stage
   "e_read", "e_update",                               \* edit_artifact
   "x_delete", "x_row",                                \* full_restart_run
   "start", "load", "run", "entered",                  \* _run, _consume
   "failed1", "failed2",
   "await1", "await2", "mirror", "reject1", "complete", "raised"}

\* The pcs of a task that has reached _graph.astream(): it drives the graph.
Driving ==
  {"start", "load", "run", "entered", "failed1", "failed2", "await1", "await2",
   "mirror", "reject1", "complete", "raised"}

\* stage: the stage of the request, then of the event being consumed;
\* dec: the decision Command(resume=...) still carries; gates: gate_states
\* as the handler read the row; mem: the state the handler read, then the
\* state the driver works on.
Task ==
  [pc: Pcs, stage: 0 .. N, dec: Decisions \cup {"none"},
   gates: [Stages -> GateValue \cup {"failed"}], mem: Checkpoint]

\* A task that is about to do pc for a request.
Fresh(pc, s, d, gates) ==
  [pc |-> pc, stage |-> s, dec |-> d, gates |-> gates, mem |-> NoCheckpoint]

NoGates == [s \in Stages |-> "none"]
Idle == Fresh("idle", 0, "none", NoGates)

-----------------------------------------------------------------------------
(* The graph's topology. *)

\* The node after stage s: its gate, or END when the state carries an error.
AfterStage(s, err) == [at |-> IF err THEN "end" ELSE "gate", pos |-> s]

\* Mutant: a reject moves on.
AfterGateAdvancing(s, d) ==
  IF s = N THEN [at |-> "end", pos |-> s] ELSE [at |-> "stage", pos |-> s + 1]

\* The node after the gate of s, on a decision.
AfterGate(s, d) ==
  IF d = "approved"
  THEN IF s = N THEN [at |-> "end", pos |-> s] ELSE [at |-> "stage", pos |-> s + 1]
  ELSE IF s = Scenario THEN [at |-> "end", pos |-> s] ELSE [at |-> "stage", pos |-> s]

At(state, node) == [state EXCEPT !.at = node.at, !.pos = node.pos]

\* What a successful stage node leaves: a new scenario drops every artifact
\* that lives inside the old scenes, which is all of them but the video.
Produce(s, out) ==
  [x \in Stages |-> IF s = Scenario /\ x # N THEN x = s ELSE x = s \/ out[x]]

\* Mutant: the downstream outputs are kept.
NullifyOnly(s, out) == [x \in Stages |-> x # s /\ out[x]]

\* _nullify: the stage's outputs and everything downstream.
Nullify(s, out) == [x \in Stages |-> x < s /\ out[x]]

\* Mutant: one gate too many is reset.
ResetGatesFromPrevious(s, gates) ==
  [x \in Stages |-> IF x + 1 >= s THEN "pending" ELSE gates[x]]

\* _reset_gates
ResetGates(s, gates) == [x \in Stages |-> IF x >= s THEN "pending" ELSE gates[x]]

\* Mutant: the row's failed stage is not looked at (replay past the failure).
FailedStagesIgnored(gate) == {}

\* failed_stage: the stages the row marks failed, and the first of them.
FailedStages(gate) == {s \in Stages : gate[s] = "failed"}
IsFirstFailed(s, gate) == s \in FailedStages(gate) /\ \A x \in FailedStages(gate) : s <= x

-----------------------------------------------------------------------------
(* States a write or a superstep leaves in the checkpoint. *)

\* A redo of s, by a handler that read the state `read` before its write.
Redone(state, s, read) ==
  [state EXCEPT !.out = Nullify(s, read.out), !.gates = ResetGates(s, read.gates)]

\* An edit writes back the scenes it read; the video path is not in them.
Edited(state, s, read) ==
  At([state EXCEPT !.out = [x \in Stages |-> IF x = N THEN state.out[x] ELSE read.out[x]]],
     AfterStage(s, state.err))

\* The stage node clears state["error"] when it succeeds, or sets it; the
\* gate node records its decision.
Succeeded(m) ==
  At([m EXCEPT !.out = Produce(m.pos, m.out), !.err = FALSE], AfterStage(m.pos, FALSE))
Failed(m) == At([m EXCEPT !.err = TRUE], AfterStage(m.pos, TRUE))
Decided(m, d) == At([m EXCEPT !.gates[m.pos] = d], AfterGate(m.pos, d))

-----------------------------------------------------------------------------
Become(t, new) == task' = [task EXCEPT ![t] = new]
Goto(t, pc) == Become(t, [task[t] EXCEPT !.pc = pc])
Hold(t, pc, state) == Become(t, [task[t] EXCEPT !.pc = pc, !.mem = state])
Report(t, pc, s) == Become(t, [task[t] EXCEPT !.pc = pc, !.stage = s])

\* The task returns; its done callback drops it from _run_tasks.
Finish(t) ==
  /\ Become(t, Idle)
  /\ registered' = IF registered = t THEN NoTask ELSE registered

Free(t) == task[t].pc = "idle"
Quiet == \A t \in Slots : Free(t)

Init ==
  /\ row = [status |-> "running", current |-> 0, gate |-> [s \in Stages |-> "none"]]
  /\ ck = NoCheckpoint
  /\ frames = FALSE
  /\ \E t \in Slots :
       /\ task = [u \in Slots |-> IF u = t THEN Fresh("provision", 0, "none", NoGates) ELSE Idle]
       /\ registered = t

-----------------------------------------------------------------------------
(* Requests.  Each route checks the row and schedules a task in one step:  *)
(* there is no await between its checks and its spawn.                     *)
(* Client names what the operator is known to do:                          *)
(*   "one_at_a_time"   waits until the tasks of the last request are done; *)
(*   "current_gate"    decides only the gate the row says is open;         *)
(*   "current_edit"    edits only the stage under review;                  *)
(*   "retry_rejected"  retries a rejected scenario and never resumes it.   *)

Ready(t) == Free(t) /\ ("one_at_a_time" \in Client => Quiet)

\* Mutants: a dropped status check; an orphan is not resumable; a dropped
\* is_executing check.
GateOpenUnchecked(s) == row.gate[s] = "pending"
CanResumeFailedOnly == row.status = "failed" /\ registered = NoTask

GateOpen(s) == row.status = "awaiting_approval" /\ row.gate[s] = "pending"
CanRetry(s) == row.status \in Mutable /\ row.gate[s] \in Retryable
CanResume == row.status \in {"failed", "running"} /\ registered = NoTask

PostGate(t, s, d) ==
  /\ "gate" \in Ops /\ Ready(t)
  /\ "current_gate" \in Client => s = row.current
  /\ GateOpen(s)
  /\ Become(t, Fresh("g_running", s, d, NoGates))
  /\ UNCHANGED <<row, ck, frames, registered>>

ResumeAccepted(t) ==
  /\ "resume" \in Ops /\ Ready(t)
  /\ "retry_rejected" \in Client => row.gate[Scenario] # "rejected"
  /\ CanResume

\* /resume of a run with no failed stage: its own registered driver.
PostResumeReplay(t) ==
  /\ ResumeAccepted(t)
  /\ FailedStages(row.gate) = {}
  /\ Become(t, Fresh("f_running", 0, "none", NoGates))
  /\ registered' = t
  /\ UNCHANGED <<row, ck, frames>>

\* /resume of a run with a failed stage: the row is settled, the stage retried.
PostResumeFailed(t, s) ==
  /\ ResumeAccepted(t)
  /\ IsFirstFailed(s, row.gate)
  /\ row' = [row EXCEPT !.status = "failed"]
  /\ Become(t, Fresh("t_read", s, "none", row.gate))
  /\ UNCHANGED <<ck, frames, registered>>

PostRetry(t, s) ==
  /\ "retry" \in Ops /\ Ready(t)
  /\ CanRetry(s)
  /\ Become(t, Fresh("t_read", s, "none", row.gate))
  /\ UNCHANGED <<row, ck, frames, registered>>

PatchArtifact(t, s) ==
  /\ "edit" \in Ops /\ Ready(t)
  /\ "current_edit" \in Client => row.status = "awaiting_approval" /\ s = row.current
  /\ s \in Editable
  /\ row.status \in Mutable
  /\ Become(t, Fresh("e_read", s, "none", NoGates))
  /\ UNCHANGED <<row, ck, frames, registered>>

\* full_restart_run is a service call without a route of its own.
Restart(t) ==
  /\ "restart" \in Ops /\ Ready(t)
  /\ Become(t, Fresh("x_delete", 0, "none", NoGates))
  /\ UNCHANGED <<row, ck, frames, registered>>

-----------------------------------------------------------------------------
(* start_run, resume_run, resume_run_from_failure, full_restart_run: what *)
(* they do before they drive the graph.                                   *)

\* _ensure_character_reference never raises and touches no run state.
Provision(t) ==
  /\ task[t].pc = "provision"
  /\ Goto(t, "start")
  /\ UNCHANGED <<row, ck, frames, registered>>

\* Mutant: the row is left awaiting while the decision is delivered.
GateRunningSilent(t) ==
  /\ task[t].pc = "g_running"
  /\ Goto(t, CASE task[t].stage = Scenario /\ task[t].dec = "approved" -> "g_provision"
               [] task[t].stage # Scenario /\ task[t].dec = "rejected" -> "g_read"
               [] OTHER -> "load")
  /\ UNCHANGED <<row, ck, frames, registered>>

GateRunning(t) ==
  /\ task[t].pc = "g_running"
  /\ row' = [row EXCEPT !.status = "running"]
  /\ Goto(t, CASE task[t].stage = Scenario /\ task[t].dec = "approved" -> "g_provision"
               [] task[t].stage # Scenario /\ task[t].dec = "rejected" -> "g_read"
               [] OTHER -> "load")
  /\ UNCHANGED <<ck, frames, registered>>

\* Mutant: the warnings are written as_node="gate_scenario".
GateProvisionAtGate(t) ==
  /\ task[t].pc = "g_provision"
  /\ \/ ck' = At(ck, AfterGate(Scenario, "approved"))
     \/ UNCHANGED ck
  /\ Goto(t, "load")
  /\ UNCHANGED <<row, frames, registered>>

\* Cards provisioned after the scenario's approval may add warnings to the
\* checkpoint, written as_node="scenario"; the write may be lost.
GateProvision(t) ==
  /\ task[t].pc = "g_provision"
  /\ \/ ck' = At(ck, AfterStage(Scenario, ck.err))
     \/ UNCHANGED ck
  /\ Goto(t, "load")
  /\ UNCHANGED <<row, frames, registered>>

\* Mutant: a reject of the images leaves their files on disk.
GateReadKeepingFiles(t) ==
  /\ task[t].pc = "g_read"
  /\ Hold(t, "g_update", ck)
  /\ UNCHANGED <<row, ck, frames, registered>>

\* A reject reads the state and deletes the image files of its shots ...
GateRead(t) ==
  /\ task[t].pc = "g_read"
  /\ Hold(t, "g_update", ck)
  /\ frames' = (frames /\ task[t].stage # Image)
  /\ UNCHANGED <<row, ck, registered>>

\* ... then nullifies in the checkpoint, as_node=stage: the gate stays next.
GateUpdate(t) ==
  /\ task[t].pc = "g_update"
  /\ ck' = At(Redone(ck, task[t].stage, task[t].mem), AfterStage(task[t].stage, ck.err))
  /\ Goto(t, "load")
  /\ UNCHANGED <<row, frames, registered>>

FailureRunning(t) ==
  /\ task[t].pc = "f_running"
  /\ row' = [row EXCEPT !.status = "running"]
  /\ Goto(t, "load")
  /\ UNCHANGED <<ck, frames, registered>>

RestartDelete(t) ==
  /\ task[t].pc = "x_delete"
  /\ ck' = NoCheckpoint
  /\ Goto(t, "x_row")
  /\ UNCHANGED <<row, frames, registered>>

RestartRow(t) ==
  /\ task[t].pc = "x_row"
  /\ row' = [status |-> "running", current |-> Scenario,
             gate |-> [s \in Stages |-> "none"]]
  /\ Goto(t, "start")
  /\ UNCHANGED <<ck, frames, registered>>

-----------------------------------------------------------------------------
(* retry_stage *)

RetryRead(t) ==
  /\ task[t].pc = "t_read"
  /\ Hold(t, "t_update", ck)
  /\ frames' = (frames /\ task[t].stage # Image)
  /\ UNCHANGED <<row, ck, registered>>

\* aupdate_state(as_node=_RETRY_ENTRY[stage]): the entry is START for the
\* scenario, else the previous gate, whose edge routes on the state's own
\* gate_states and has no target for "pending".
RetryEntry(s, state) ==
  IF s = Scenario THEN [at |-> "stage", pos |-> s] ELSE AfterGate(s - 1, state.gates[s - 1])
EntryRaises(s, state) == s # Scenario /\ state.gates[s - 1] = "pending"

RetryUpdate(t) ==
  /\ task[t].pc = "t_update"
  /\ LET s == task[t].stage
         state == Redone(ck, s, task[t].mem)
     IN  IF EntryRaises(s, state)
         THEN /\ Finish(t)
              /\ UNCHANGED ck
         ELSE /\ ck' = At(state, RetryEntry(s, state))
              /\ Goto(t, "t_row")
              /\ UNCHANGED registered
  /\ UNCHANGED <<row, frames>>

\* Mutant: every gate of the row is reset.
RetryRowAllPending(t) ==
  /\ task[t].pc = "t_row"
  /\ row' = [status |-> "running", current |-> task[t].stage,
             gate |-> ResetGates(Scenario, task[t].gates)]
  /\ Goto(t, "load")
  /\ UNCHANGED <<ck, frames, registered>>

\* The row takes the gate_states read when the request was checked; then
\* spawn(_run(...)) without run_id, so the driver is not registered.
RetryRow(t) ==
  /\ task[t].pc = "t_row"
  /\ row' = [status |-> "running", current |-> task[t].stage,
             gate |-> ResetGates(task[t].stage, task[t].gates)]
  /\ Goto(t, "load")
  /\ UNCHANGED <<ck, frames, registered>>

-----------------------------------------------------------------------------
(* edit_artifact: 404 when the stage has no artifact; then the file, then  *)
(* the checkpoint, as_node=stage.  The stage is not run again.             *)

EditRead(t) ==
  /\ task[t].pc = "e_read"
  /\ IF ck.out[task[t].stage]
     THEN /\ Hold(t, "e_update", ck)
          /\ UNCHANGED registered
     ELSE Finish(t)
  /\ UNCHANGED <<row, ck, frames>>

EditUpdate(t) ==
  /\ task[t].pc = "e_update"
  /\ ck' = Edited(ck, task[t].stage, task[t].mem)
  /\ Finish(t)
  /\ UNCHANGED <<row, frames>>

-----------------------------------------------------------------------------
(* _run and _consume: drive astream to its next barrier.  The driver works *)
(* on its own copy (mem) of the state, commits a checkpoint after a node,  *)
(* and only then is the node's event consumed.                             *)

\* astream(initial state) opens the thread with its first checkpoint.
Start(t) ==
  /\ task[t].pc = "start"
  /\ ck' = InitialState
  /\ Hold(t, "run", InitialState)
  /\ UNCHANGED <<row, frames, registered>>

\* astream(None) and astream(Command(resume)) load the latest checkpoint
\* with the first step of the stream, and raise when the thread has none.
Load(t) ==
  /\ task[t].pc = "load"
  /\ IF ck.at = "none" THEN Report(t, "raised", 0) ELSE Hold(t, "run", ck)
  /\ UNCHANGED <<row, ck, frames, registered>>

Running(t, at) == task[t].pc = "run" /\ task[t].mem.at = at

\* Commit a superstep and hand its event to the consumer at pc.
Commit(t, new, pc) ==
  /\ ck' = new
  /\ Become(t, [task[t] EXCEPT !.pc = pc, !.mem = new, !.stage = task[t].mem.pos,
                               !.dec = "none"])

\* New scenes make the image files on disk those of other prompts; the image
\* node leaves files.
StageOk(t) ==
  /\ Running(t, "stage")
  /\ Commit(t, Succeeded(task[t].mem), "entered")
  /\ frames' = CASE task[t].mem.pos = Scenario -> FALSE
                 [] task[t].mem.pos = Image -> TRUE
                 [] OTHER -> frames
  /\ UNCHANGED <<row, registered>>

\* The node caught its own failure and returned state["error"].
StageError(t) ==
  /\ "error" \in Faults /\ Running(t, "stage")
  /\ Commit(t, Failed(task[t].mem), "failed1")
  /\ UNCHANGED <<row, frames, registered>>

\* The node raised: nothing is committed, _run catches the exception.
StageRaise(t) ==
  /\ "raise" \in Faults /\ Running(t, "stage")
  /\ Report(t, "raised", task[t].mem.pos)
  /\ UNCHANGED <<row, ck, frames, registered>>

\* interrupt() pauses the graph unless a decision is there to be consumed.
GateInterrupt(t) ==
  /\ Running(t, "gate") /\ task[t].dec = "none"
  /\ Report(t, "await1", task[t].mem.pos)
  /\ UNCHANGED <<row, ck, frames, registered>>

GateDecide(t) ==
  /\ Running(t, "gate") /\ task[t].dec # "none"
  /\ Commit(t, Decided(task[t].mem, task[t].dec), "mirror")
  /\ UNCHANGED <<row, frames, registered>>

\* END: the stream is exhausted without a terminal failure having been seen.
StreamEnd(t) ==
  /\ Running(t, "end")
  /\ Goto(t, "complete")
  /\ UNCHANGED <<row, ck, frames, registered>>

WriteEntered(t) ==
  /\ task[t].pc = "entered"
  /\ row' = [row EXCEPT !.status = "running", !.current = task[t].stage]
  /\ Goto(t, "run")
  /\ UNCHANGED <<ck, frames, registered>>

WriteFailed(t) ==
  /\ task[t].pc = "failed1"
  /\ row' = [row EXCEPT !.status = "failed", !.current = task[t].stage]
  /\ Goto(t, "failed2")
  /\ UNCHANGED <<ck, frames, registered>>

MirrorFailed(t) ==
  /\ task[t].pc = "failed2"
  /\ row' = [row EXCEPT !.gate[task[t].stage] = "failed"]
  /\ Finish(t)
  /\ UNCHANGED <<ck, frames>>

WriteAwaiting(t) ==
  /\ task[t].pc = "await1"
  /\ row' = [row EXCEPT !.status = "awaiting_approval", !.current = task[t].stage]
  /\ Goto(t, "await2")
  /\ UNCHANGED <<ck, frames, registered>>

MirrorPending(t) ==
  /\ task[t].pc = "await2"
  /\ row' = [row EXCEPT !.gate[task[t].stage] = "pending"]
  /\ Finish(t)
  /\ UNCHANGED <<ck, frames>>

\* The gate node's event; only a rejected scenario is a terminal failure.
MirrorDecision(t) ==
  /\ task[t].pc = "mirror"
  /\ LET s == task[t].stage
         d == task[t].mem.gates[s]
     IN  /\ row' = [row EXCEPT !.gate[s] = d]
         /\ Goto(t, IF d = "rejected" /\ s = Scenario THEN "reject1" ELSE "run")
  /\ UNCHANGED <<ck, frames, registered>>

\* Mutant: the end of the stream is not written to the row.
WriteCompleteDropped(t) ==
  /\ task[t].pc = "complete"
  /\ Finish(t)
  /\ UNCHANGED <<row, ck, frames>>

WriteRejected(t) ==
  /\ task[t].pc = "reject1"
  /\ row' = [row EXCEPT !.status = "failed"]
  /\ Finish(t)
  /\ UNCHANGED <<ck, frames>>

WriteComplete(t) ==
  /\ task[t].pc = "complete"
  /\ row' = [row EXCEPT !.status = "complete"]
  /\ Finish(t)
  /\ UNCHANGED <<ck, frames>>

\* _run's handler: failed, with the node's name when the exception has one.
WriteRaised(t) ==
  /\ task[t].pc = "raised"
  /\ row' = [row EXCEPT !.status = "failed", !.current = task[t].stage]
  /\ Finish(t)
  /\ UNCHANGED <<ck, frames>>

-----------------------------------------------------------------------------
\* The process dies: its tasks are gone, the database and the files stay.
Crash ==
  /\ ~Quiet
  /\ \A t \in Slots : Free(t) \/ <<task[t].pc, task[t].dec>> \in CrashAt
  /\ task' = [t \in Slots |-> Idle]
  /\ registered' = NoTask
  /\ UNCHANGED <<row, ck, frames>>

Handler(t) ==
  \/ Provision(t)     \/ GateRunning(t)  \/ GateProvision(t) \/ GateRead(t)
  \/ GateUpdate(t)    \/ FailureRunning(t)
  \/ RestartDelete(t) \/ RestartRow(t)
  \/ RetryRead(t)     \/ RetryUpdate(t)  \/ RetryRow(t)
  \/ EditRead(t)      \/ EditUpdate(t)

Drive(t) ==
  \/ Start(t)         \/ Load(t)
  \/ StageOk(t)       \/ StageError(t)    \/ StageRaise(t)
  \/ GateInterrupt(t) \/ GateDecide(t)    \/ StreamEnd(t)
  \/ WriteEntered(t)  \/ WriteFailed(t)   \/ MirrorFailed(t)
  \/ WriteAwaiting(t) \/ MirrorPending(t) \/ MirrorDecision(t)
  \/ WriteRejected(t) \/ WriteComplete(t) \/ WriteRaised(t)

Step(t) == Handler(t) \/ Drive(t)

Request(t) ==
  \/ \E s \in Stages, d \in Decisions : PostGate(t, s, d)
  \/ PostResumeReplay(t)
  \/ \E s \in Stages : PostResumeFailed(t, s)
  \/ \E s \in Stages : PostRetry(t, s)
  \/ \E s \in Stages : PatchArtifact(t, s)
  \/ Restart(t)

Next == Crash \/ \E t \in Slots : Step(t) \/ Request(t)

Spec == Init /\ [][Next]_vars

\* The event loop runs every task that is ready; the operator owes nothing.
FairSpec == Spec /\ \A t \in Slots : WF_vars(Step(t))

-----------------------------------------------------------------------------
(* Properties *)

TypeOK ==
  /\ row \in Row
  /\ ck \in Checkpoint
  /\ frames \in BOOLEAN
  /\ task \in [Slots -> Task]
  /\ registered \in Slots \cup {NoTask}

\* A run left complete is one whose checkpoint holds the approval of every
\* stage, each with its output: _consume's "stream reached END after final
\* approval".  (A retry rewrites the checkpoint before the row, so while its
\* handler is between the two the row still says complete.)
Approved(state) == \A s \in Stages : state.gates[s] = "approved" /\ state.out[s]
CompleteIsApproved == Quiet /\ row.status = "complete" => Approved(ck)

\* The next node is behind the approvals it needs: every earlier gate is
\* approved with its output there, and nothing later has an output, nor has
\* a stage about to run: a finished node is not executed again (FR-7).
Behind(state) ==
  state.at \in {"stage", "gate"} =>
    \A s \in Stages : /\ s < state.pos => state.gates[s] = "approved" /\ state.out[s]
                      /\ s > state.pos => ~state.out[s]
                      /\ s = state.pos /\ state.at = "stage" => ~state.out[s]
WorkIsBehindApprovals == Behind(ck)

\* When nothing runs, a row that asks for a decision names the gate the graph
\* is paused at, the artifact to decide on exists, and for images its files.
AskedIsPaused ==
  Quiet /\ row.status = "awaiting_approval" =>
    /\ ck.at = "gate" /\ ck.pos = row.current
    /\ row.gate[row.current] = "pending"
    /\ ck.out[row.current]
    /\ row.current = Image => frames

\* A settled run always leaves the operator a request the routes accept.
NeverStuck ==
  Quiet => \/ row.status = "complete"
           \/ \E s \in Stages : GateOpen(s) \/ CanRetry(s)
           \/ CanResume

\* An explicit redo of the image stage renders: the files of the rejected
\* attempt are never there to be found complete again.
RedoRenders ==
  \A t \in Slots :
    Running(t, "stage") /\ task[t].mem.pos = Image
      /\ task[t].mem.gates[Image] \in {"pending", "rejected"} => ~frames

\* A live driver is never joined by a second execution of the same thread.
OneDriver ==
  \A t, u \in Slots : task[t].pc \in Driving /\ task[u].pc \in Driving => t = u

\* A decision is consumed by the gate the operator acted on, at which the
\* graph is paused.
DecisionReachesItsGate ==
  \A t \in Slots :
    task[t].pc = "run" /\ task[t].dec # "none" =>
      task[t].mem.at = "gate" /\ task[t].mem.pos = task[t].stage

\* When a process died and no stage is marked failed, the last checkpoint is
\* a valid resume point: there is one, and at its end the run was approved.
OrphanIsResumable ==
  Quiet /\ row.status = "running" /\ FailedStages(row.gate) = {} =>
    /\ ck.at # "none"
    /\ ck.at = "end" => Approved(ck)

\* The row's gate_states project the checkpoint's: when nothing runs, every
\* gate behind the next node is shown approved.
RowProjectsApprovals ==
  Quiet /\ row.status \in {"awaiting_approval", "complete"} =>
    \A s \in Stages : ck.gates[s] = "approved" => row.gate[s] = "approved"

\* An approval is withdrawn only by a redo (retry or reject) of that stage
\* or an earlier one, or by a full restart.
ApprovalStands ==
  [][\A s \in Stages :
       ck.gates[s] = "approved" /\ ck'.gates[s] # "approved" =>
         \E t \in Slots :
           \/ task[t].pc \in {"g_update", "t_update"} /\ task[t].stage <= s
           \/ task[t].pc = "x_delete"]_vars

\* A stage leaves its output only on top of an approved stage before it, whose
\* output is still the approved one.
StageFollowsApproval ==
  [][\A s \in Stages \ {Scenario} :
       ck'.out[s] /\ ~ck.out[s] => ck.gates[s - 1] = "approved" /\ ck.out[s - 1]]_vars

\* A run that is being driven settles: it pauses at a gate, fails, completes.
\* And a decision is answered: an approval of the last gate completes the run,
\* an approval of another one, once accepted, brings the operator the next
\* gate or a failure.
Settles == row.status = "running" ~> row.status # "running"
AcceptedDecisionAnswered ==
  \A t \in Slots :
    task[t].pc = "g_running" ~> (Quiet /\ row.status # "running")
DriversFinish == Settles /\ AcceptedDecisionAnswered
=============================================================================
