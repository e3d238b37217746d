----------------------------- MODULE RunRefinement -----------------------------
(***************************************************************************)
(* RunService keeps the promise of GatedPipeline.  The refinement mapping  *)
(* reads the phase, the stage and the standing approvals off the           *)
(* checkpoint, and the outstanding decision off the task that carries it.  *)
(***************************************************************************)
EXTENDS RunService

PhaseOf(state) ==
  CASE state.at = "none"  -> "new"
    [] state.at = "stage" -> "work"
    [] state.at = "gate"  -> "review"
    [] state.at = "end" /\ (state.err \/ state.gates[Scenario] = "rejected") -> "stopped"
    [] OTHER -> "done"

Carrying == {t \in Slots : task[t].dec # "none"}

Outstanding ==
  IF Carrying = {} THEN [stage |-> 0, says |-> "none"]
  ELSE LET t == CHOOSE t \in Carrying : TRUE
       IN  [stage |-> task[t].stage, says |-> task[t].dec]

Pipeline ==
  INSTANCE GatedPipeline WITH
    phase <- PhaseOf(ck), stage <- ck.pos,
    approved <- {s \in Stages : ck.gates[s] = "approved"},
    decision <- Outstanding

\* Every step of run_service, seen through the mapping, is a step of the
\* promise or changes nothing the operator was promised.
KeepsThePromise == Pipeline!Spec
=============================================================================
