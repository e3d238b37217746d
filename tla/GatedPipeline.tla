----------------------------- MODULE GatedPipeline -----------------------------
(***************************************************************************)
(* What a run promises its operator, without the database, the checkpoint  *)
(* or the tasks that deliver it: stages are worked on in order, each is    *)
(* reviewed before the next one starts, only a decision on the stage under *)
(* review moves the run, and going back to a stage withdraws the approval  *)
(* of that stage and of every later one.                                   *)
(***************************************************************************)
EXTENDS Naturals

CONSTANT N  \* number of stages

Stages == 1 .. N

VARIABLES
  phase,     \* "new", "work", "review", "stopped" (failed or rejected), "done"
  stage,     \* the stage worked on or under review
  approved,  \* the stages whose approval stands
  decision   \* the operator's decision that has not been acted on

vars == <<phase, stage, approved, decision>>

NoDecision == [stage |-> 0, says |-> "none"]

Init ==
  /\ phase = "new" /\ stage = 1 /\ approved = {} /\ decision = NoDecision

Begin ==
  /\ phase = "new"
  /\ phase' = "work" /\ stage' = 1
  /\ UNCHANGED <<approved, decision>>

\* A stage is executed with no decision outstanding.
Finish ==
  /\ phase = "work" /\ decision = NoDecision
  /\ phase' = "review"
  /\ UNCHANGED <<stage, approved, decision>>

Fail ==
  /\ phase = "work" /\ decision = NoDecision
  /\ phase' = "stopped"
  /\ UNCHANGED <<stage, approved, decision>>

\* The operator decides on what is under review, and on nothing else.
Decide(says) ==
  /\ phase = "review" /\ decision = NoDecision
  /\ decision' = [stage |-> stage, says |-> says]
  /\ UNCHANGED <<phase, stage, approved>>

Approve ==
  /\ phase = "review" /\ decision = [stage |-> stage, says |-> "approved"]
  /\ approved' = approved \cup {stage}
  /\ IF stage = N THEN phase' = "done" /\ UNCHANGED stage
                  ELSE phase' = "work" /\ stage' = stage + 1
  /\ decision' = NoDecision

\* A rejected first stage stops the run; any other is worked on again.
Reject ==
  /\ phase = "review" /\ decision = [stage |-> stage, says |-> "rejected"]
  /\ phase' = IF stage = 1 THEN "stopped" ELSE "work"
  /\ decision' = NoDecision
  /\ UNCHANGED <<stage, approved>>

\* A decision can be lost with the process; the stage stays under review.
Forget ==
  /\ phase = "review" /\ decision # NoDecision
  /\ decision' = NoDecision
  /\ UNCHANGED <<phase, stage, approved>>

GoBack(s) ==
  /\ phase # "new" /\ decision = NoDecision /\ s <= stage
  /\ phase' = "work" /\ stage' = s
  /\ approved' = {x \in approved : x < s}
  /\ UNCHANGED decision

StartOver ==
  /\ decision = NoDecision
  /\ phase' = "new" /\ stage' = 1 /\ approved' = {}
  /\ UNCHANGED decision

Next ==
  \/ Begin \/ Finish \/ Fail \/ Approve \/ Reject \/ Forget \/ StartOver
  \/ \E says \in {"approved", "rejected"} : Decide(says)
  \/ \E s \in Stages : GoBack(s)

Spec == Init /\ [][Next]_vars
=============================================================================
