----------------------------- MODULE MCRunService -----------------------------
(* Values of RunService's constants for TLC. *)
EXTENDS RunRefinement

Everything == {"gate", "resume", "retry", "edit", "restart"}

\* The operator of the web UI, see the README's client assumptions.
Disciplined == {"one_at_a_time", "current_gate", "current_edit", "retry_rejected"}
AnyFault == {"error", "raise"}

TextStages == {1, 4}
FirstStage == {1}

At_(pcs) == pcs \X (Decisions \cup {"none"})
\* The points of the code where losing the process loses no bookkeeping.
SafePoints ==
  At_(Pcs \ {"idle", "provision", "start", "t_row", "x_row", "failed1", "failed2", "await2",
             "mirror", "reject1", "g_update"})
    \ ({"load", "run"} \X {"rejected"})
=============================================================================
