----------------------------- MODULE Evaluation -----------------------------
(* The three judgements of what the pipeline makes: a run against its B     *)
(* variant, a prompt against the one in production, and frames against the  *)
(* sentences they illustrate.  They share no state that either changes, so  *)
(* a behaviour shows one of them.                                           *)
EXTENDS AbEvaluation, PromptPromotion, ShotScores

VARIABLE judged   \* which of them

allVars == <<vars, promptVars, sweepVars, judged>>

EvaluationInit ==
  /\ Init /\ PromotionInit /\ SweepInit
  /\ judged \in {"pairs", "prompts", "frames"}

EvaluationNext ==
  /\ UNCHANGED judged
  /\ \/ judged = "pairs" /\ Next /\ UNCHANGED <<promptVars, sweepVars>>
     \/ judged = "prompts" /\ PromotionNext /\ UNCHANGED <<vars, sweepVars>>
     \/ judged = "frames" /\ SweepNext /\ UNCHANGED <<vars, promptVars>>
EvaluationSpec == EvaluationInit /\ [][EvaluationNext]_allVars

(* No judgement says more than its evidence: the winner of a pair           *)
(* (AbEvaluation), the promotion of a prompt (PromptPromotion), the         *)
(* readability and the fidelity of a run's frames (ShotScores).             *)
JudgementIsEarned == VerdictIsEarned /\ PromotionIsEarned /\ SweepIsHonest
=============================================================================
