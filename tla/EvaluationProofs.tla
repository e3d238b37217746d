-------------------------- MODULE EvaluationProofs --------------------------
(***************************************************************************)
(* Theorems about Evaluation: whose verdict a run's row and the comparison *)
(* page show, for any number of B variants, evaluations, retries, edits    *)
(* and crashes; and that no verdict, no promotion and no report of a sweep *)
(* says more than what it was made from.                                   *)
(***************************************************************************)
EXTENDS Evaluation, FiniteSetTheorems, WellFoundedInduction, TLAPS

Ended == {"refused", "failed", "done", "lost"}
Going == {"validate", "loadA", "loadB", "score", "compare"}
Spawned(e) == ev[e] # Unspawned

Scoring(x) == x = [pc |-> x.pc, b |-> x.b, raw |-> x.raw, of |-> x.of]

PairsTypeOK ==
  /\ status \in [Runs -> {"none", "running", "complete"}]
  /\ ck \in [Runs -> [n : Int, whole : BOOLEAN, scenes : BOOLEAN]]
  /\ post \in [Bs -> {"unsent", "reading", "done", "lost"}]
  /\ retry \in [Runs -> BOOLEAN]
  /\ ended \subseteq Runs
  /\ DOMAIN ev = Evals /\ ev = [e \in Evals |-> ev[e]]
  /\ \A e \in Evals : Spawned(e) => ev[e].b \in Bs /\ ev[e].pc \in Going \cup Ended
  /\ \A e \in Evals : ev[e].pc \in {"score", "compare"} => Scoring(ev[e])

\* An evaluation is of a B that there is, and they are spawned in order.
EvaluationsHold ==
  /\ \A e \in Evals : Spawned(e) => status[ev[e].b] # "none"
  /\ \A d, e \in Evals : d < e /\ Spawned(e) => Spawned(d)
  /\ \A r \in Runs : r \in ended \/ retry[r] => status[r] # "none"
  /\ \A b \in Bs : post[b] \in {"unsent", "reading"} => status[b] = "none"

\* A row's verdict is of a B that there is, and B's row has it too.
VerdictsHold ==
  /\ \A b \in Bs : ab[b] # NoVerdict => ab[b].b = b
  /\ ab["A"] # NoVerdict =>
       /\ ab["A"].b \in Bs /\ status[ab["A"].b] # "none"
       /\ ab[ab["A"].b] = ab["A"]

\* With an operator who waits: one retry at a time, of a run nothing is under
\* way with.
RetriesHold ==
  /\ \A q, r \in Runs : retry[q] /\ retry[r] => q = r
  /\ \A r \in Runs : retry[r] => status[r] = "complete"
  /\ \A r \in Runs : status[r] = "complete" /\ ~retry[r] => ck[r].whole
  /\ \A b \in Bs : post[b] = "reading" \/ status[b] = "running" \/ b \in ended => ~retry["A"]
  /\ \A b \in Bs : b \in ended => status[b] = "complete" /\ ~retry[b]

\* An evaluation has both runs to itself, and what it has read of them is whole.
EvaluatesWhole(e) ==
  InFlight(e) =>
    /\ Latest(e) /\ ev[e].b \notin ended
    /\ status[ev[e].b] = "complete" /\ ~retry[ev[e].b] /\ ~retry["A"]
    /\ ev[e].pc # "validate" => status["A"] = "complete"
    /\ ev[e].pc \notin {"validate", "loadA"} => ev[e].of.A.whole
    /\ ev[e].pc \in {"score", "compare"} => ev[e].of.B.whole

PatientVerdicts ==
  /\ \A b \in Bs : ab[b] # NoVerdict => ab[b].of.A.whole /\ ab[b].of.B.whole
  /\ \A e \in Evals : ev[e].pc = "done" /\ Latest(e) => ab[ev[e].b].of = ev[e].of

PairsInv ==
  /\ PairsTypeOK /\ EvaluationsHold /\ VerdictsHold
  /\ "impatient" \notin Operator =>
       RetriesHold /\ (\A e \in Evals : EvaluatesWhole(e)) /\ PatientVerdicts

LEMMA PairsBegin == Init => PairsInv
<1> SUFFICES ASSUME Init PROVE PairsInv
  OBVIOUS
<1> USE DEF Init, Spawned
<1>1. \A e \in Evals : ev[e] = Unspawned /\ ev[e].pc = "unspawned" /\ ~ InFlight(e)
  BY DEF Unspawned, InFlight
<1>2. PairsTypeOK
  <2>1. ck \in [Runs -> [n : Int, whole : BOOLEAN, scenes : BOOLEAN]]
    BY DEF NoVersion
  <2> QED  BY <1>1, <2>1, RunsKnown DEF PairsTypeOK, Runs
<1>3. EvaluationsHold /\ VerdictsHold
  BY <1>1, RunsKnown DEF EvaluationsHold, VerdictsHold, Runs
<1>4. RetriesHold /\ (\A e \in Evals : EvaluatesWhole(e)) /\ PatientVerdicts
  BY <1>1, RunsKnown DEF RetriesHold, EvaluatesWhole, PatientVerdicts, Runs
<1> QED  BY <1>2, <1>3, <1>4 DEF PairsInv

\* A step of the rows and checkpoints, which leaves evaluations and verdicts be.
LEMMA RowsMove ==
  ASSUME PairsInv, UNCHANGED <<ev, ab>>, PairsTypeOK',
         \A r \in Runs : status[r] # "none" => status'[r] # "none",
         \A r \in Runs : r \in ended' \/ retry'[r] => status'[r] # "none",
         \A b \in Bs : post'[b] \in {"unsent", "reading"} => status'[b] = "none",
         "impatient" \notin Operator =>
           /\ RetriesHold'
           /\ \A e \in Evals : InFlight(e) =>
                /\ ev[e].b \notin ended'
                /\ \A r \in {"A", ev[e].b} :
                     (status[r] = "complete" => status'[r] = "complete") /\ ~retry'[r]
  PROVE  PairsInv'
<1> USE DEF PairsInv
<1>1. \A e \in Evals : Spawned(e)' = Spawned(e) /\ InFlight(e)' = InFlight(e)
                       /\ Latest(e)' = Latest(e)
  BY DEF Spawned, InFlight, Latest
<1>2. EvaluationsHold'
  BY <1>1, RunsKnown DEF EvaluationsHold, PairsTypeOK, Runs
<1>3. VerdictsHold'
  BY DEF VerdictsHold, Runs
<1>4. ASSUME "impatient" \notin Operator, NEW e \in Evals PROVE EvaluatesWhole(e)'
  BY <1>1, <1>4 DEF EvaluatesWhole
<1>5. ASSUME "impatient" \notin Operator PROVE PatientVerdicts'
  BY <1>1, <1>5 DEF PatientVerdicts
<1> QED  BY <1>2, <1>3, <1>4, <1>5

LEMMA FlightIsOfTheB ==
  ASSUME PairsInv, NEW e \in Evals, InFlight(e)
  PROVE  ev[e].b \in Bs /\ Spawned(e) /\ ev[e].pc \in Going
<1>1. Spawned(e)
  BY DEF InFlight, Spawned, Unspawned
<1> QED  BY <1>1 DEF PairsInv, PairsTypeOK, InFlight, Going

LEMMA PostAbStep ==
  ASSUME PairsInv, NEW b \in Bs, PostAb(b) PROVE PairsInv'
<1> USE DEF PairsInv
<1>1. PairsTypeOK' /\ UNCHANGED <<ev, ab>>
  BY DEF PostAb, PairsTypeOK, Spawned, Scoring
<1>2. ASSUME "impatient" \notin Operator PROVE RetriesHold'
  BY <1>2 DEF PostAb, PairsTypeOK, RetriesHold, Runs
<1>3. /\ \A r \in Runs : status[r] # "none" => status'[r] # "none"
      /\ \A q \in Runs : q \in ended' \/ retry'[q] => status'[q] # "none"
      /\ \A c \in Bs : post'[c] \in {"unsent", "reading"} => status'[c] = "none"
  BY DEF PostAb, EvaluationsHold
<1>4. ASSUME "impatient" \notin Operator, NEW e \in Evals, InFlight(e)
      PROVE  /\ ev[e].b \notin ended'
             /\ \A r \in {"A", ev[e].b} :
                  (status[r] = "complete" => status'[r] = "complete") /\ ~retry'[r]
  BY <1>4 DEF PostAb, EvaluatesWhole
<1> QED  BY <1>1, <1>2, <1>3, <1>4, RowsMove

LEMMA InsertBStep ==
  ASSUME PairsInv, NEW b \in Bs, InsertB(b) PROVE PairsInv'
<1> USE DEF PairsInv
<1>0. status[b] = "none" /\ b # "A" /\ b \in Runs /\ "A" \in Runs
  BY RunsKnown DEF InsertB, EvaluationsHold, Runs
<1>1. PairsTypeOK' /\ UNCHANGED <<ev, ab>>
  BY <1>0 DEF InsertB, PairsTypeOK, Spawned, Scoring
<1>2. ASSUME "impatient" \notin Operator PROVE RetriesHold'
  <2>1. /\ post[b] = "reading" /\ retry' = retry /\ ck' = ck /\ ended' = ended
        /\ \A c \in Bs : post'[c] = IF c = b THEN "done" ELSE post[c]
        /\ \A q \in Runs : status'[q] = IF q = b THEN "running" ELSE status[q]
    BY DEF InsertB, PairsTypeOK, Runs
  <2>2. ~retry["A"] /\ ~retry[b] /\ b \notin ended
    BY <1>0, <1>2, <2>1 DEF RetriesHold
  <2>3. \A c \in Bs : c \in Runs
    BY DEF Runs
  <2> QED  BY <1>2, <2>1, <2>2, <2>3 DEF RetriesHold
<1>3. /\ \A r \in Runs : status[r] # "none" => status'[r] # "none"
      /\ \A q \in Runs : q \in ended' \/ retry'[q] => status'[q] # "none"
      /\ \A c \in Bs : post'[c] \in {"unsent", "reading"} => status'[c] = "none"
  BY <1>0 DEF InsertB, EvaluationsHold, PairsTypeOK, Runs
<1>4. ASSUME "impatient" \notin Operator, NEW e \in Evals, InFlight(e)
      PROVE  /\ ev[e].b \notin ended'
             /\ \A r \in {"A", ev[e].b} :
                  (status[r] = "complete" => status'[r] = "complete") /\ ~retry'[r]
  <2>1. ev[e].b # b /\ ev[e].b \in Runs
    BY <1>0, <1>4, FlightIsOfTheB DEF EvaluatesWhole, Runs
  <2> QED  BY <1>0, <1>4, <2>1 DEF InsertB, EvaluatesWhole, PairsTypeOK
<1> QED  BY <1>1, <1>2, <1>3, <1>4, RowsMove

LEMMA CompleteStep ==
  ASSUME PairsInv, NEW r \in Runs, Complete(r) PROVE PairsInv'
<1> USE DEF PairsInv
<1>1. PairsTypeOK' /\ UNCHANGED <<ev, ab>>
  <2>1. ck' \in [Runs -> [n : Int, whole : BOOLEAN, scenes : BOOLEAN]]
    BY DEF Complete, PairsTypeOK
  <2> QED  BY <2>1 DEF Complete, PairsTypeOK, Spawned, Scoring
<1>2. ASSUME "impatient" \notin Operator PROVE RetriesHold'
  <2>0. ~retry[r]
    BY <1>2 DEF Complete, RetriesHold
  <2>1. ck'[r].whole /\ \A q \in Runs : q # r => ck'[q] = ck[q]
    BY DEF Complete, PairsTypeOK
  <2> QED  BY <1>2, <2>0, <2>1 DEF Complete, PairsTypeOK, RetriesHold, Runs
<1>3. /\ \A q \in Runs : status[q] # "none" => status'[q] # "none"
      /\ \A q \in Runs : q \in ended' \/ retry'[q] => status'[q] # "none"
      /\ \A c \in Bs : post'[c] \in {"unsent", "reading"} => status'[c] = "none"
  BY DEF Complete, EvaluationsHold, PairsTypeOK, Runs
<1>4. ASSUME "impatient" \notin Operator, NEW e \in Evals, InFlight(e)
      PROVE  /\ ev[e].b \notin ended'
             /\ \A q \in {"A", ev[e].b} :
                  (status[q] = "complete" => status'[q] = "complete") /\ ~retry'[q]
  <2>1. ev[e].b \in Bs /\ ev[e].b \in Runs /\ "A" \in Runs
    BY <1>4, FlightIsOfTheB DEF Runs
  <2> QED  BY <1>4, <2>1 DEF Complete, EvaluatesWhole, PairsTypeOK
<1> QED  BY <1>1, <1>2, <1>3, <1>4, RowsMove

LEMMA RetryCheckpointStep ==
  ASSUME PairsInv, NEW r \in Runs, RetryCheckpoint(r) PROVE PairsInv'
<1> USE DEF PairsInv
<1>0. PICK scenes \in BOOLEAN : ck' = [ck EXCEPT ![r] = [n |-> @.n, whole |-> FALSE, scenes |-> scenes]]
  BY DEF RetryCheckpoint
<1>1. PairsTypeOK' /\ UNCHANGED <<ev, ab>>
  <2>1. ck' \in [Runs -> [n : Int, whole : BOOLEAN, scenes : BOOLEAN]]
    BY <1>0 DEF PairsTypeOK
  <2> QED  BY <2>1 DEF RetryCheckpoint, PairsTypeOK, Spawned, Scoring
<1>2. ASSUME "impatient" \notin Operator PROVE RetriesHold' /\ ~UnderWay(r)
  <2>1. ~UnderWay(r) /\ \A q \in Runs : ~retry[q]
    BY <1>2 DEF RetryCheckpoint, UnderWay
  <2>2. \A q \in Runs : (q # r => ck'[q] = ck[q]) /\ (retry'[q] <=> q = r)
    BY <1>0, <2>1 DEF RetryCheckpoint, PairsTypeOK
  <2>3. r = "A" => \A b \in Bs : post[b] # "reading" /\ status[b] # "running" /\ b \notin ended
    BY <2>1, RunsKnown DEF UnderWay
  <2>4. \A b \in Bs : b \in ended => b # r
    BY <2>1, RunsKnown DEF UnderWay
  <2>5. /\ status' = status /\ post' = post /\ ended' = ended /\ status[r] = "complete"
        /\ "A" \in Runs /\ \A c \in Bs : c \in Runs
    BY DEF RetryCheckpoint, Runs
  <2> QED  BY <1>2, <2>1, <2>2, <2>3, <2>4, <2>5 DEF RetriesHold
<1>3. /\ \A q \in Runs : status[q] # "none" => status'[q] # "none"
      /\ \A q \in Runs : q \in ended' \/ retry'[q] => status'[q] # "none"
      /\ \A c \in Bs : post'[c] \in {"unsent", "reading"} => status'[c] = "none"
  <2>1. UNCHANGED <<status, post, ended>> /\ status[r] = "complete"
        /\ \A q \in Runs : retry'[q] => retry[q] \/ q = r
    BY DEF RetryCheckpoint, PairsTypeOK
  <2> QED  BY <2>1 DEF EvaluationsHold
<1>4. ASSUME "impatient" \notin Operator, NEW e \in Evals, InFlight(e)
      PROVE  /\ ev[e].b \notin ended'
             /\ \A q \in {"A", ev[e].b} :
                  (status[q] = "complete" => status'[q] = "complete") /\ ~retry'[q]
  <2>1. r \notin {"A", ev[e].b}
    BY <1>2, <1>4 DEF UnderWay
  <2>2. ev[e].b \in Runs /\ "A" \in Runs
    BY <1>4, FlightIsOfTheB DEF Runs
  <2> QED  BY <1>4, <2>1, <2>2 DEF RetryCheckpoint, EvaluatesWhole, PairsTypeOK
<1> QED  BY <1>1, <1>2, <1>3, <1>4, RowsMove

LEMMA RetryRowStep ==
  ASSUME PairsInv, NEW r \in Runs, RetryRow(r) PROVE PairsInv'
<1> USE DEF PairsInv
<1>1. PairsTypeOK' /\ UNCHANGED <<ev, ab>>
  <2>1. retry' \in [Runs -> BOOLEAN]
    BY DEF RetryRow, PairsTypeOK
  <2>2. status' \in [Runs -> {"none", "running", "complete"}]
    BY DEF RetryRow, PairsTypeOK
  <2> QED  BY <2>1, <2>2 DEF RetryRow, PairsTypeOK, Spawned, Scoring
<1>2. ASSUME "impatient" \notin Operator PROVE RetriesHold'
  <2>1. \A q \in Runs : ~retry'[q]
    BY <1>2 DEF RetryRow, RetriesHold, PairsTypeOK
  <2>2. \A q \in Runs : q # r => status'[q] = status[q]
    BY DEF RetryRow, PairsTypeOK
  <2>3. \A b \in Bs : b \in ended => b # r
    BY <1>2 DEF RetryRow, RetriesHold
  <2>4. "A" \in Runs /\ status'[r] = "running"
    BY DEF Runs, RetryRow, PairsTypeOK
  <2>5. /\ ck' = ck /\ post' = post /\ ended' = ended /\ \A c \in Bs : c \in Runs
        /\ \A q \in Runs : q # r => ~retry[q]
    BY <1>2 DEF RetryRow, Runs, RetriesHold
  <2> QED  BY <1>2, <2>1, <2>2, <2>3, <2>4, <2>5 DEF RetriesHold
<1>3. /\ \A q \in Runs : status[q] # "none" => status'[q] # "none"
      /\ \A q \in Runs : q \in ended' \/ retry'[q] => status'[q] # "none"
  BY DEF RetryRow, EvaluationsHold, PairsTypeOK
<1>5. ASSUME NEW c \in Bs, post'[c] \in {"unsent", "reading"} PROVE status'[c] = "none"
  BY <1>5 DEF RetryRow, EvaluationsHold, PairsTypeOK
<1>4. ASSUME "impatient" \notin Operator, NEW e \in Evals, InFlight(e)
      PROVE  /\ ev[e].b \notin ended'
             /\ \A q \in {"A", ev[e].b} :
                  (status[q] = "complete" => status'[q] = "complete") /\ ~retry'[q]
  <2>1. r \notin {"A", ev[e].b}
    BY <1>4 DEF RetryRow, EvaluatesWhole
  <2>2. ev[e].b \in Runs /\ "A" \in Runs
    BY <1>4, FlightIsOfTheB DEF Runs
  <2> QED  BY <1>4, <2>1, <2>2 DEF RetryRow, EvaluatesWhole, PairsTypeOK
<1> QED  BY <1>1, <1>2, <1>3, <1>4, <1>5, RowsMove

LEMMA EditStep ==
  ASSUME PairsInv, NEW r \in Runs, Edit(r) PROVE PairsInv'
<1> USE DEF PairsInv
<1>0. /\ ck' \in [Runs -> [n : Int, whole : BOOLEAN, scenes : BOOLEAN]]
      /\ \A q \in Runs : ck'[q].whole = ck[q].whole
  BY DEF Edit, PairsTypeOK
<1>1. PairsTypeOK' /\ UNCHANGED <<ev, ab>>
  BY <1>0 DEF Edit, PairsTypeOK, Spawned, Scoring
<1>2. ASSUME "impatient" \notin Operator PROVE RetriesHold'
  BY <1>0, <1>2 DEF Edit, RetriesHold, Runs
<1>3. /\ \A q \in Runs : status[q] # "none" => status'[q] # "none"
      /\ \A q \in Runs : q \in ended' \/ retry'[q] => status'[q] # "none"
      /\ \A c \in Bs : post'[c] \in {"unsent", "reading"} => status'[c] = "none"
  BY DEF Edit, EvaluationsHold
<1>4. ASSUME "impatient" \notin Operator, NEW e \in Evals, InFlight(e)
      PROVE  /\ ev[e].b \notin ended'
             /\ \A q \in {"A", ev[e].b} :
                  (status[q] = "complete" => status'[q] = "complete") /\ ~retry'[q]
  BY <1>4 DEF Edit, EvaluatesWhole
<1> QED  BY <1>1, <1>2, <1>3, <1>4, RowsMove

\* The process dies outside a retry.
LEMMA CrashStep ==
  ASSUME PairsInv, "torn" \notin Faults, Crash PROVE PairsInv'
<1> USE DEF PairsInv
<1>0. /\ UNCHANGED <<status, ck, ab>> /\ ended' = {}
      /\ \A r \in Runs : ~retry[r] /\ ~retry'[r]
      /\ \A b \in Bs : post'[b] = IF post[b] = "reading" THEN "lost" ELSE post[b]
      /\ \A e \in Evals : ev'[e] = IF InFlight(e) THEN [pc |-> "lost", b |-> ev[e].b] ELSE ev[e]
  BY DEF Crash
<1>1. \A e \in Evals : /\ Spawned(e)' = Spawned(e) /\ ~InFlight(e)'
                       /\ ev'[e].pc = "done" => ev[e].pc = "done"
                       /\ Spawned(e) => ev'[e].b = ev[e].b /\ ev'[e].pc \in Ended
                       /\ ev'[e].pc = "done" => ev'[e] = ev[e]
  <2> SUFFICES ASSUME NEW e \in Evals
               PROVE  /\ Spawned(e)' = Spawned(e) /\ ~InFlight(e)'
                      /\ ev'[e].pc = "done" => ev[e].pc = "done"
                      /\ Spawned(e) => ev'[e].b = ev[e].b /\ ev'[e].pc \in Ended
                      /\ ev'[e].pc = "done" => ev'[e] = ev[e]
    OBVIOUS
  <2>1. CASE InFlight(e)
    <3> DEFINE t == [pc |-> "lost", b |-> ev[e].b]
    <3>1. ev'[e] = t /\ t.pc = "lost" /\ t.b = ev[e].b /\ Unspawned.pc = "unspawned"
      BY <1>0, <2>1 DEF Unspawned
    <3> HIDE DEF t
    <3> QED  BY <2>1, <3>1, FlightIsOfTheB DEF Spawned, InFlight, Ended
  <2>2. CASE ~InFlight(e)
    BY <1>0, <2>2 DEF PairsTypeOK, Spawned, InFlight, Ended, Going
  <2> QED  BY <2>1, <2>2
<1>2. PairsTypeOK'
  <2>1. /\ DOMAIN ev' = Evals /\ ev' = [e \in Evals |-> ev'[e]]
        /\ post' \in [Bs -> {"unsent", "reading", "done", "lost"}]
        /\ retry' \in [Runs -> BOOLEAN]
    BY DEF Crash, PairsTypeOK
  <2> QED  BY <1>0, <1>1, <2>1 DEF PairsTypeOK
<1>3. EvaluationsHold' /\ VerdictsHold'
  BY <1>0, <1>1 DEF EvaluationsHold, VerdictsHold
<1>4. ASSUME "impatient" \notin Operator PROVE RetriesHold' /\ \A e \in Evals : EvaluatesWhole(e)'
  BY <1>0, <1>1, <1>4 DEF RetriesHold, EvaluatesWhole, Runs
<1>5. ASSUME "impatient" \notin Operator PROVE PatientVerdicts'
  <2>1. \A e \in Evals : ev'[e].pc = "done" /\ Latest(e)' => Latest(e)
    BY <1>1 DEF Latest, Spawned
  <2> QED  BY <1>0, <1>1, <1>5, <2>1 DEF PatientVerdicts
<1> QED  BY <1>2, <1>3, <1>4, <1>5

\* The end of a driver is told, and the evaluation of a B spawned.
LEMMA TriggerStep ==
  ASSUME PairsInv, NEW r \in Runs, Trigger(r) PROVE PairsInv'
<1> USE DEF PairsInv
<1>0. /\ UNCHANGED <<status, ck, post, retry, ab>> /\ r \in ended /\ ended' = ended \ {r}
  BY DEF Trigger
<1>1. CASE r = "A"
  <2>1. PairsTypeOK' /\ UNCHANGED <<ev, ab>>
    BY <1>1 DEF Trigger, PairsTypeOK, Spawned, Scoring
  <2>2. "impatient" \notin Operator => RetriesHold'
    BY <1>0 DEF RetriesHold
  <2>3. /\ \A q \in Runs : q \in ended' \/ retry'[q] => status'[q] # "none"
        /\ \A c \in Bs : post'[c] \in {"unsent", "reading"} => status'[c] = "none"
    BY <1>0 DEF EvaluationsHold
  <2>4. ASSUME "impatient" \notin Operator, NEW e \in Evals, InFlight(e)
        PROVE  /\ ev[e].b \notin ended'
               /\ \A q \in {"A", ev[e].b} :
                    (status[q] = "complete" => status'[q] = "complete") /\ ~retry'[q]
    BY <1>0, <2>4 DEF EvaluatesWhole
  <2> QED  BY <1>0, <2>1, <2>2, <2>3, <2>4, RowsMove
<1>2. CASE r # "A"
  <2>0. r \in Bs
    BY <1>2 DEF Runs
  <2>1. PICK e \in Evals : /\ ev[e] = Unspawned /\ \A d \in Evals : d < e => ev[d] # Unspawned
                           /\ ev' = [ev EXCEPT ![e] = [pc |-> "validate", b |-> r]]
    BY <1>2 DEF Trigger
  <2> DEFINE t == [pc |-> "validate", b |-> r]
  <2>2. t # Unspawned /\ t.b = r /\ t.pc = "validate"
    <3>1. t.pc = "validate" /\ Unspawned.pc = "unspawned"
      BY DEF Unspawned
    <3> QED  BY <3>1
  <2>3. /\ ev'[e] = t /\ \A q \in Evals : q # e => ev'[q] = ev[q]
        /\ DOMAIN ev' = Evals /\ ev' = [q \in Evals |-> ev'[q]]
    BY <2>1 DEF PairsTypeOK
  <2> HIDE DEF t
  <2>4. /\ Spawned(e)' /\ ~Spawned(e) /\ \A q \in Evals : q # e => Spawned(q)' = Spawned(q)
        /\ \A q \in Evals : q > e => ~Spawned(q)
        /\ \A q \in Evals : q < e => Spawned(q)
    BY <2>1, <2>2, <2>3 DEF Spawned, EvaluationsHold
  <2>5. PairsTypeOK'
    BY <1>0, <2>0, <2>2, <2>3, <2>4 DEF PairsTypeOK, Going
  <2>6. EvaluationsHold'
    <3>1. \A q \in Evals : Spawned(q)' => status'[ev'[q].b] # "none"
      BY <1>0, <2>2, <2>3, <2>4 DEF EvaluationsHold
    <3>2. \A d, q \in Evals : d < q /\ Spawned(q)' => Spawned(d)'
      BY <2>4 DEF EvaluationsHold
    <3> QED  BY <1>0, <3>1, <3>2 DEF EvaluationsHold
  <2>7. VerdictsHold'
    BY <1>0 DEF VerdictsHold
  <2>8. \A q \in Evals : q # e /\ Latest(q)' => Latest(q)
    BY <2>1, <2>3 DEF Latest
  <2>9. ASSUME "impatient" \notin Operator PROVE RetriesHold' /\ PatientVerdicts'
    <3>1. RetriesHold'
      BY <1>0, <2>9 DEF RetriesHold
    <3>2. \A q \in Evals : ev'[q].pc = "done" /\ Latest(q)' => ab'[ev'[q].b].of = ev'[q].of
      BY <1>0, <2>2, <2>3, <2>8, <2>9 DEF PatientVerdicts
    <3> QED  BY <1>0, <2>9, <3>1, <3>2 DEF PatientVerdicts
  <2>10. ASSUME "impatient" \notin Operator, NEW q \in Evals PROVE EvaluatesWhole(q)'
    <3>1. CASE q = e
      <4>1. Latest(e)'
        BY <2>3, <2>4 DEF Latest, Spawned, Evals
      <4>2. status[r] = "complete" /\ ~retry[r] /\ ~retry["A"]
        BY <1>0, <2>0, <2>10 DEF RetriesHold
      <4> QED  BY <1>0, <2>2, <2>3, <3>1, <4>1, <4>2 DEF EvaluatesWhole, InFlight
    <3>2. CASE q # e
      <4>1. SUFFICES ASSUME InFlight(q) PROVE EvaluatesWhole(q)'
        BY <2>3, <3>2 DEF EvaluatesWhole, InFlight
      <4>2. EvaluatesWhole(q) /\ ev[q].b # r
        BY <1>0, <2>10, <4>1 DEF EvaluatesWhole
      <4>3. Latest(q)'
        BY <2>2, <2>3, <3>2, <4>1, <4>2 DEF Latest, EvaluatesWhole
      <4> QED  BY <1>0, <2>3, <3>2, <4>1, <4>2, <4>3 DEF EvaluatesWhole, InFlight
    <3> QED  BY <3>1, <3>2
  <2> QED  BY <2>5, <2>6, <2>7, <2>9, <2>10
<1> QED  BY <1>1, <1>2

\* What a step of an evaluation does to the evaluations.
EvaluationGoes(e, t) ==
  /\ ev'[e] = t /\ \A q \in Evals : q # e => ev'[q] = ev[q]
  /\ DOMAIN ev' = Evals /\ ev' = [q \in Evals |-> ev'[q]]

LEMMA EvaluationKept ==
  ASSUME PairsInv, NEW e \in Evals, InFlight(e), NEW t, EvaluationGoes(e, t),
         t.b = ev[e].b, t.pc \in Going \cup Ended
  PROVE  /\ \A q \in Evals : /\ Spawned(q)' = Spawned(q) /\ Latest(q)' = Latest(q)
                             /\ Spawned(q) => ev'[q].b = ev[q].b
                             /\ Spawned(q) => ev'[q].pc \in Going \cup Ended
         /\ Spawned(e) /\ ev[e].b \in Bs
<1>0. Spawned(e) /\ ev[e].b \in Bs
  BY FlightIsOfTheB
<1>1. t # Unspawned
  <2>1. Unspawned.pc = "unspawned"
    BY DEF Unspawned
  <2> QED  BY <2>1 DEF Going, Ended
<1>2. \A q \in Evals : /\ Spawned(q)' = Spawned(q)
                       /\ Spawned(q) => ev'[q].b = ev[q].b /\ ev'[q].pc \in Going \cup Ended
  BY <1>0, <1>1 DEF EvaluationGoes, Spawned, PairsInv, PairsTypeOK
<1>3. \A q \in Evals : Latest(q)' = Latest(q)
  <2> TAKE q \in Evals
  <2>1. ev'[q].b = ev[q].b \/ ~Spawned(q)
    BY <1>2
  <2>2. CASE Spawned(q)
    BY <1>2, <2>2 DEF Latest, Spawned
  <2>3. CASE ~Spawned(q)
    <3>1. \A d \in Evals : d > q => ~Spawned(d)
      BY <2>3 DEF PairsInv, EvaluationsHold, Evals
    <3> QED  BY <1>2, <3>1 DEF Latest, Spawned
  <2> QED  BY <2>2, <2>3
<1> QED  BY <1>0, <1>2, <1>3

\* A step of an evaluation that stores nothing.
LEMMA EvaluationStep ==
  ASSUME PairsInv, NEW e \in Evals, InFlight(e), NEW t, EvaluationGoes(e, t),
         UNCHANGED <<status, ck, post, retry, ended, ab>>,
         t.b = ev[e].b, t.pc \in Going \cup (Ended \ {"done"}),
         t.pc \in {"score", "compare"} => Scoring(t),
         "impatient" \notin Operator /\ t.pc \in Going =>
           /\ t.pc # "validate" => status["A"] = "complete"
           /\ t.pc \notin {"validate", "loadA"} => t.of.A.whole
           /\ t.pc \in {"score", "compare"} => t.of.B.whole
  PROVE  PairsInv'
<1> USE DEF PairsInv
<1>1. /\ \A q \in Evals : /\ Spawned(q)' = Spawned(q) /\ Latest(q)' = Latest(q)
                          /\ Spawned(q) => ev'[q].b = ev[q].b
                          /\ Spawned(q) => ev'[q].pc \in Going \cup Ended
      /\ Spawned(e) /\ ev[e].b \in Bs
  BY EvaluationKept
<1>2. /\ ev'[e] = t /\ \A q \in Evals : q # e => ev'[q] = ev[q]
      /\ DOMAIN ev' = Evals /\ ev' = [q \in Evals |-> ev'[q]]
  BY DEF EvaluationGoes
<1>3. PairsTypeOK'
  BY <1>1, <1>2 DEF PairsTypeOK
<1>4. EvaluationsHold'
  BY <1>1 DEF EvaluationsHold
<1>5. VerdictsHold'
  BY DEF VerdictsHold
<1>6. ASSUME "impatient" \notin Operator PROVE RetriesHold' /\ PatientVerdicts'
  <2>1. RetriesHold'
    BY <1>6 DEF RetriesHold
  <2>2. \A q \in Evals : ev'[q].pc = "done" => q # e
    BY <1>2 DEF Going
  <2> QED  BY <1>1, <1>2, <1>6, <2>1, <2>2 DEF PatientVerdicts
<1>7. ASSUME "impatient" \notin Operator, NEW q \in Evals PROVE EvaluatesWhole(q)'
  <2>1. CASE q = e
    <3>1. InFlight(e)' => t.pc \in Going
      BY <1>2 DEF InFlight, Going
    <3>2. /\ Latest(e) /\ ev[e].b \notin ended
          /\ status[ev[e].b] = "complete" /\ ~retry[ev[e].b] /\ ~retry["A"]
      BY <1>7 DEF EvaluatesWhole
    <3> QED  BY <1>1, <1>2, <1>7, <2>1, <3>1, <3>2 DEF EvaluatesWhole
  <2>2. CASE q # e
    BY <1>1, <1>2, <1>7, <2>2 DEF EvaluatesWhole, InFlight
  <2> QED  BY <2>1, <2>2
<1> QED  BY <1>3, <1>4, <1>5, <1>6, <1>7

LEMMA RaiseStep ==
  ASSUME PairsInv, NEW e \in Evals, InFlight(e),
         NEW why \in {"refused", "failed"}, Raise(e, why)
  PROVE  PairsInv'
<1> DEFINE t == [pc |-> why, b |-> ev[e].b]
<1>1. t.b = ev[e].b /\ t.pc = why
  OBVIOUS
<1>2. EvaluationGoes(e, t) /\ UNCHANGED <<status, ck, post, retry, ended, ab>>
  BY DEF Raise, EvaluationGoes, PairsInv, PairsTypeOK
<1> HIDE DEF t
<1> QED  BY <1>1, <1>2, EvaluationStep DEF Ended, Going

\* _validate_pair and the two readings.
LEMMA ReadStep ==
  ASSUME PairsInv, NEW e \in Evals, Validate(e) \/ LoadA(e) \/ LoadB(e)
  PROVE  PairsInv'
<1>0. InFlight(e)
  BY DEF Validate, LoadA, LoadB, InFlight
<1>1. ASSUME NEW why \in {"refused", "failed"}, Raise(e, why) PROVE PairsInv'
  BY <1>0, <1>1, RaiseStep
<1>2. ASSUME NEW t, Goes(e, t)
      PROVE  EvaluationGoes(e, t) /\ UNCHANGED <<status, ck, post, retry, ended, ab>>
  BY <1>2 DEF Goes, EvaluationGoes, PairsInv, PairsTypeOK
<1>3. "impatient" \notin Operator => RetriesHold /\ EvaluatesWhole(e)
  BY DEF PairsInv
<1>4. ck["A"].whole = ck["A"].whole /\ "A" \in Runs
  BY DEF Runs
<1>5. CASE Validate(e)
  <2>1. CASE BothComplete(e)
    <3> DEFINE t == [pc |-> "loadA", b |-> ev[e].b]
    <3>1. t.b = ev[e].b /\ t.pc = "loadA" /\ Goes(e, t) /\ status["A"] = "complete"
      BY <1>5, <2>1 DEF Validate, BothComplete
    <3>2. EvaluationGoes(e, t) /\ UNCHANGED <<status, ck, post, retry, ended, ab>>
      BY <1>2, <3>1
    <3> HIDE DEF t
    <3> QED  BY <1>0, <3>1, <3>2, EvaluationStep DEF Going
  <2>2. CASE ~BothComplete(e)
    BY <1>1, <1>5, <2>2 DEF Validate
  <2> QED  BY <2>1, <2>2
<1>6. CASE LoadA(e)
  <2>1. CASE ck["A"].scenes
    <3> DEFINE t == [pc |-> "loadB", b |-> ev[e].b, of |-> [A |-> ck["A"]]]
    <3>1. t.b = ev[e].b /\ t.pc = "loadB" /\ Goes(e, t) /\ t.of.A = ck["A"]
      BY <1>6, <2>1 DEF LoadA
    <3>2. EvaluationGoes(e, t) /\ UNCHANGED <<status, ck, post, retry, ended, ab>>
      BY <1>2, <3>1
    <3>3. ASSUME "impatient" \notin Operator
          PROVE  status["A"] = "complete" /\ ck["A"].whole
      <4>1. ev[e].pc # "validate"
        BY <1>6 DEF LoadA
      <4>2. status["A"] = "complete" /\ ~retry["A"]
        BY <1>0, <1>3, <3>3, <4>1 DEF EvaluatesWhole
      <4> QED  BY <1>3, <1>4, <3>3, <4>2 DEF RetriesHold
    <3> HIDE DEF t
    <3> QED  BY <1>0, <3>1, <3>2, <3>3, EvaluationStep DEF Going
  <2>2. CASE ~ck["A"].scenes
    BY <1>1, <1>6, <2>2 DEF LoadA
  <2> QED  BY <2>1, <2>2
<1>7. CASE LoadB(e)
  <2>1. CASE ck[ev[e].b].scenes
    <3> DEFINE t == [pc |-> "score", b |-> ev[e].b, raw |-> <<>>,
                     of |-> [A |-> ev[e].of.A, B |-> ck[ev[e].b]]]
    <3>1. /\ t.b = ev[e].b /\ t.pc = "score" /\ Goes(e, t)
          /\ t.of.A = ev[e].of.A /\ t.of.B = ck[ev[e].b] /\ Scoring(t)
      BY <1>7, <2>1 DEF LoadB, Scoring
    <3>2. EvaluationGoes(e, t) /\ UNCHANGED <<status, ck, post, retry, ended, ab>>
      BY <1>2, <3>1
    <3>3. ASSUME "impatient" \notin Operator
          PROVE  status["A"] = "complete" /\ ev[e].of.A.whole /\ ck[ev[e].b].whole
      <4>1. ev[e].pc \notin {"validate", "loadA"} /\ ev[e].b \in Runs
        BY <1>0, <1>7, FlightIsOfTheB DEF LoadB, Runs
      <4>2. /\ status["A"] = "complete" /\ ev[e].of.A.whole
            /\ status[ev[e].b] = "complete" /\ ~retry[ev[e].b]
        BY <1>0, <1>3, <3>3, <4>1 DEF EvaluatesWhole
      <4> QED  BY <1>3, <3>3, <4>1, <4>2 DEF RetriesHold
    <3> HIDE DEF t
    <3> QED  BY <1>0, <3>1, <3>2, <3>3, EvaluationStep DEF Going
  <2>2. CASE ~ck[ev[e].b].scenes
    BY <1>1, <1>7, <2>2 DEF LoadB
  <2> QED  BY <2>1, <2>2
<1> QED  BY <1>5, <1>6, <1>7

\* store_evaluation_results: the verdict goes to both rows.
LEMMA ConcludeStep ==
  ASSUME PairsInv, NEW e \in Evals, ev[e].pc \in {"score", "compare"},
         NEW low, NEW raw, Conclude(e, low, raw)
  PROVE  PairsInv'
<1> USE DEF PairsInv
<1>0. InFlight(e) /\ "A" \in Runs /\ \A b \in Bs : b \in Runs /\ b # "A"
  BY RunsKnown DEF InFlight, Runs
<1>1. PICK verdict :
        /\ verdict.b = ev[e].b /\ verdict.of = ev[e].of
        /\ ab' = [r \in Runs |-> IF r \in StoredIn(e) THEN verdict ELSE ab[r]]
  <2>1. PICK rd \in Readings :
          ab' = [r \in Runs |->
                  IF r \in StoredIn(e)
                  THEN [winner |-> DetermineWinner(low, PairwiseWinner(low, Heard(raw), rd), rd),
                        b |-> ev[e].b, of |-> ev[e].of]
                  ELSE ab[r]]
    BY DEF Conclude
  <2> DEFINE v == [winner |-> DetermineWinner(low, PairwiseWinner(low, Heard(raw), rd), rd),
                   b |-> ev[e].b, of |-> ev[e].of]
  <2>2. v.b = ev[e].b /\ v.of = ev[e].of
    OBVIOUS
  <2>3. ab' = [r \in Runs |-> IF r \in StoredIn(e) THEN v ELSE ab[r]]
    BY <2>1
  <2> HIDE DEF v
  <2> QED  BY <2>2, <2>3
<1> DEFINE t == [pc |-> "done", b |-> ev[e].b, of |-> ev[e].of]
<1>2. t.b = ev[e].b /\ t.pc = "done" /\ t.of = ev[e].of
  OBVIOUS
<1>3. EvaluationGoes(e, t) /\ UNCHANGED <<status, ck, post, retry, ended>>
  BY DEF Conclude, EvaluationGoes, PairsTypeOK
<1> HIDE DEF t
<1>4. /\ \A q \in Evals : /\ Spawned(q)' = Spawned(q) /\ Latest(q)' = Latest(q)
                          /\ Spawned(q) => ev'[q].b = ev[q].b
                          /\ Spawned(q) => ev'[q].pc \in Going \cup Ended
      /\ Spawned(e) /\ ev[e].b \in Bs
  BY <1>0, <1>2, <1>3, EvaluationKept DEF Ended
<1>5. /\ ev'[e] = t /\ \A q \in Evals : q # e => ev'[q] = ev[q]
      /\ DOMAIN ev' = Evals /\ ev' = [q \in Evals |-> ev'[q]]
  BY <1>3 DEF EvaluationGoes
<1>6. /\ ab'["A"] = verdict /\ ab'[ev[e].b] = verdict
      /\ \A b \in Bs : b # ev[e].b => ab'[b] = ab[b]
  BY <1>0, <1>1, <1>4 DEF StoredIn
<1>7. PairsTypeOK'
  BY <1>2, <1>3, <1>4, <1>5 DEF PairsTypeOK, Scoring
<1>8. EvaluationsHold'
  BY <1>3, <1>4 DEF EvaluationsHold
<1>9. VerdictsHold'
  BY <1>1, <1>3, <1>4, <1>6 DEF VerdictsHold, EvaluationsHold
<1>10. ASSUME "impatient" \notin Operator PROVE RetriesHold' /\ PatientVerdicts'
  <2>1. RetriesHold'
    BY <1>3, <1>10 DEF RetriesHold
  <2>2. Latest(e) /\ ev[e].of.A.whole /\ ev[e].of.B.whole
    BY <1>0, <1>10 DEF EvaluatesWhole
  <2>3. \A b \in Bs : ab'[b] # NoVerdict => ab'[b].of.A.whole /\ ab'[b].of.B.whole
    BY <1>1, <1>6, <1>10, <2>2 DEF PatientVerdicts
  <2>4. ASSUME NEW q \in Evals, ev'[q].pc = "done", Latest(q)'
        PROVE  ab'[ev'[q].b].of = ev'[q].of
    <3>1. CASE q = e
      BY <1>1, <1>2, <1>5, <1>6, <3>1
    <3>2. CASE q # e
      <4>1. ev'[q] = ev[q] /\ Latest(q) /\ ev[q].pc = "done"
        BY <1>4, <1>5, <2>4, <3>2
      <4>2. Spawned(q)
        BY <4>1 DEF Spawned, Unspawned
      <4>3. ev[q].b \in Bs
        BY <4>2 DEF PairsTypeOK
      <4>4. q < e \/ e < q
        BY <3>2, RunsKnown DEF Evals
      <4>5. ev[q].b # ev[e].b
        BY <1>4, <2>2, <4>1, <4>2, <4>4 DEF Latest, Spawned
      <4> QED  BY <1>6, <1>10, <4>1, <4>3, <4>5 DEF PatientVerdicts
    <3> QED  BY <3>1, <3>2
  <2> QED  BY <2>1, <2>3, <2>4 DEF PatientVerdicts
<1>11. ASSUME "impatient" \notin Operator, NEW q \in Evals PROVE EvaluatesWhole(q)'
  <2>1. CASE q = e
    BY <1>2, <1>5, <2>1 DEF EvaluatesWhole, InFlight
  <2>2. CASE q # e
    BY <1>3, <1>4, <1>5, <1>11, <2>2 DEF EvaluatesWhole, InFlight
  <2> QED  BY <2>1, <2>2
<1> QED  BY <1>7, <1>8, <1>9, <1>10, <1>11

\* The scoring of both runs, and the pairwise comparison.
LEMMA JudgeStep ==
  ASSUME PairsInv, NEW e \in Evals, Judge(e) \/ Compare(e) PROVE PairsInv'
<1>0. InFlight(e) /\ ev[e].pc \in {"score", "compare"}
  BY DEF Judge, Compare, InFlight
<1>1. CASE Raise(e, "failed")
  BY <1>0, <1>1, RaiseStep
<1>2. ASSUME NEW low, NEW raw, Conclude(e, low, raw) PROVE PairsInv'
  BY <1>0, <1>2, ConcludeStep
<1>3. ASSUME NEW t, Goes(e, t), t.b = ev[e].b, t.of = ev[e].of, t.pc = "compare", Scoring(t)
      PROVE  PairsInv'
  <2>1. EvaluationGoes(e, t) /\ UNCHANGED <<status, ck, post, retry, ended, ab>>
    BY <1>3 DEF Goes, EvaluationGoes, PairsInv, PairsTypeOK
  <2>2. "impatient" \notin Operator => EvaluatesWhole(e)
    BY DEF PairsInv
  <2>3. "impatient" \notin Operator =>
          status["A"] = "complete" /\ t.of.A.whole /\ t.of.B.whole
    BY <1>0, <1>3, <2>2 DEF EvaluatesWhole
  <2> QED  BY <1>0, <1>3, <2>1, <2>3, EvaluationStep DEF Going
<1>4. CASE Judge(e)
  <2>1. PICK scored \in [Sides -> RunOutcomes] :
          \/ Raise(e, "failed")
          \/ Conclude(e, {side \in Sides : scored[side] = "below"}, <<>>)
          \/ Goes(e, [ev[e] EXCEPT !.pc = "compare"])
    BY <1>4, Zenon DEF Judge
  <2> DEFINE t == [ev[e] EXCEPT !.pc = "compare"]
  <2>2. t.b = ev[e].b /\ t.of = ev[e].of /\ t.pc = "compare" /\ Scoring(t)
    BY <1>0 DEF PairsInv, PairsTypeOK, Scoring
  <2> HIDE DEF t
  <2>3. CASE Goes(e, t)
    BY <1>3, <2>2, <2>3
  <2> QED  BY <1>1, <1>2, <2>1, <2>3 DEF t
<1>5. CASE Compare(e)
  <2>1. CASE Raise(e, "failed")
    BY <1>1, <2>1
  <2>2. CASE \E answer \in Opinions : Conclude(e, {}, Append(ev[e].raw, answer))
    BY <1>2, <2>2
  <2>3. CASE \E answer \in Opinions :
               Goes(e, [ev[e] EXCEPT !.raw = Append(ev[e].raw, answer)])
    <3>1. PICK answer \in Opinions : Goes(e, [ev[e] EXCEPT !.raw = Append(ev[e].raw, answer)])
      BY <2>3
    <3> DEFINE more == Append(ev[e].raw, answer)
               t == [ev[e] EXCEPT !.raw = more]
    <3>2. Goes(e, t)
      BY <3>1
    <3> HIDE DEF more
    <3>3. t.b = ev[e].b /\ t.of = ev[e].of /\ t.pc = "compare" /\ Scoring(t)
      BY <1>0, <1>5 DEF PairsInv, PairsTypeOK, Scoring, Compare
    <3> HIDE DEF t
    <3> QED  BY <1>3, <3>2, <3>3
  <2>4. \/ Raise(e, "failed")
        \/ \E answer \in Opinions : Conclude(e, {}, Append(ev[e].raw, answer))
        \/ \E answer \in Opinions : Goes(e, [ev[e] EXCEPT !.raw = Append(ev[e].raw, answer)])
    <3>1. CASE \E answer \in Opinions :
                 IF Enough(Heard(Append(ev[e].raw, answer)))
                 THEN Conclude(e, {}, Append(ev[e].raw, answer))
                 ELSE Goes(e, [ev[e] EXCEPT !.raw = Append(ev[e].raw, answer)])
      BY <3>1, Zenon
    <3> QED  BY <1>5, <3>1, Zenon DEF Compare
  <2> QED  BY <2>1, <2>2, <2>3, <2>4
<1> QED  BY <1>4, <1>5

LEMMA PairsStep == PairsInv /\ "torn" \notin Faults /\ [Next]_vars => PairsInv'
<1> SUFFICES ASSUME PairsInv, "torn" \notin Faults, [Next]_vars PROVE PairsInv'
  OBVIOUS
<1>1. CASE \E b \in Bs : PostAb(b) \/ InsertB(b)
  BY <1>1, PostAbStep, InsertBStep
<1>2. CASE \E r \in Runs : Drives(r)
  BY <1>2, CompleteStep, TriggerStep, RetryRowStep DEF Drives
<1>3. CASE \E r \in Runs : RetryCheckpoint(r) \/ Edit(r)
  BY <1>3, RetryCheckpointStep, EditStep
<1>4. CASE \E e \in Evals : Evaluates(e)
  BY <1>4, ReadStep, JudgeStep DEF Evaluates
<1>5. CASE Crash
  BY <1>5, CrashStep
<1>6. CASE UNCHANGED vars
  <2>1. UNCHANGED <<status, ck, post, retry, ended, ev, ab>>
    BY <1>6 DEF vars
  <2> QED
    BY <2>1 DEF PairsInv, PairsTypeOK, EvaluationsHold, VerdictsHold, RetriesHold,
       EvaluatesWhole, PatientVerdicts, Spawned, Scoring, InFlight, Latest
<1> QED  BY <1>1, <1>2, <1>3, <1>4, <1>5, <1>6 DEF Next

LEMMA PairsEnd == PairsInv => VerdictIsOfThisPair
<1> SUFFICES ASSUME PairsInv PROVE VerdictIsOfThisPair
  OBVIOUS
<1>1. /\ \A b \in Bs : ab[b] # NoVerdict => ab[b].b = b
      /\ ab["A"] # NoVerdict => ab[ab["A"].b] = ab["A"]
  BY DEF PairsInv, VerdictsHold
<1>2. \A b \in Bs : Shown(b) # NoVerdict /\ (\A c \in Bs \ {b} : status[c] = "none") =>
        Shown(b) = ab[b]
  BY DEF PairsInv, VerdictsHold, Shown
<1>3. "impatient" \notin Operator => PatientVerdicts
  BY DEF PairsInv
<1> QED  BY <1>1, <1>2, <1>3 DEF VerdictIsOfThisPair, PatientVerdicts

(* A B's row shows the verdict of this B, and its source's row that of one  *)
(* of its Bs; what the verdict of an unhurried operator is of was whole     *)
(* when it was read, and it is the latest.  evaluate_ab, its two stores and *)
(* the comparison page, for any number of Bs, evaluations, retries and      *)
(* edits, and any crash that is not inside a retry.                         *)
THEOREM VerdictStaysWithItsPair ==
  "torn" \notin Faults => (EvaluationSpec => []VerdictIsOfThisPair)
<1> SUFFICES ASSUME "torn" \notin Faults PROVE EvaluationSpec => []VerdictIsOfThisPair
  OBVIOUS
<1>1. EvaluationInit => PairsInv
  BY PairsBegin DEF EvaluationInit
<1>2. PairsInv /\ [EvaluationNext]_allVars => PairsInv'
  <2>1. [EvaluationNext]_allVars => [Next]_vars
    BY DEF EvaluationNext, allVars
  <2> QED  BY <2>1, PairsStep
<1> QED  BY <1>1, <1>2, PairsEnd, PTL DEF EvaluationSpec

-----------------------------------------------------------------------------
(* Naturals: the least and the greatest of a set, and what holds of the     *)
(* first and goes from each to the next.                                    *)

LEMMA NaturalsAreOrdered ==
  \E R : /\ IsWellFoundedOn(R, Nat)
         /\ \A x, y \in Nat : <<x, y>> \in R <=> x < y
<1>1. IsWellFoundedOn(OpToRel(<, Nat), Nat)
  BY NatLessThanWellFounded
<1>2. \A x, y \in Nat : <<x, y>> \in OpToRel(<, Nat) <=> x < y
  BY DEF OpToRel
<1> QED  BY <1>1, <1>2, Zenon

LEMMA LeastIsThere ==
  ASSUME NEW S \in SUBSET Nat, S # {}
  PROVE  \E x \in S : \A y \in S : x <= y
<1>1. PICK R : IsWellFoundedOn(R, Nat) /\ \A x, y \in Nat : <<x, y>> \in R <=> x < y
  BY NaturalsAreOrdered, Zenon
<1>0. IsWellFoundedOn(R, Nat) /\ S \subseteq Nat
  BY <1>1
<1>2. PICK x \in S : \A y \in S : ~ (<<y, x>> \in R)
  BY <1>0, WFMin, Zenon
<1>3. ASSUME NEW y \in S PROVE x <= y
  <2>1. x \in Nat /\ y \in Nat
    OBVIOUS
  <2>2. ~ (y < x)
    BY <2>1, <1>1, <1>2
  <2> QED  BY <2>1, <2>2
<1> QED  BY <1>3, Zenon

LEMMA GreatestIsThere ==
  ASSUME NEW n \in Nat, NEW S \in SUBSET (0 .. n), S # {}
  PROVE  \E x \in S : \A y \in S : x >= y
<1> DEFINE T == {n - x : x \in S}
<1>1. T \in SUBSET Nat /\ T # {}
  <2>1. \A x \in S : x \in 0 .. n /\ n - x \in Nat
    OBVIOUS
  <2> QED  BY <2>1
<1>2. PICK t \in T : \A u \in T : t <= u
  BY <1>1, LeastIsThere
<1>3. PICK x \in S : t = n - x
  BY <1>2
<1>4. ASSUME NEW y \in S  PROVE x >= y
  <2>1. n - y \in T /\ y \in 0 .. n /\ x \in 0 .. n
    OBVIOUS
  <2>2. n - x <= n - y
    BY <1>2, <1>3, <2>1
  <2> QED  BY <2>1, <2>2
<1> QED  BY <1>4

LEMMA FromEachToTheNext ==
  ASSUME NEW n \in Nat, NEW P, 0 \in P, \A i \in 1 .. n : i - 1 \in P => i \in P
  PROVE  \A i \in 0 .. n : i \in P
<1> DEFINE open == {i \in 0 .. n : i \notin P}
<1>1. SUFFICES ASSUME open # {}  PROVE FALSE
  OBVIOUS
<1>2. PICK least \in open : \A i \in open : least <= i
  <2>1. open \in SUBSET Nat
    OBVIOUS
  <2> HIDE DEF open
  <2> QED  BY <1>1, <2>1, LeastIsThere
<1>3. least \in 1 .. n
  BY <1>2
<1>4. least - 1 \in 0 .. n /\ least - 1 \notin open
  BY <1>2, <1>3
<1> QED  BY <1>2, <1>3, <1>4

-----------------------------------------------------------------------------
(* What a verdict is earned by.                                             *)

Swap(x) == IF x \in Sides THEN Other(x) ELSE x
Turned(rd) == [side \in Sides |-> rd[Other(side)]]

LEMMA OthersAre ==
  ASSUME NEW side \in Sides
  PROVE  Other(side) \in Sides /\ Other(side) # side /\ Other(Other(side)) = side
         /\ \A x \in Sides : x = side \/ x = Other(side)
BY DEF Sides, Other

LEMMA DecidedAlike ==
  ASSUME NEW rd \in Readings, NEW i \in DOMAIN Chain
  PROVE  Decides(Turned(rd), i) <=> Decides(rd, i)
<1> DEFINE a == rd["A"][Chain[i].key]
           b == rd["B"][Chain[i].key]
           c == Turned(rd)["A"][Chain[i].key]
           d == Turned(rd)["B"][Chain[i].key]
<1>1. a \in Nat \cup {Unmeasured} /\ b \in Nat \cup {Unmeasured}
  BY MetricsKnown DEF Sides
<1>2. c = b /\ d = a
  BY DEF Turned, Sides, Other
<1>3. Distance(a, b) = Distance(b, a)
  <2> HIDE DEF a, b, c, d
  <2> QED  BY <1>1 DEF Distance, Unmeasured
<1>4. Decides(rd, i) <=> a # Unmeasured /\ b # Unmeasured /\ Distance(a, b) > Chain[i].eps
  BY DEF Decides
<1>5. Decides(Turned(rd), i) <=> c # Unmeasured /\ d # Unmeasured /\ Distance(c, d) > Chain[i].eps
  BY DEF Decides
<1> HIDE DEF a, b, c, d
<1> QED  BY <1>2, <1>3, <1>4, <1>5

\* The metrics name a run only by one that both have, and the other one when
\* the pair is called the other way round.
ByMetric(rd, side) ==
  \E i \in DOMAIN Chain :
    LET mine == rd[side][Chain[i].key]
        others == rd[Other(side)][Chain[i].key]
    IN /\ Unmeasured \notin {mine, others}
       /\ IF Chain[i].higher THEN mine > others + Chain[i].eps ELSE mine < others - Chain[i].eps

LEMMA TiebreakIs ==
  ASSUME NEW rd \in Readings
  PROVE  /\ RuleTiebreak(rd) \in Sides \cup {"tie"}
         /\ \A side \in Sides : RuleTiebreak(rd) = side => ByMetric(rd, side)
         /\ RuleTiebreak(Turned(rd)) = Swap(RuleTiebreak(rd))
<1> DEFINE deciding == {i \in DOMAIN Chain : Decides(rd, i)}
           turned == {i \in DOMAIN Chain : Decides(Turned(rd), i)}
           first == CHOOSE i \in deciding : \A j \in deciding : i <= j
<1>1. turned = deciding
  BY DecidedAlike
<1>2. RuleTiebreak(rd) = IF deciding = {} THEN "tie"
        ELSE IF (rd["A"][Chain[first].key] > rd["B"][Chain[first].key]) = Chain[first].higher
             THEN "A" ELSE "B"
  BY DEF RuleTiebreak
<1>3. RuleTiebreak(Turned(rd)) = IF deciding = {} THEN "tie"
        ELSE IF (Turned(rd)["A"][Chain[first].key] > Turned(rd)["B"][Chain[first].key])
                  = Chain[first].higher
             THEN "A" ELSE "B"
  <2> DEFINE other == CHOOSE i \in turned : \A j \in turned : i <= j
  <2>1. RuleTiebreak(Turned(rd)) = IF turned = {} THEN "tie"
        ELSE IF (Turned(rd)["A"][Chain[other].key] > Turned(rd)["B"][Chain[other].key])
                  = Chain[other].higher
             THEN "A" ELSE "B"
    BY DEF RuleTiebreak
  <2> HIDE DEF turned, deciding
  <2>2. other = first
    BY <1>1
  <2> HIDE DEF other, first
  <2> QED  BY <1>1, <2>1, <2>2
<1>4. CASE deciding = {}
  <2>1. RuleTiebreak(rd) = "tie" /\ RuleTiebreak(Turned(rd)) = "tie"
    BY <1>2, <1>3, <1>4
  <2> QED  BY <2>1 DEF Sides, Swap
<1>5. CASE deciding # {}
  <2>1. deciding \in SUBSET Nat /\ deciding \subseteq DOMAIN Chain
    BY MetricsKnown
  <2>2. \E i \in deciding : \A j \in deciding : i <= j
    <3> HIDE DEF deciding
    <3> QED  BY <1>5, <2>1, LeastIsThere
  <2>3. first \in deciding
    BY <2>2, Zenon
  <2>4. Decides(rd, first) /\ first \in DOMAIN Chain
    BY <2>3
  <2> DEFINE a == rd["A"][Chain[first].key]
             b == rd["B"][Chain[first].key]
  <2> HIDE DEF first, deciding
  <2>5. /\ a \in Nat \cup {Unmeasured} /\ b \in Nat \cup {Unmeasured}
        /\ Chain[first].eps \in Nat /\ Chain[first].higher \in BOOLEAN
    <3>1. Chain[first] \in [key : STRING, higher : BOOLEAN, eps : Nat]
      <4> DEFINE Metric == [key : STRING, higher : BOOLEAN, eps : Nat]
      <4>1. Chain \in Seq(Metric) /\ first \in DOMAIN Chain
        BY <2>4, MetricsKnown
      <4> HIDE DEF Metric
      <4>2. Chain[first] \in Metric
        BY <4>1
      <4> QED  BY <4>2 DEF Metric
    <3>2. \A side \in Sides : rd[side][Chain[first].key] \in Nat \cup {Unmeasured}
      BY <2>4, MetricsKnown
    <3> QED  BY <3>1, <3>2 DEF Sides
  <2>6. a # Unmeasured /\ b # Unmeasured /\ Distance(a, b) > Chain[first].eps
    BY <2>4 DEF Decides
  <2>7. Turned(rd)["A"] = rd["B"] /\ Turned(rd)["B"] = rd["A"]
    BY DEF Turned, Sides, Other
  <2> DEFINE eps == Chain[first].eps
             higher == Chain[first].higher
             here == RuleTiebreak(rd)
             there == RuleTiebreak(Turned(rd))
  <2>8. here = IF (a > b) = higher THEN "A" ELSE "B"
    BY <1>2, <1>5
  <2>9. there = IF (b > a) = higher THEN "A" ELSE "B"
    BY <1>3, <1>5, <2>7
  <2>10. ByMetric(rd, "A") <=> \E i \in DOMAIN Chain :
           /\ Unmeasured \notin {rd["A"][Chain[i].key], rd["B"][Chain[i].key]}
           /\ IF Chain[i].higher THEN rd["A"][Chain[i].key] > rd["B"][Chain[i].key] + Chain[i].eps
              ELSE rd["A"][Chain[i].key] < rd["B"][Chain[i].key] - Chain[i].eps
    BY DEF ByMetric, Other
  <2>11. ByMetric(rd, "B") <=> \E i \in DOMAIN Chain :
           /\ Unmeasured \notin {rd["B"][Chain[i].key], rd["A"][Chain[i].key]}
           /\ IF Chain[i].higher THEN rd["B"][Chain[i].key] > rd["A"][Chain[i].key] + Chain[i].eps
              ELSE rd["B"][Chain[i].key] < rd["A"][Chain[i].key] - Chain[i].eps
    BY DEF ByMetric, Other
  <2>12. (IF higher THEN a > b + eps ELSE a < b - eps) => ByMetric(rd, "A")
    BY <2>4, <2>6, <2>10
  <2>13. (IF higher THEN b > a + eps ELSE b < a - eps) => ByMetric(rd, "B")
    BY <2>4, <2>6, <2>11
  <2> HIDE DEF a, b, eps, higher, here, there
  <2>14. a \in Nat /\ b \in Nat /\ eps \in Nat /\ higher \in BOOLEAN /\ Distance(a, b) > eps
    BY <2>5, <2>6 DEF eps, higher
  <2>15. a > b + eps \/ b > a + eps
    BY <2>14 DEF Distance
  <2>16. CASE (a > b) = higher
    <3>1. here = "A" /\ there = "B"
      BY <2>8, <2>9, <2>14, <2>15, <2>16
    <3>2. IF higher THEN a > b + eps ELSE a < b - eps
      BY <2>14, <2>15, <2>16
    <3> QED  BY <2>12, <3>1, <3>2 DEF Sides, Swap, Other, here, there
  <2>17. CASE (a > b) # higher
    <3>1. here = "B" /\ there = "A"
      BY <2>8, <2>9, <2>14, <2>15, <2>17
    <3>2. IF higher THEN b > a + eps ELSE b < a - eps
      BY <2>14, <2>15, <2>17
    <3> QED  BY <2>13, <3>1, <3>2 DEF Sides, Swap, Other, here, there
  <2> QED  BY <2>16, <2>17
<1> QED  BY <1>4, <1>5

\* Of the calls that come first, those that are alike are enough.
AskedSoFar(raw) ==
  /\ raw \in Seq(Opinions) /\ Len(raw) <= 2
  /\ Len(raw) = 2 => Heard(raw)[1] # Heard(raw)[2]
Settles(raw) ==
  /\ raw \in Seq(Opinions) /\ Len(raw) \in 2 .. 3
  /\ Len(raw) = 2 => Heard(raw)[1] = Heard(raw)[2]
  /\ Len(raw) = 3 => Heard(raw)[1] # Heard(raw)[2]

LEMMA HeardIs ==
  ASSUME NEW raw \in Seq(Opinions)
  PROVE  /\ Len(Heard(raw)) = Len(raw) /\ DOMAIN Heard(raw) = 1 .. Len(raw)
         /\ \A i \in 1 .. Len(raw) : /\ Heard(raw)[i] = Prefers(i, raw[i])
                                     /\ Heard(raw)[i] \in Sides \cup {"tie"}
                                     /\ raw[i] \in Opinions
<1>1. DOMAIN Heard(raw) = 1 .. Len(raw) /\ \A i \in 1 .. Len(raw) : Heard(raw)[i] = Prefers(i, raw[i])
  BY DEF Heard
<1>2. \A i \in 1 .. Len(raw) : raw[i] \in Opinions /\ Prefers(i, raw[i]) \in Sides \cup {"tie"}
  BY DEF Opinions, Prefers, Sides
<1>3. Len(Heard(raw)) = Len(raw)
  BY DEF Heard
<1> QED  BY <1>1, <1>2, <1>3

LEMMA OneMoreAsked ==
  ASSUME NEW raw, AskedSoFar(raw), NEW answer \in Opinions, NEW now, now = Append(raw, answer)
  PROVE  IF Enough(Heard(now)) THEN Settles(now) ELSE AskedSoFar(now)
<1>1. /\ now \in Seq(Opinions) /\ Len(now) = Len(raw) + 1 /\ Len(raw) \in 0 .. 2
      /\ \A i \in 1 .. Len(raw) : now[i] = raw[i]
  <2>1. raw \in Seq(Opinions) /\ Len(raw) <= 2
    BY DEF AskedSoFar
  <2>2. now \in Seq(Opinions) /\ Len(now) = Len(raw) + 1 /\ Len(raw) \in Nat
    BY <2>1
  <2>3. \A i \in 1 .. Len(raw) : now[i] = raw[i]
    BY <2>1
  <2> DEFINE n == Len(raw)
  <2>4. n \in Nat /\ n <= 2
    BY <2>1, <2>2
  <2> HIDE DEF n
  <2>5. n \in 0 .. 2
    BY <2>4
  <2> QED  BY <2>2, <2>3, <2>5 DEF n
<1>2. /\ Len(Heard(now)) = Len(now) /\ \A i \in 1 .. Len(now) : Heard(now)[i] = Prefers(i, now[i])
      /\ \A i \in 1 .. Len(raw) : Heard(raw)[i] = Prefers(i, raw[i])
  BY <1>1, HeardIs DEF AskedSoFar
<1>3. Len(raw) = 2 => Heard(now)[1] # Heard(now)[2]
  BY <1>1, <1>2 DEF AskedSoFar
<1>4. Enough(Heard(now)) <=> Len(now) = 3 \/ (Len(now) = 2 /\ Heard(now)[1] = Heard(now)[2])
  BY <1>2 DEF Enough
<1> QED  BY <1>1, <1>3, <1>4 DEF Settles, AskedSoFar

LEMMA VotesAre ==
  ASSUME NEW v, NEW n \in 2 .. 3, DOMAIN v.heard = 1 .. n, NEW side \in Sides,
         v.heard[n] = side, n = 2 => v.heard[1] = side, n = 3 => v.heard[1] # v.heard[2]
  PROVE  Votes(v, side) > 0 /\ Votes(v, side) >= Votes(v, Other(side))
<1> DEFINE mine == {i \in DOMAIN v.heard : v.heard[i] = side}
           others == {i \in DOMAIN v.heard : v.heard[i] = Other(side)}
<1>1. Votes(v, side) = Cardinality(mine) /\ Votes(v, Other(side)) = Cardinality(others)
  BY DEF Votes
<1>2. IsFiniteSet(1 .. n) /\ mine \subseteq 1 .. n /\ n \in mine
  BY FS_Interval
<1>3. \E i \in 1 .. 2 : others \subseteq {i}
  <2>1. n \notin others
    BY OthersAre
  <2>2. CASE n = 2
    BY <2>1, <2>2, OthersAre
  <2>3. CASE n = 3
    <3>1. 1 \notin others \/ 2 \notin others
      BY <2>3
    <3> QED  BY <2>1, <2>3, <3>1
  <2> QED  BY <2>2, <2>3
<1> HIDE DEF mine, others
<1>4. IsFiniteSet(mine) /\ Cardinality(mine) \in Nat /\ Cardinality(mine) # 0
  BY <1>2, FS_Subset, FS_CardinalityType, FS_EmptySet
<1>5. IsFiniteSet(others) /\ Cardinality(others) \in Nat /\ Cardinality(others) <= 1
  <2>1. PICK i \in 1 .. 2 : others \subseteq {i}
    BY <1>3
  <2>2. IsFiniteSet({i}) /\ Cardinality({i}) = 1
    BY FS_Singleton
  <2> QED  BY <2>1, <2>2, FS_Subset, FS_CardinalityType
<1> QED  BY <1>1, <1>4, <1>5

\* What a judge of the pair says, once he is asked no more.
LEMMA JudgeSays ==
  ASSUME NEW raw, Settles(raw), NEW rd \in Readings, NEW heard, heard = Heard(raw),
         NEW last, last = heard[Len(heard)], NEW winner, winner = DetermineWinner({}, PairwiseWinner({}, heard, rd), rd)
  PROVE  /\ last \in Sides \cup {"tie"}
         /\ winner = IF last # "tie" THEN last ELSE RuleTiebreak(rd)
         /\ winner \in Sides \cup {"tie"}
         /\ Resolved({}, PairwiseWinner({}, heard, rd)) = winner
<1>1. last \in Sides \cup {"tie"}
  <2>1. raw \in Seq(Opinions) /\ Len(raw) \in 2 .. 3
    BY DEF Settles
  <2> QED  BY <2>1, HeardIs
<1>2. RuleTiebreak(rd) \in Sides \cup {"tie"}
  BY TiebreakIs
<1> DEFINE final == PairwiseWinner({}, heard, rd)
<1>3. final = IF last # "tie" THEN last ELSE RuleTiebreak(rd)
  BY DEF PairwiseWinner, Final, Sides
<1>4. winner = IF final \in Sides THEN final ELSE RuleTiebreak(rd)
  BY DEF DetermineWinner, Majority, Sides
<1>5. Resolved({}, final) = IF final \in Sides THEN final ELSE "tie"
  BY DEF Resolved, Sides
<1> HIDE DEF final
<1>6. winner = final /\ Resolved({}, final) = final
  BY <1>1, <1>2, <1>3, <1>4, <1>5 DEF Sides
<1> QED  BY <1>1, <1>2, <1>3, <1>6 DEF final

LEMMA SettledIsEarned ==
  ASSUME NEW raw, Settles(raw), NEW rd \in Readings, NEW v, v.low = {}, v.raw = raw, v.heard = Heard(raw),
         v.rd = rd, v.winner = DetermineWinner({}, PairwiseWinner({}, Heard(raw), rd), rd)
  PROVE  Earned(v)
<1> DEFINE heard == Heard(raw)
           n == Len(raw)
           last == heard[n]
           winner == v.winner
<1>1. raw \in Seq(Opinions) /\ n \in 2 .. 3 /\ (n = 2 => heard[1] = heard[2]) /\ (n = 3 => heard[1] # heard[2])
  BY DEF Settles
<1>2. /\ Len(heard) = n /\ DOMAIN heard = 1 .. n
      /\ \A i \in 1 .. n : heard[i] = Prefers(i, raw[i]) /\ heard[i] \in Sides \cup {"tie"}
  BY <1>1, HeardIs
<1>3. /\ last \in Sides \cup {"tie"} /\ winner \in Sides \cup {"tie"}
      /\ winner = IF last # "tie" THEN last ELSE RuleTiebreak(rd)
  <2> DEFINE all == heard
             end == all[Len(all)]
  <2>1. all = Heard(raw) /\ winner = DetermineWinner({}, PairwiseWinner({}, all, rd), rd) /\ end = last
    BY <1>2
  <2> HIDE DEF all, winner, last
  <2>2. /\ end \in Sides \cup {"tie"} /\ winner \in Sides \cup {"tie"}
        /\ winner = IF end # "tie" THEN end ELSE RuleTiebreak(rd)
    BY <2>1, JudgeSays
  <2> QED  BY <2>1, <2>2
<1>4. ASSUME NEW side \in Sides, winner = side
      PROVE  WinsByMetric(v, side) \/ (Votes(v, side) > 0 /\ Votes(v, side) >= Votes(v, Other(side)))
  <2>1. CASE last = "tie"
    <3>1. ByMetric(rd, side)
      BY <1>3, <1>4, <2>1, TiebreakIs
    <3> QED  BY <3>1 DEF ByMetric, WinsByMetric
  <2>2. CASE last # "tie"
    <3>1. last = side
      BY <1>3, <1>4, <2>2
    <3>2. DOMAIN v.heard = 1 .. n /\ v.heard[n] = side
      BY <1>2, <3>1
    <3>3. (n = 2 => v.heard[1] = side) /\ (n = 3 => v.heard[1] # v.heard[2])
      BY <1>1, <3>2
    <3> HIDE DEF n
    <3> QED  BY <1>1, <3>2, <3>3, VotesAre
  <2> QED  BY <2>1, <2>2
<1>5. ASSUME NEW one \in {"first", "second"}, Said(v, one, IF one = "first" THEN "second" ELSE "first")
      PROVE  winner = IF one = "first" THEN "A" ELSE "B"
  <2>1. raw[1] = one /\ raw[2] = IF one = "first" THEN "second" ELSE "first"
    BY <1>5 DEF Said
  <2>2. heard[1] = Prefers(1, raw[1]) /\ heard[2] = Prefers(2, raw[2])
    BY <1>1, <1>2
  <2>3. heard[1] = (IF one = "first" THEN "A" ELSE "B") /\ heard[2] = heard[1]
    BY <2>1, <2>2 DEF Prefers
  <2>4. n = 2 /\ last = heard[1]
    <3>1. n = 2
      BY <1>1, <2>3
    <3> QED  BY <2>3, <3>1
  <2> QED  BY <1>3, <2>3, <2>4
<1>6. Mirrored(v)
  <2> DEFINE turned == Turned(rd)
             back == <<Swap(heard[2]), Swap(heard[1])>>
             there == DetermineWinner({}, PairwiseWinner({}, back, turned), turned)
  <2> SUFFICES ASSUME n < 3  PROVE Swap(winner) = there
    <3>1. {Other(side) : side \in v.low} = {}
      OBVIOUS
    <3>2. v.heard # <<>> /\ v.heard = heard /\ Len(v.heard) = n
      BY <1>1, <1>2
    <3>3. [side \in Sides |-> v.rd[Other(side)]] = turned
      BY DEF Turned
    <3> QED  BY <3>1, <3>2, <3>3, Zenon DEF Mirrored, Swap
  <2>1. n = 2 /\ heard[1] = heard[2] /\ heard[2] = last
    <3>1. n \in 2 .. 3 /\ n < 3
      BY <1>1
    <3> HIDE DEF n, heard
    <3>2. n = 2
      BY <3>1
    <3> QED  BY <1>1, <3>2
  <2>2. RuleTiebreak(turned) = Swap(RuleTiebreak(rd)) /\ RuleTiebreak(rd) \in Sides \cup {"tie"}
    BY TiebreakIs
  <2> DEFINE final == PairwiseWinner({}, back, turned)
  <2>3. back[Len(back)] = Swap(last)
    BY <2>1
  <2>4. final = IF Swap(last) # "tie" THEN Swap(last) ELSE RuleTiebreak(turned)
    <3> HIDE DEF back, turned, last
    <3> QED  BY <2>3 DEF PairwiseWinner, Final, Sides
  <2>5. there = IF final \in Sides THEN final ELSE RuleTiebreak(turned)
    <3> HIDE DEF back, turned, last
    <3> QED  BY DEF DetermineWinner, Majority, Sides
  <2> HIDE DEF final, there, back, turned, last, winner, heard
  <2> QED  BY <1>3, <2>2, <2>4, <2>5 DEF Sides, Swap, Other
<1> QED
  <2>1. Said(v, "first", "second") => winner = "A"
    BY <1>5
  <2>2. Said(v, "second", "first") => winner = "B"
    BY <1>5
  <2> QED  BY <1>4, <1>6, <2>1, <2>2 DEF Earned

LEMMA FloorIsEarned ==
  ASSUME NEW low \in SUBSET Sides, low # {}, NEW rd, NEW v, v.low = low, v.raw = <<>>, v.heard = <<>>,
         v.rd = rd, NEW final, final = PairwiseWinner(low, <<>>, rd), v.winner = DetermineWinner(low, final, rd)
  PROVE  Earned(v) /\ Resolved(low, final) = v.winner
<1>1. low = Sides \/ \E side \in Sides : low = {side}
  BY DEF Sides
<1>2. ~(\E one, two : Said(v, one, two))
  BY DEF Said
<1>3. CASE low = Sides
  <2>1. v.winner = None /\ Resolved(low, final) = None
    <3>1. \A any, other : DetermineWinner(Sides, any, other) = None
      BY DEF DetermineWinner, Sides
    <3> QED  BY <1>3, <3>1 DEF Resolved
  <2>2. {Other(side) : side \in v.low} = Sides
    BY <1>3, OthersAre
  <2>3. Mirrored(v)
    <3>1. \A any, other : DetermineWinner(Sides, any, other) = None
      BY DEF DetermineWinner, Sides
    <3>2. None \notin Sides
      BY DEF None, Sides
    <3> QED  BY <1>3, <2>1, <2>2, <3>1, <3>2, Zenon DEF Mirrored
  <2> QED  BY <1>2, <1>3, <2>1, <2>3 DEF Earned, None, Sides
<1>4. ASSUME NEW side \in Sides, low = {side}
      PROVE  Earned(v) /\ Resolved(low, final) = v.winner
  <2>1. final = Other(side)
    BY <1>4 DEF PairwiseWinner, Sides, Other
  <2>2. v.winner = Other(side) /\ Resolved(low, final) = Other(side)
    BY <1>4, <2>1 DEF DetermineWinner, Resolved, Sides, Other
  <2>3. {Other(s) : s \in v.low} = {Other(side)}
    BY <1>4
  <2>4. Mirrored(v)
    BY <2>2, <2>3 DEF Mirrored, DetermineWinner, Sides, Other
  <2> QED  BY <1>2, <1>4, <2>2, <2>4 DEF Earned, None, Sides, Other
<1> QED  BY <1>1, <1>3, <1>4

\* Of every evaluation that compares, the judge has been asked as he must.
VerdictInv ==
  /\ DOMAIN ev = Evals /\ ev = [e \in Evals |-> ev[e]]
  /\ \A e \in Evals : ev[e].pc \in {"score", "compare"} => Scoring(ev[e])
  /\ \A e \in Evals : ev[e].pc = "score" => ev[e].raw = <<>>
  /\ \A e \in Evals : ev[e].pc = "compare" => AskedSoFar(ev[e].raw)
  /\ VerdictIsEarned

LEMMA ConcludeEarns ==
  ASSUME VerdictInv, NEW e \in Evals, NEW low \in SUBSET Sides, NEW raw, Conclude(e, low, raw),
         low # {} => raw = <<>>, low = {} => Settles(raw)
  PROVE  VerdictIsEarned'
<1>1. PICK rd \in Readings :
        latest' = [winner |-> DetermineWinner(low, PairwiseWinner(low, Heard(raw), rd), rd),
                   told |-> Resolved(low, PairwiseWinner(low, Heard(raw), rd)), low |-> low,
                   raw |-> raw, heard |-> Heard(raw), rd |-> rd]
  BY DEF Conclude
<1> DEFINE v == latest'
           final == PairwiseWinner(low, Heard(raw), rd)
<1>2. /\ v.low = low /\ v.raw = raw /\ v.heard = Heard(raw) /\ v.rd = rd
      /\ v.winner = DetermineWinner(low, final, rd) /\ v.told = Resolved(low, final)
  BY <1>1
<1>3. Earned(v) /\ v.told = v.winner
  <2>1. CASE low = {}
    <3> DEFINE here == v
               heard == Heard(raw)
               winner == DetermineWinner({}, PairwiseWinner({}, heard, rd), rd)
               last == heard[Len(heard)]
    <3>1. /\ here.low = {} /\ here.raw = raw /\ here.heard = heard /\ here.rd = rd
          /\ here.winner = winner /\ here.told = Resolved({}, PairwiseWinner({}, heard, rd))
      BY <1>2, <2>1
    <3>2. Resolved({}, PairwiseWinner({}, heard, rd)) = winner
      <4>1. Settles(raw) /\ heard = Heard(raw) /\ last = heard[Len(heard)]
        BY <2>1
      <4>2. winner = DetermineWinner({}, PairwiseWinner({}, heard, rd), rd)
        OBVIOUS
      <4> HIDE DEF heard, last, winner
      <4> QED  BY <4>1, <4>2, JudgeSays
    <3>3. Earned(here)
      <4>1. Settles(raw)
        BY <2>1
      <4> HIDE DEF here
      <4> QED  BY <3>1, <4>1, SettledIsEarned
    <3> QED  BY <3>1, <3>2, <3>3
  <2>2. CASE low # {}
    <3> DEFINE here == v
    <3>1. raw = <<>> /\ Heard(raw) = <<>>
      BY <2>2 DEF Heard
    <3>2. /\ here.low = low /\ here.raw = <<>> /\ here.heard = <<>> /\ here.rd = rd
          /\ here.winner = DetermineWinner(low, final, rd) /\ here.told = Resolved(low, final)
          /\ final = PairwiseWinner(low, <<>>, rd)
      BY <1>2, <3>1
    <3> HIDE DEF here, final
    <3>3. Earned(here) /\ Resolved(low, final) = here.winner
      BY <2>2, <3>2, FloorIsEarned
    <3> QED  BY <3>2, <3>3 DEF here
  <2> QED  BY <2>1, <2>2
<1> QED  BY <1>3 DEF VerdictIsEarned

\* An evaluation goes on to x.
LEMMA VerdictGoesOn ==
  ASSUME VerdictInv, NEW e \in Evals, NEW x, ev' = [ev EXCEPT ![e] = x], VerdictIsEarned',
         x.pc \in {"score", "compare"} => Scoring(x),
         x.pc = "score" => x.raw = <<>>, x.pc = "compare" => AskedSoFar(x.raw)
  PROVE  VerdictInv'
<1>1. DOMAIN ev' = Evals /\ ev'[e] = x /\ \A d \in Evals \ {e} : ev'[d] = ev[d]
  BY DEF VerdictInv
<1>2. ev' = [d \in Evals |-> ev'[d]]
  BY DEF VerdictInv
<1>3. \A d \in Evals : ev'[d].pc \in {"score", "compare"} => Scoring(ev'[d])
  BY <1>1 DEF VerdictInv
<1>4. \A d \in Evals : /\ ev'[d].pc = "score" => ev'[d].raw = <<>>
                       /\ ev'[d].pc = "compare" => AskedSoFar(ev'[d].raw)
  BY <1>1 DEF VerdictInv
<1> QED  BY <1>1, <1>2, <1>3, <1>4 DEF VerdictInv

LEMMA VerdictRests == ASSUME VerdictInv, latest' = latest  PROVE VerdictIsEarned'
BY DEF VerdictInv, VerdictIsEarned

LEMMA VerdictBegins == Init => VerdictInv
<1> SUFFICES ASSUME Init  PROVE VerdictInv
  OBVIOUS
<1>1. \A e \in Evals : ev[e].pc = "unspawned"
  BY DEF Init, Unspawned
<1>2. DOMAIN ev = Evals /\ ev = [e \in Evals |-> ev[e]] /\ latest = NoVerdict
  BY DEF Init
<1> QED  BY <1>1, <1>2 DEF VerdictInv, VerdictIsEarned

LEMMA ConcludeKeeps ==
  ASSUME VerdictInv, NEW e \in Evals, NEW low \in SUBSET Sides, NEW raw, Conclude(e, low, raw),
         low # {} => raw = <<>>, low = {} => Settles(raw)
  PROVE  VerdictInv'
<1> DEFINE x == [pc |-> "done", b |-> ev[e].b, of |-> ev[e].of]
<1>1. ev' = [ev EXCEPT ![e] = x]
  BY DEF Conclude
<1>2. VerdictIsEarned'
  BY ConcludeEarns
<1>3. x.pc = "done"
  OBVIOUS
<1> HIDE DEF x
<1> QED  BY <1>1, <1>2, <1>3, VerdictGoesOn

LEMMA RaiseKeeps ==
  ASSUME VerdictInv, NEW e \in Evals, NEW why \in {"refused", "failed"}, Raise(e, why)
  PROVE  VerdictInv'
<1> DEFINE x == [pc |-> why, b |-> ev[e].b]
<1>1. ev' = [ev EXCEPT ![e] = x] /\ VerdictIsEarned'
  BY VerdictRests DEF Raise
<1>2. x.pc = why
  OBVIOUS
<1> HIDE DEF x
<1> QED  BY <1>1, <1>2, VerdictGoesOn

LEMMA GoesKeeps ==
  ASSUME VerdictInv, NEW e \in Evals, NEW x, Goes(e, x),
         x.pc \in {"score", "compare"} => Scoring(x),
         x.pc = "score" => x.raw = <<>>, x.pc = "compare" => AskedSoFar(x.raw)
  PROVE  VerdictInv'
<1>1. ev' = [ev EXCEPT ![e] = x] /\ VerdictIsEarned'
  BY VerdictRests DEF Goes
<1> QED  BY <1>1, VerdictGoesOn

LEMMA ReadKeeps ==
  ASSUME VerdictInv, NEW e \in Evals, Validate(e) \/ LoadA(e) \/ LoadB(e)
  PROVE  VerdictInv'
<1>1. CASE Raise(e, "refused")
  BY <1>1, RaiseKeeps
<1>2. ASSUME NEW x, Goes(e, x),
             \/ x = [pc |-> "loadA", b |-> ev[e].b]
             \/ x = [pc |-> "loadB", b |-> ev[e].b, of |-> [A |-> ck["A"]]]
             \/ x = [pc |-> "score", b |-> ev[e].b, raw |-> <<>>,
                     of |-> [A |-> ev[e].of.A, B |-> ck[ev[e].b]]]
      PROVE  VerdictInv'
  <2>1. x.pc \in {"loadA", "loadB", "score"} /\ (x.pc = "score" => Scoring(x) /\ x.raw = <<>>)
    BY <1>2 DEF Scoring
  <2> QED  BY <1>2, <2>1, GoesKeeps
<1> QED  BY <1>1, <1>2 DEF Validate, LoadA, LoadB

LEMMA JudgeKeeps ==
  ASSUME VerdictInv, NEW e \in Evals, Judge(e)  PROVE VerdictInv'
<1>1. PICK scored \in [Sides -> RunOutcomes] :
        LET low == {side \in Sides : scored[side] = "below"}
        IN IF \E side \in Sides : scored[side] = "failed" THEN Raise(e, "failed")
           ELSE IF low # {} THEN Conclude(e, low, <<>>)
           ELSE Goes(e, [ev[e] EXCEPT !.pc = "compare"])
  BY DEF Judge
<1> DEFINE low == {side \in Sides : scored[side] = "below"}
           x == [ev[e] EXCEPT !.pc = "compare"]
<1>2. CASE Raise(e, "failed")
  BY <1>2, RaiseKeeps
<1>3. CASE low # {} /\ Conclude(e, low, <<>>)
  <2>1. low \in SUBSET Sides
    OBVIOUS
  <2> HIDE DEF low
  <2> QED  BY <1>3, <2>1, ConcludeKeeps
<1>4. CASE Goes(e, x)
  <2>1. Scoring(ev[e]) /\ ev[e].raw = <<>>
    BY DEF VerdictInv, Judge
  <2>2. x.pc = "compare" /\ x.raw = <<>> /\ Scoring(x)
    BY <2>1 DEF Scoring
  <2>3. AskedSoFar(x.raw)
    <3>1. AskedSoFar(<<>>)
      BY DEF AskedSoFar
    <3> QED  BY <2>2, <3>1
  <2> HIDE DEF x
  <2> QED  BY <1>4, <2>2, <2>3, GoesKeeps
<1> QED  BY <1>1, <1>2, <1>3, <1>4

LEMMA CompareKeeps ==
  ASSUME VerdictInv, NEW e \in Evals, Compare(e)  PROVE VerdictInv'
<1>1. Scoring(ev[e]) /\ AskedSoFar(ev[e].raw)
  BY DEF VerdictInv, Compare
<1>2. CASE Raise(e, "failed")
  BY <1>2, RaiseKeeps
<1>3. ASSUME NEW answer \in Opinions,
             IF Enough(Heard(Append(ev[e].raw, answer)))
             THEN Conclude(e, {}, Append(ev[e].raw, answer))
             ELSE Goes(e, [ev[e] EXCEPT !.raw = Append(ev[e].raw, answer)])
      PROVE  VerdictInv'
  <2> DEFINE was == ev[e].raw
             raw == Append(was, answer)
             x == [ev[e] EXCEPT !.raw = raw]
  <2>1. raw = Append(was, answer) /\ AskedSoFar(was)
    BY <1>1
  <2>2. x.pc = ev[e].pc /\ x.raw = raw /\ Scoring(x) /\ ev[e].pc = "compare"
    BY <1>1 DEF Scoring, Compare
  <2>3. IF Enough(Heard(raw)) THEN Conclude(e, {}, raw) ELSE Goes(e, x)
    BY <1>3
  <2> HIDE DEF was, raw, x
  <2>4. IF Enough(Heard(raw)) THEN Settles(raw) ELSE AskedSoFar(raw)
    BY <2>1, OneMoreAsked
  <2>5. CASE Enough(Heard(raw))
    BY <2>3, <2>4, <2>5, ConcludeKeeps
  <2>6. CASE ~Enough(Heard(raw))
    BY <2>2, <2>3, <2>4, <2>6, GoesKeeps
  <2> QED  BY <2>5, <2>6
<1> QED  BY <1>2, <1>3, Zenon DEF Compare

LEMMA VerdictKeeps == VerdictInv /\ [Next]_vars => VerdictInv'
<1> SUFFICES ASSUME VerdictInv, [Next]_vars  PROVE VerdictInv'
  OBVIOUS
<1>1. CASE \E e \in Evals : Evaluates(e)
  BY <1>1, ReadKeeps, JudgeKeeps, CompareKeeps DEF Evaluates
<1>2. CASE \E r \in Runs : Trigger(r)
  <2>1. PICK r \in Runs : Trigger(r)
    BY <1>2
  <2>2. VerdictIsEarned'
    BY <2>1, VerdictRests DEF Trigger
  <2>3. CASE r = "A"
    BY <2>1, <2>2, <2>3 DEF Trigger, VerdictInv
  <2>4. CASE r # "A"
    <3> DEFINE x == [pc |-> "validate", b |-> r]
    <3>1. PICK e \in Evals : ev' = [ev EXCEPT ![e] = x]
      BY <2>1, <2>4 DEF Trigger
    <3>2. x.pc = "validate"
      OBVIOUS
    <3> HIDE DEF x
    <3> QED  BY <2>2, <3>1, <3>2, VerdictGoesOn
  <2> QED  BY <2>3, <2>4
<1>3. CASE Crash
  <2>1. VerdictIsEarned'
    BY <1>3, VerdictRests DEF Crash
  <2>2. ev' = [e \in Evals |-> IF InFlight(e) THEN [pc |-> "lost", b |-> ev[e].b] ELSE ev[e]]
    BY <1>3 DEF Crash
  <2>3. DOMAIN ev' = Evals /\ ev' = [e \in Evals |-> ev'[e]]
    BY <2>2
  <2>4. \A e \in Evals : ev'[e].pc \notin {"score", "compare"}
    <3> SUFFICES ASSUME NEW e \in Evals  PROVE ev'[e].pc \notin {"score", "compare"}
      OBVIOUS
    <3>1. CASE InFlight(e)
      BY <2>2, <3>1
    <3>2. CASE ~InFlight(e)
      BY <2>2, <3>2 DEF InFlight
    <3> QED  BY <3>1, <3>2
  <2> QED  BY <2>1, <2>3, <2>4 DEF VerdictInv
<1>4. CASE UNCHANGED <<ev, latest>>
  BY <1>4, VerdictRests DEF VerdictInv
<1>5. CASE UNCHANGED vars
  BY <1>4, <1>5 DEF vars
<1>6. CASE \E b \in Bs : PostAb(b) \/ InsertB(b)
  BY <1>4, <1>6 DEF PostAb, InsertB
<1>7. CASE \E r \in Runs : Complete(r) \/ RetryRow(r) \/ RetryCheckpoint(r) \/ Edit(r)
  BY <1>4, <1>7 DEF Complete, RetryRow, RetryCheckpoint, Edit
<1> QED  BY <1>1, <1>2, <1>3, <1>5, <1>6, <1>7 DEF Next, Drives

-----------------------------------------------------------------------------
(* Medians.                                                                 *)

UpTo(f, x) == {r \in DOMAIN f : f[r] <= x}
Under(f, x) == {r \in DOMAIN f : f[r] < x}

LEMMA SubsetsCount ==
  ASSUME NEW S, NEW T, IsFiniteSet(S), T \subseteq S
  PROVE  /\ IsFiniteSet(T) /\ Cardinality(T) \in Nat /\ Cardinality(S) \in Nat
         /\ Cardinality(T) <= Cardinality(S)
         /\ T # S => Cardinality(T) < Cardinality(S)
<1>1. /\ IsFiniteSet(T) /\ Cardinality(T) <= Cardinality(S)
      /\ (Cardinality(T) = Cardinality(S) => S = T)
  BY FS_Subset
<1>2. Cardinality(T) \in Nat /\ Cardinality(S) \in Nat
  BY <1>1, FS_CardinalityType
<1> QED  BY <1>1, <1>2

LEMMA RestCounts ==
  ASSUME NEW S, NEW T, IsFiniteSet(S), T \subseteq S
  PROVE  Cardinality(S \ T) = Cardinality(S) - Cardinality(T)
<1>1. S \cap T = T
  OBVIOUS
<1>2. Cardinality(S \ T) = Cardinality(S) - Cardinality(S \cap T)
  BY FS_Difference
<1> QED  BY <1>1, <1>2

LEMMA CountsGrow ==
  ASSUME NEW S, IsFiniteSet(S), NEW f \in [S -> Int], NEW q \in S, NEW r \in S, f[q] < f[r]
  PROVE  Cardinality(UpTo(f, f[q])) < Cardinality(UpTo(f, f[r]))
<1> DEFINE low == UpTo(f, f[q])
           high == UpTo(f, f[r])
<1>1. DOMAIN f = S /\ \A p \in S : f[p] \in Int
  OBVIOUS
<1>2. low \subseteq high /\ high \subseteq S /\ r \in high /\ r \notin low
  BY <1>1 DEF UpTo
<1> HIDE DEF low, high
<1>3. IsFiniteSet(high)
  BY <1>2, SubsetsCount
<1>4. Cardinality(low) < Cardinality(high)
  BY <1>2, <1>3, SubsetsCount
<1> QED  BY <1>4 DEF low, high

LEMMA GreatestValue ==
  ASSUME NEW S, IsFiniteSet(S), NEW f \in [S -> Int], NEW T \in SUBSET S, T # {}
  PROVE  \E r \in T : \A q \in T : f[q] <= f[r]
<1> DEFINE count(r) == Cardinality(UpTo(f, f[r]))
           counts == {count(r) : r \in T}
           n == Cardinality(S)
<1>1. n \in Nat /\ \A r \in T : count(r) \in 0 .. n
  <2>1. \A r \in T : UpTo(f, f[r]) \subseteq S
    BY DEF UpTo
  <2> QED  BY <2>1, SubsetsCount
<1>2. counts \in SUBSET (0 .. n) /\ counts # {}
  BY <1>1
<1>3. \E c \in counts : \A d \in counts : c >= d
  <2> HIDE DEF counts, n
  <2> QED  BY <1>1, <1>2, GreatestIsThere
<1>4. PICK r \in T : \A q \in T : count(r) >= count(q)
  BY <1>3
<1>5. ASSUME NEW q \in T  PROVE f[q] <= f[r]
  <2>1. f[q] \in Int /\ f[r] \in Int /\ q \in S /\ r \in S
    OBVIOUS
  <2>2. CASE f[r] < f[q]
    <3>1. count(r) < count(q)
      BY <2>1, <2>2, CountsGrow
    <3> QED  BY <1>1, <1>4, <3>1
  <2> QED  BY <2>1, <2>2
<1> QED  BY <1>5

LEMMA RankedIs ==
  ASSUME NEW S, IsFiniteSet(S), NEW f \in [S -> Int], NEW k \in 1 .. Cardinality(S), NEW x, x = Ranked(f, k)
  PROVE  /\ x \in Int /\ Cardinality(Under(f, x)) < k /\ k <= Cardinality(UpTo(f, x))
         /\ \E r \in S : x = f[r]
<1> DEFINE count(r) == Cardinality(UpTo(f, f[r]))
           n == Cardinality(S)
           enough == {r \in S : k <= count(r)}
           counts == {count(r) : r \in enough}
<1>1. n \in Nat /\ DOMAIN f = S /\ S # {}
  <2>1. n \in Nat
    BY FS_CardinalityType
  <2>2. S # {}
    BY FS_EmptySet
  <2> QED  BY <2>1, <2>2
<1>2. \A y \in Int : /\ UpTo(f, y) \subseteq S /\ Under(f, y) \subseteq S
                     /\ IsFiniteSet(UpTo(f, y)) /\ Cardinality(UpTo(f, y)) \in 0 .. n
                     /\ IsFiniteSet(Under(f, y)) /\ Cardinality(Under(f, y)) \in 0 .. n
  <2> SUFFICES ASSUME NEW y \in Int
               PROVE  /\ UpTo(f, y) \subseteq S /\ Under(f, y) \subseteq S
                      /\ IsFiniteSet(UpTo(f, y)) /\ Cardinality(UpTo(f, y)) \in 0 .. n
                      /\ IsFiniteSet(Under(f, y)) /\ Cardinality(Under(f, y)) \in 0 .. n
    OBVIOUS
  <2>1. UpTo(f, y) \subseteq S /\ Under(f, y) \subseteq S
    BY DEF UpTo, Under
  <2> QED  BY <2>1, SubsetsCount
<1>3. enough # {}
  <2>1. PICK r \in S : \A q \in S : f[q] <= f[r]
    BY <1>1, GreatestValue
  <2>2. UpTo(f, f[r]) = S
    BY <1>1, <2>1 DEF UpTo
  <2> QED  BY <2>2
<1>4. counts \in SUBSET Nat /\ counts # {}
  BY <1>1, <1>2, <1>3
<1>5. \E c \in counts : \A d \in counts : c <= d
  <2> HIDE DEF counts
  <2> QED  BY <1>4, LeastIsThere
<1>6. PICK r \in enough : \A q \in enough : count(r) <= count(q)
  BY <1>5
<1> DEFINE y == f[r]
           below == Under(f, y)
<1>7. y \in Int /\ r \in S /\ k <= Cardinality(UpTo(f, y))
  OBVIOUS
<1>8. Cardinality(below) < k
  <2> SUFFICES ASSUME k <= Cardinality(below)  PROVE FALSE
    BY <1>1, <1>2, <1>7
  <2>1. below \subseteq S /\ IsFiniteSet(below) /\ Cardinality(below) \in Nat
    BY <1>1, <1>2, <1>7
  <2>2. below # {}
    BY <2>1, FS_EmptySet
  <2>3. PICK q \in below : \A p \in below : f[p] <= f[q]
    <3> HIDE DEF below
    <3> QED  BY <2>1, <2>2, GreatestValue
  <2>4. q \in S /\ f[q] < y /\ f[q] \in Int
    BY <1>1 DEF Under
  <2>5. UpTo(f, f[q]) = below
    BY <1>1, <1>7, <2>3, <2>4 DEF UpTo, Under
  <2>6. q \in enough
    BY <2>4, <2>5
  <2>7. count(q) < count(r)
    BY <1>7, <2>4, CountsGrow
  <2>8. count(r) \in Nat /\ count(q) \in Nat
    BY <1>1, <1>2, <1>7, <2>4
  <2> QED  BY <1>6, <2>6, <2>7, <2>8
<1> DEFINE Fits(z) == k \in Cardinality(Under(f, z)) + 1 .. Cardinality(UpTo(f, z))
           values == {f[p] : p \in DOMAIN f}
<1>9. values \in SUBSET Int /\ y \in values
  BY <1>1, <1>7
<1>10. Fits(y)
  BY <1>1, <1>2, <1>7, <1>8
<1>11. x = CHOOSE z \in values : Fits(z)
  BY DEF Ranked, Under, UpTo
<1> HIDE DEF Fits, values, y
<1>12. x \in values /\ Fits(x)
  BY <1>9, <1>10, <1>11
<1>13. x \in Int
  BY <1>9, <1>12
<1>14. \E q \in S : x = f[q]
  BY <1>1, <1>12 DEF values
<1> QED  BY <1>1, <1>2, <1>12, <1>13, <1>14 DEF Fits

\* A median is below nought only if most values are, and if their number is
\* odd whenever they are.
LEMMA MedianSign ==
  ASSUME NEW S, IsFiniteSet(S), S # {}, NEW f \in [S -> Int], NEW median, median = MedianTwice(f)
  PROVE  /\ 2 * Cardinality(Under(f, 0)) > Cardinality(S) => median < 0
         /\ Cardinality(S) % 2 = 1 /\ median < 0 => 2 * Cardinality(Under(f, 0)) > Cardinality(S)
<1> DEFINE n == Cardinality(S)
           k == (n + 1) \div 2
           l == n \div 2 + 1
           x == Ranked(f, k)
           y == Ranked(f, l)
           negative == Under(f, 0)
<1>1. n \in Nat /\ n # 0
  BY FS_CardinalityType, FS_EmptySet
<1>2. k \in 1 .. n /\ l \in 1 .. n /\ k <= l /\ 2 * l <= n + 2 /\ 2 * k <= n + 1
  <2> HIDE DEF n
  <2> QED  BY <1>1
<1>3. x \in Int /\ Cardinality(Under(f, x)) < k /\ k <= Cardinality(UpTo(f, x))
  <2> HIDE DEF k, x
  <2>1. x = Ranked(f, k)
    BY DEF x
  <2> QED  BY <1>2, <2>1, RankedIs
<1>4. y \in Int /\ Cardinality(Under(f, y)) < l /\ l <= Cardinality(UpTo(f, y))
  <2> HIDE DEF l, y
  <2>1. y = Ranked(f, l)
    BY DEF y
  <2> QED  BY <1>2, <2>1, RankedIs
<1>5. median = x + y
  BY DEF MedianTwice
<1>6. DOMAIN f = S
  OBVIOUS
<1>7. \A z \in Int : /\ IsFiniteSet(Under(f, z)) /\ Cardinality(Under(f, z)) \in Nat
                     /\ IsFiniteSet(UpTo(f, z)) /\ Cardinality(UpTo(f, z)) \in Nat
  <2> SUFFICES ASSUME NEW z \in Int
               PROVE  /\ IsFiniteSet(Under(f, z)) /\ Cardinality(Under(f, z)) \in Nat
                      /\ IsFiniteSet(UpTo(f, z)) /\ Cardinality(UpTo(f, z)) \in Nat
    OBVIOUS
  <2>1. Under(f, z) \subseteq S /\ UpTo(f, z) \subseteq S
    BY <1>6 DEF Under, UpTo
  <2> QED  BY <2>1, SubsetsCount
<1>8. IsFiniteSet(negative) /\ Cardinality(negative) \in Nat
  BY <1>7
<1> HIDE DEF n, k, l, x, y
<1>9. ASSUME NEW z \in Int, NEW m \in 1 .. n, Cardinality(Under(f, z)) < m, m <= l, 2 * Cardinality(negative) > n
      PROVE  z < 0
  <2> SUFFICES ASSUME ~(z < 0)  PROVE FALSE
    OBVIOUS
  <2>1. negative \subseteq Under(f, z)
    BY <1>6 DEF Under
  <2>2. Cardinality(negative) <= Cardinality(Under(f, z))
    BY <1>7, <2>1, SubsetsCount
  <2>3. Cardinality(Under(f, z)) \in Nat
    BY <1>7
  <2> QED  BY <1>1, <1>2, <1>8, <1>9, <2>2, <2>3
<1>10. ASSUME 2 * Cardinality(negative) > n  PROVE median < 0
  <2>1. x < 0
    BY <1>2, <1>3, <1>9, <1>10
  <2>2. y < 0
    BY <1>2, <1>4, <1>9, <1>10
  <2> QED  BY <1>3, <1>4, <1>5, <2>1, <2>2
<1>11. ASSUME n % 2 = 1, median < 0  PROVE 2 * Cardinality(negative) > n
  <2>1. k = l /\ 2 * k = n + 1
    BY <1>1, <1>11 DEF k, l
  <2>2. x = y
    BY <2>1 DEF x, y
  <2>3. x < 0
    BY <1>3, <1>5, <1>11, <2>2
  <2>4. UpTo(f, x) \subseteq negative
    BY <1>3, <1>6, <2>3 DEF UpTo, Under
  <2>5. Cardinality(UpTo(f, x)) <= Cardinality(negative)
    BY <1>8, <2>4, SubsetsCount
  <2>6. Cardinality(UpTo(f, x)) \in Nat
    BY <1>3, <1>7
  <2> QED  BY <1>1, <1>2, <1>3, <1>8, <2>1, <2>5, <2>6
<1> QED  BY <1>10, <1>11 DEF n

-----------------------------------------------------------------------------
(* Sums over a finite set, as the folds of the community modules take them. *)

Picked(s) == CHOOSE x \in s : TRUE
Sums(it, g, S) == it = [s \in SUBSET S |-> IF s = {} THEN 0 ELSE g[Picked(s)] + it[s \ {Picked(s)}]]
SumsUpTo(it, g, S, n) ==
  /\ it \in [SUBSET S -> Int]
  /\ \A s \in SUBSET S : Cardinality(s) <= n =>
       it[s] = IF s = {} THEN 0 ELSE g[Picked(s)] + it[s \ {Picked(s)}]

LEMMA OneFewer ==
  ASSUME NEW S, IsFiniteSet(S), NEW s \in SUBSET S, s # {}
  PROVE  /\ Picked(s) \in s /\ s \ {Picked(s)} \in SUBSET S /\ Cardinality(s) \in Nat \ {0}
         /\ Cardinality(s \ {Picked(s)}) = Cardinality(s) - 1
<1>1. Picked(s) \in s
  BY DEF Picked
<1>2. IsFiniteSet(s) /\ Cardinality(s) \in Nat
  BY SubsetsCount
<1>3. Cardinality(s) # 0
  BY <1>2, FS_EmptySet
<1>4. Cardinality(s \ {Picked(s)}) = Cardinality(s) - 1
  BY <1>1, <1>2, FS_RemoveElement
<1> QED  BY <1>1, <1>2, <1>3, <1>4

LEMMA NothingCountsNought ==
  ASSUME NEW S, IsFiniteSet(S)  PROVE \A s \in SUBSET S : Cardinality(s) <= 0 => s = {}
<1> SUFFICES ASSUME NEW s \in SUBSET S, s # {}, Cardinality(s) <= 0  PROVE FALSE
  OBVIOUS
<1>1. Cardinality(s) \in Nat \ {0}
  BY OneFewer
<1> QED  BY <1>1

LEMMA SumsGoOn ==
  ASSUME NEW S, IsFiniteSet(S), NEW g \in [S -> Int], NEW n \in Nat, NEW it, SumsUpTo(it, g, S, n)
  PROVE  \E more : SumsUpTo(more, g, S, n + 1)
<1> DEFINE more == [s \in SUBSET S |-> IF s = {} THEN 0 ELSE g[Picked(s)] + it[s \ {Picked(s)}]]
<1>1. more \in [SUBSET S -> Int]
  <2> SUFFICES ASSUME NEW s \in SUBSET S, s # {}  PROVE g[Picked(s)] + it[s \ {Picked(s)}] \in Int
    OBVIOUS
  <2>1. Picked(s) \in S /\ s \ {Picked(s)} \in SUBSET S
    BY OneFewer
  <2>2. g[Picked(s)] \in Int /\ it[s \ {Picked(s)}] \in Int
    BY <2>1 DEF SumsUpTo
  <2> QED  BY <2>2
<1>2. ASSUME NEW s \in SUBSET S, Cardinality(s) <= n + 1, s # {}
      PROVE  more[s] = g[Picked(s)] + more[s \ {Picked(s)}]
  <2> DEFINE rest == s \ {Picked(s)}
  <2>1. rest \in SUBSET S /\ Cardinality(rest) = Cardinality(s) - 1 /\ Cardinality(s) \in Nat
    BY <1>2, OneFewer
  <2>2. more[s] = g[Picked(s)] + it[rest]
    BY <1>2
  <2>3. it[rest] = IF rest = {} THEN 0 ELSE g[Picked(rest)] + it[rest \ {Picked(rest)}]
    <3> HIDE DEF rest
    <3> QED  BY <1>2, <2>1 DEF SumsUpTo
  <2>4. more[rest] = IF rest = {} THEN 0 ELSE g[Picked(rest)] + it[rest \ {Picked(rest)}]
    <3> HIDE DEF rest
    <3> QED  BY <2>1
  <2> QED  BY <2>2, <2>3, <2>4
<1>3. more[{}] = 0
  OBVIOUS
<1> HIDE DEF more
<1>4. SumsUpTo(more, g, S, n + 1)
  BY <1>1, <1>2, <1>3 DEF SumsUpTo
<1> QED  BY <1>4

LEMMA SumsAreThere ==
  ASSUME NEW S, IsFiniteSet(S), NEW g \in [S -> Int]
  PROVE  \E it : Sums(it, g, S)
<1> DEFINE n == Cardinality(S)
           P == {i \in 0 .. n : \E it : SumsUpTo(it, g, S, i)}
<1>0. n \in Nat
  BY FS_CardinalityType
<1>1. 0 \in P
  <2> DEFINE it == [s \in SUBSET S |-> 0]
  <2>1. \A s \in SUBSET S : Cardinality(s) <= 0 => s = {}
    BY NothingCountsNought
  <2>2. SumsUpTo(it, g, S, 0)
    BY <2>1 DEF SumsUpTo
  <2> QED  BY <1>0, <2>2
<1>2. \A i \in 1 .. n : i - 1 \in P => i \in P
  <2> SUFFICES ASSUME NEW i \in 1 .. n, i - 1 \in P  PROVE i \in P
    OBVIOUS
  <2>1. PICK it : SumsUpTo(it, g, S, i - 1)
    OBVIOUS
  <2>2. i - 1 \in Nat /\ (i - 1) + 1 = i
    BY <1>0
  <2>3. \E more : SumsUpTo(more, g, S, (i - 1) + 1)
    <3> DEFINE m == i - 1
    <3> HIDE DEF m
    <3>1. m \in Nat /\ SumsUpTo(it, g, S, m)
      BY <2>1, <2>2 DEF m
    <3>2. \E more : SumsUpTo(more, g, S, m + 1)
      BY <3>1, SumsGoOn
    <3> QED  BY <3>2 DEF m
  <2> QED  BY <1>0, <2>2, <2>3
<1>3. n \in 0 .. n
  BY <1>0
<1> HIDE DEF P
<1>4. n \in P
  <2> HIDE DEF n
  <2> QED  BY <1>0, <1>1, <1>2, <1>3, FromEachToTheNext
<1>5. PICK it : SumsUpTo(it, g, S, n)
  BY <1>4 DEF P
<1>6. \A s \in SUBSET S : Cardinality(s) <= n
  BY SubsetsCount
<1>7. \A s \in SUBSET S : it[s] = IF s = {} THEN 0 ELSE g[Picked(s)] + it[s \ {Picked(s)}]
  BY <1>5, <1>6 DEF SumsUpTo
<1>8. it = [s \in SUBSET S |-> IF s = {} THEN 0 ELSE g[Picked(s)] + it[s \ {Picked(s)}]]
  BY <1>5, <1>7 DEF SumsUpTo
<1> QED  BY <1>8 DEF Sums

\* What holds of nothing and 0, and goes from a sum to one of one more, holds of
\* the whole sum.
Grows(Fits, T, X) ==
  <<0, 0>> \in Fits /\ \A c \in Nat, v \in T, x \in X : <<c, v>> \in Fits => <<c + 1, x + v>> \in Fits
SumsFit(it, S, Fits, n) == \A s \in SUBSET S : Cardinality(s) <= n => <<Cardinality(s), it[s]>> \in Fits

LEMMA SumsAreOf ==
  ASSUME NEW S, IsFiniteSet(S), NEW T, NEW X, NEW Fits, Grows(Fits, T, X), Fits \subseteq Nat \X T,
         NEW g \in [S -> X], NEW it, Sums(it, g, S)
  PROVE  <<Cardinality(S), it[S]>> \in Fits
<1> DEFINE n == Cardinality(S)
           P == {i \in 0 .. n : SumsFit(it, S, Fits, i)}
<1>0. n \in Nat
  BY FS_CardinalityType
<1>a. \A s \in SUBSET S : it[s] = IF s = {} THEN 0 ELSE g[Picked(s)] + it[s \ {Picked(s)}]
  BY DEF Sums
<1>b. ASSUME NEW s \in SUBSET S, s = {}  PROVE <<Cardinality(s), it[s]>> \in Fits
  <2>1. Cardinality(s) = 0 /\ it[s] = 0
    BY <1>a, <1>b, FS_EmptySet
  <2> QED  BY <2>1 DEF Grows
<1>1. 0 \in P
  <2>1. \A s \in SUBSET S : Cardinality(s) <= 0 => s = {}
    BY NothingCountsNought
  <2> QED  BY <1>0, <1>b, <2>1 DEF SumsFit
<1>2. \A i \in 1 .. n : i - 1 \in P => i \in P
  <2> SUFFICES ASSUME NEW i \in 1 .. n, i - 1 \in P, NEW s \in SUBSET S, Cardinality(s) <= i, s # {}
               PROVE  <<Cardinality(s), it[s]>> \in Fits
    BY <1>0, <1>b DEF SumsFit
  <2> DEFINE rest == s \ {Picked(s)}
             k == Cardinality(rest)
  <2>1. Picked(s) \in S /\ rest \in SUBSET S /\ k = Cardinality(s) - 1 /\ Cardinality(s) \in Nat \ {0}
    BY OneFewer
  <2>2. SumsFit(it, S, Fits, i - 1)
    OBVIOUS
  <2>3. k <= i - 1 /\ k \in Nat /\ Cardinality(s) = k + 1
    <3> HIDE DEF rest, k
    <3> QED  BY <1>0, <2>1
  <2>4. <<k, it[rest]>> \in Fits
    <3> HIDE DEF rest
    <3> QED  BY <2>1, <2>2, <2>3 DEF SumsFit
  <2>5. it[rest] \in T /\ g[Picked(s)] \in X
    BY <2>1, <2>4
  <2>6. it[s] = g[Picked(s)] + it[rest]
    BY <1>a
  <2> DEFINE x == g[Picked(s)]
             y == it[rest]
  <2>7. <<k + 1, x + y>> \in Fits
    <3>1. k \in Nat /\ x \in X /\ y \in T /\ <<k, y>> \in Fits
      BY <2>3, <2>4, <2>5
    <3> HIDE DEF k, x, y
    <3> QED  BY <3>1 DEF Grows
  <2> QED  BY <2>3, <2>6, <2>7
<1>3. n \in 0 .. n
  BY <1>0
<1> HIDE DEF P
<1>4. n \in P
  <2> HIDE DEF n
  <2> QED  BY <1>0, <1>1, <1>2, <1>3, FromEachToTheNext
<1>5. S \in SUBSET S /\ Cardinality(S) <= n
  BY <1>0
<1> QED  BY <1>4, <1>5 DEF P, SumsFit

LEMMA SumsAreInt ==
  ASSUME NEW S, IsFiniteSet(S), NEW g \in [S -> Int], NEW it, Sums(it, g, S)
  PROVE  it[S] \in Int
<1> DEFINE Fits == Nat \X Int
<1>1. Grows(Fits, Int, Int) /\ Fits \subseteq Nat \X Int
  BY DEF Grows
<1> HIDE DEF Fits
<1>2. <<Cardinality(S), it[S]>> \in Fits
  BY <1>1, SumsAreOf
<1> QED  BY <1>1, <1>2

\* Sums of numbers of 0 .. most: at most so many times most.
LEMMA TimesOneMore == ASSUME NEW most \in Nat, NEW k \in Nat PROVE (k + 1) * most = k * most + most /\ k * most \in Nat
OBVIOUS

LEMMA SumsAreBounded ==
  ASSUME NEW S, IsFiniteSet(S), NEW most \in Nat, NEW g \in [S -> 0 .. most], NEW it, Sums(it, g, S)
  PROVE  it[S] \in 0 .. Cardinality(S) * most
<1> DEFINE Fits == {p \in Nat \X Nat : p[2] \in 0 .. p[1] * most}
<1>1. \A c \in Nat, v \in Nat, x \in 0 .. most : <<c, v>> \in Fits => <<c + 1, x + v>> \in Fits
  <2> SUFFICES ASSUME NEW c \in Nat, NEW v \in Nat, NEW x \in 0 .. most, v \in 0 .. c * most
               PROVE  x + v \in 0 .. (c + 1) * most
    OBVIOUS
  <2> DEFINE z == c * most
  <2>1. (c + 1) * most = z + most /\ z \in Nat
    BY TimesOneMore
  <2>2. v \in 0 .. z
    OBVIOUS
  <2> HIDE DEF z
  <2>3. x + v \in 0 .. z + most
    BY <2>1, <2>2
  <2> QED  BY <2>1, <2>3
<1>2. <<0, 0>> \in Fits
  OBVIOUS
<1>3. Grows(Fits, Nat, 0 .. most) /\ Fits \subseteq Nat \X Nat
  BY <1>1, <1>2 DEF Grows
<1> HIDE DEF Fits
<1>4. <<Cardinality(S), it[S]>> \in Fits
  BY <1>3, SumsAreOf
<1> QED  BY <1>4 DEF Fits

-----------------------------------------------------------------------------
(* The two sums of the model.                                               *)

LEMMA TotalIsInt ==
  ASSUME NEW marks \in [Measured -> Int]  PROVE TotalOf(marks) \in Int
<1> DEFINE Taken(it) ==
      [s \in SUBSET Measured |-> IF s = {} THEN 0 ELSE marks[CHOOSE x \in s : TRUE] + it[s \ {CHOOSE x \in s : TRUE}]]
           chosen == CHOOSE it : it = Taken(it)
<1>1. IsFiniteSet(Measured)
  BY DrawsKnown
<1>2. \A it : Sums(it, marks, Measured) <=> it = Taken(it)
  BY DEF Sums, Picked
<1>3. \E it : Sums(it, marks, Measured)
  BY <1>1, SumsAreThere
<1>4. TotalOf(marks) = chosen[Measured]
  BY Zenon DEF TotalOf, MapThenSumSet, MapThenFoldSet
<1> HIDE DEF Taken
<1>5. chosen = Taken(chosen)
  BY <1>2, <1>3
<1> HIDE DEF chosen
<1>6. Sums(chosen, marks, Measured)
  BY <1>2, <1>5
<1>7. chosen[Measured] \in Int
  BY <1>1, <1>6, SumsAreInt
<1> QED  BY <1>4, <1>7

LEMMA PartsAreSummed ==
  ASSUME IsFiniteSet(Parts("scored")), \A k \in Parts("scored") : rows[k].dsg.part \in 0 .. Whole
  PROVE  Summary.sum \in 0 .. Cardinality(Parts("scored")) * Whole
<1> DEFINE S == Parts("scored")
           part == [k \in S |-> rows[k].dsg.part]
           Taken(it) ==
             [s \in SUBSET S |-> IF s = {} THEN 0
                                 ELSE rows[CHOOSE x \in s : TRUE].dsg.part + it[s \ {CHOOSE x \in s : TRUE}]]
           chosen == CHOOSE it : it = Taken(it)
<1>1. part \in [S -> 0 .. Whole] /\ part \in [S -> Int] /\ Whole \in Nat /\ IsFiniteSet(S)
  BY GradesKnown
<1>2. ASSUME NEW it  PROVE Sums(it, part, S) <=> it = Taken(it)
  <2>1. \A s \in SUBSET S : s # {} => part[Picked(s)] = rows[CHOOSE x \in s : TRUE].dsg.part
    BY DEF Picked
  <2> HIDE DEF S, part
  <2>2. [s \in SUBSET S |-> IF s = {} THEN 0 ELSE part[Picked(s)] + it[s \ {Picked(s)}]] = Taken(it)
    BY <2>1 DEF Picked
  <2> HIDE DEF Taken
  <2> QED  BY <2>2 DEF Sums
<1>3. Summary.sum = chosen[S]
  BY Zenon DEF Summary, MapThenSumSet, MapThenFoldSet
<1> HIDE DEF S, part, Taken
<1>4. \E it : Sums(it, part, S)
  BY <1>1, SumsAreThere
<1>5. chosen = Taken(chosen)
  BY <1>2, <1>4
<1> HIDE DEF chosen
<1>6. Sums(chosen, part, S)
  BY <1>2, <1>5
<1>7. chosen[S] \in 0 .. Cardinality(S) * Whole
  BY <1>1, <1>6, SumsAreBounded
<1> QED  BY <1>3, <1>7 DEF S

-----------------------------------------------------------------------------
(* The low median of the usable looks.                                      *)

Below(samples, x) == {i \in Usable(samples) : samples[i] < x}
NotAbove(samples, x) == {i \in Usable(samples) : samples[i] <= x}

LEMMA MedianLowIs ==
  ASSUME NEW n \in Nat, NEW marks \in SUBSET (Nat \ {0}), NEW samples \in [1 .. n -> marks \cup {Dead}],
         Usable(samples) # {}, NEW x, x = MedianLow(samples)
  PROVE  /\ x \in marks
         /\ 2 * Cardinality(Below(samples, x)) < Cardinality(Usable(samples))
         /\ Cardinality(Usable(samples)) <= 2 * Cardinality(NotAbove(samples, x))
<1> DEFINE S == Usable(samples)
           f == [i \in S |-> samples[i]]
           m == Cardinality(S)
           k == (m + 1) \div 2
           y == Ranked(f, k)
           values == {samples[i] : i \in S}
           Fits(z) == /\ 2 * Cardinality({i \in S : samples[i] < z}) < m
                      /\ m <= 2 * Cardinality({i \in S : samples[i] <= z})
<1>1. S \subseteq 1 .. n /\ \A i \in S : samples[i] \in marks /\ samples[i] \in Int
  <2>1. DOMAIN samples = 1 .. n /\ \A i \in 1 .. n : samples[i] \in marks \cup {Dead}
    OBVIOUS
  <2>2. \A z \in marks : z \in Int
    OBVIOUS
  <2> QED  BY <2>1, <2>2 DEF Usable
<1>2. IsFiniteSet(S)
  <2>1. IsFiniteSet(1 .. n)
    BY FS_Interval
  <2> HIDE DEF S
  <2> QED  BY <1>1, <2>1, SubsetsCount
<1>3. f \in [S -> Int] /\ values \subseteq marks
  BY <1>1
<1>4. m \in Nat /\ m # 0
  BY <1>2, FS_CardinalityType, FS_EmptySet
<1>5. k \in 1 .. m /\ 2 * k <= m + 1 /\ m <= 2 * k
  <2> HIDE DEF m
  <2> QED  BY <1>4
<1>6. /\ y \in Int /\ Cardinality(Under(f, y)) < k /\ k <= Cardinality(UpTo(f, y))
      /\ \E r \in S : y = f[r]
  <2> HIDE DEF S, f, k, y
  <2>1. y = Ranked(f, k)
    BY DEF y
  <2>2. k \in 1 .. Cardinality(S)
    BY <1>5
  <2> QED  BY <1>2, <1>3, <2>1, <2>2, RankedIs
<1>7. \A z : Under(f, z) = {i \in S : samples[i] < z} /\ UpTo(f, z) = {i \in S : samples[i] <= z}
  BY DEF Under, UpTo
<1>8. Under(f, y) \subseteq S /\ UpTo(f, y) \subseteq S
  BY DEF Under, UpTo
<1>9. Cardinality(Under(f, y)) \in Nat /\ Cardinality(UpTo(f, y)) \in Nat
  BY <1>2, <1>8, SubsetsCount
<1>10. y \in values
  BY <1>6
<1>11. Fits(y)
  <2> DEFINE low == Cardinality(Under(f, y))
             high == Cardinality(UpTo(f, y))
  <2>1. 2 * low < m /\ m <= 2 * high
    <3>1. low \in Nat /\ high \in Nat /\ low < k /\ k <= high
      BY <1>6, <1>9
    <3> HIDE DEF low, high, k, m
    <3> QED  BY <1>4, <1>5, <3>1
  <2>2. low = Cardinality({i \in S : samples[i] < y}) /\ high = Cardinality({i \in S : samples[i] <= y})
    BY <1>7
  <2> HIDE DEF low, high, y, m, S
  <2> QED  BY <2>1, <2>2
<1>12. x = CHOOSE z \in values : Fits(z)
  BY DEF MedianLow
<1> HIDE DEF Fits, values, y
<1>13. x \in values /\ Fits(x)
  BY <1>10, <1>11, <1>12
<1> QED  BY <1>3, <1>13 DEF Fits, Below, NotAbove

-----------------------------------------------------------------------------
(* What holds of a sweep.                                                   *)

Fractions == [is : {"none", "error", "scored", "unscorable"}, part : 0 .. Whole, failed : Nat]
Judged == [status : {"scored"}, readable : {Dim, Clear}, match : Grades, dsg : Fractions]
Undecided == [status : {"scored"}, readable : {Dim, Clear}, match : Grades, dsg : {Undecomposed}]
RowSet == {[status |-> "skipped"], [status |-> "error"]} \cup Judged
Reports == {NoReport, Torn} \cup [is : {"report"}, scored : Int, unreadable : Int, sum : Int, of : Int]
AnswerSet == {"person", "invalid", "yes", "no", "dead"}
Swings == [phase : {"shots", "publishing", "published", "done"}, asked : SweepsAsked]

\* An answer is the one its proposition and those before it call for.
HangsFrom(props, answers, k, id) ==
  \E j \in 1 .. k - 1 : props[j].id = id /\ answers[j] \in Supplied
CalledFor(props, answers, k) ==
  IF IsPerson(props[k]) THEN {"person"}
  ELSE IF props[k].parent # "none" /\ ~HangsFrom(props, answers, k, props[k].parent) THEN {"invalid"}
  ELSE {"yes", "no", "dead"}
Answered(props, answers) ==
  /\ props \in Graphs /\ WellFormed(props)
  /\ answers \in Seq(AnswerSet) /\ Len(answers) <= Len(props)
  /\ \A k \in 1 .. Len(answers) : answers[k] \in CalledFor(props, answers, k)

LookHolds ==
  \/ look = NoLook
  \/ /\ sweep.phase = "shots" /\ AtShot <= Len(Shots)
     /\ \/ look = [at |-> "blind"]
        \/ look = [at |-> "match", samples |-> look.samples, readable |-> look.readable]
           /\ look.readable \in {Dim, Clear}
        \/ look = [at |-> "propositions", row |-> look.row]
           /\ look.row \in Undecided
        \/ look = [at |-> "answers", row |-> look.row, props |-> look.props, answers |-> look.answers]
           /\ look.row \in Undecided /\ Answered(look.props, look.answers)

RowsHold ==
  /\ rows \in Seq(RowSet) /\ Len(rows) <= Len(Shots)
  /\ sweep # NoSweep /\ sweep.asked.dsg =>
       \A k \in 1 .. Len(rows) : rows[k].status = "scored" => rows[k].dsg.is # "none"

SweepInv ==
  /\ (sweep = NoSweep /\ rows = <<>> /\ look = NoLook) \/ sweep \in Swings
  /\ RowsHold /\ LookHolds /\ ReadableByMost
  /\ report \in Reports
  /\ sweep.phase \in {"publishing", "published"} =>
       look = NoLook /\ sweep.asked.dsg /\ ~Withheld /\ ~MoreShots
  /\ sweep.phase = "publishing" => report = Torn
  /\ sweep.phase = "published" => report = Summary

LEMMA SweepBegins == SweepInit => SweepInv
<1> SUFFICES ASSUME SweepInit  PROVE SweepInv
  OBVIOUS
<1>1. sweep = NoSweep /\ sweep.phase = "idle" /\ rows = <<>> /\ look = NoLook /\ look.at = "none" /\ report = NoReport
  BY DEF SweepInit, NoSweep, NoLook
<1>2. rows \in Seq(RowSet) /\ Len(rows) <= Len(Shots)
  <2>1. Len(Shots) \in Nat
    BY SweepsKnown
  <2> QED  BY <1>1, <2>1
<1> QED  BY <1>1, <1>2 DEF SweepInv, RowsHold, LookHolds, ReadableByMost, Reports

\* A row that ends the look at its shot.
LEMMA RowEnds ==
  ASSUME SweepInv, sweep.phase = "shots", AtShot <= Len(Shots), NEW row, EndRow(row),
         UNCHANGED <<sweep, report>>, row \in RowSet,
         sweep.asked.dsg /\ row.status = "scored" => row.dsg.is # "none"
  PROVE  SweepInv'
<1>1. sweep # NoSweep /\ sweep \in Swings
  BY DEF SweepInv, NoSweep
<1>2. look' = NoLook /\ look'.at = "none" /\ rows' = Append(rows, row)
  BY DEF EndRow, NoLook
<1>3. rows \in Seq(RowSet) /\ Len(rows) \in Nat /\ Len(Shots) \in Nat
  BY SweepsKnown DEF SweepInv, RowsHold
<1>4. rows' \in Seq(RowSet) /\ Len(rows') = Len(rows) + 1
  <2> HIDE DEF RowSet
  <2> QED  BY <1>2, <1>3
<1>5. \A k \in 1 .. Len(rows') : rows'[k] = IF k = Len(rows) + 1 THEN row ELSE rows[k]
  <2> HIDE DEF RowSet
  <2> QED  BY <1>2, <1>3
<1>6. RowsHold'
  <2>1. Len(rows') <= Len(Shots)
    BY <1>3, <1>4 DEF AtShot
  <2>2. ASSUME sweep.asked.dsg, NEW k \in 1 .. Len(rows'), rows'[k].status = "scored"
        PROVE  rows'[k].dsg.is # "none"
    <3>1. CASE k = Len(rows) + 1
      BY <1>5, <2>2, <3>1
    <3>2. CASE k # Len(rows) + 1
      <4>1. k \in 1 .. Len(rows) /\ rows'[k] = rows[k]
        BY <1>3, <1>4, <1>5, <3>2
      <4> QED  BY <1>1, <2>2, <4>1 DEF SweepInv, RowsHold
    <3> QED  BY <3>1, <3>2
  <2> QED  BY <1>4, <2>1, <2>2 DEF RowsHold
<1> QED  BY <1>1, <1>2, <1>6 DEF SweepInv, LookHolds, ReadableByMost

\* A look that goes on.
LEMMA LookGoesOn ==
  ASSUME SweepInv, sweep.phase = "shots", UNCHANGED <<sweep, rows, report>>, LookHolds', ReadableByMost'
  PROVE  SweepInv'
<1>1. sweep \in Swings
  BY DEF SweepInv, NoSweep
<1> QED  BY <1>1 DEF SweepInv, RowsHold

LEMMA EnoughIsSome ==
  ASSUME NEW n \in Nat \ {0}, NEW values, NEW samples \in [1 .. n -> values], EnoughOf(samples)
  PROVE  Usable(samples) # {}
<1>1. samples \in Seq(values) /\ Len(samples) = n
  OBVIOUS
<1>2. Cardinality(Usable(samples)) >= IF n < 2 THEN n ELSE 2
  BY <1>1 DEF EnoughOf
<1>3. Cardinality({}) = 0
  BY FS_EmptySet
<1> QED  BY <1>2, <1>3

LEMMA LooksAre ==
  ASSUME NEW values  PROVE LooksOf(values) \subseteq values \cup {Dead}
BY DEF LooksOf, TryAgain

\* Of looks that are dim or clear the low median is what most of them say.
SaidByMost(samples, x) ==
  /\ x \in {Dim, Clear}
  /\ x = Clear <=> Count(samples, {Clear}) > Count(samples, {Dim})
LEMMA ReadableIsOfMost ==
  ASSUME NEW n \in Nat \ {0}, NEW samples \in [1 .. n -> {Dim, Clear} \cup {Dead}], EnoughOf(samples),
         NEW x, x = MedianLow(samples)
  PROVE  SaidByMost(samples, x)
<1> DEFINE S == Usable(samples)
           dim == {i \in DOMAIN samples : samples[i] \in {Dim}}
           clear == {i \in DOMAIN samples : samples[i] \in {Clear}}
           d == Cardinality(dim)
           c == Cardinality(clear)
           s == Cardinality(S)
<1>0. {Dim, Clear} \in SUBSET (Nat \ {0}) /\ n \in Nat
  BY DEF Dim, Clear
<1>1. /\ x \in {Dim, Clear}
      /\ 2 * Cardinality(Below(samples, x)) < s
      /\ s <= 2 * Cardinality(NotAbove(samples, x))
  <2>1. S # {}
    BY EnoughIsSome
  <2> DEFINE marks == {Dim, Clear}
  <2>2. marks \in SUBSET (Nat \ {0}) /\ samples \in [1 .. n -> marks \cup {Dead}]
    BY <1>0
  <2> HIDE DEF marks
  <2>3. /\ x \in marks
        /\ 2 * Cardinality(Below(samples, x)) < Cardinality(Usable(samples))
        /\ Cardinality(Usable(samples)) <= 2 * Cardinality(NotAbove(samples, x))
    BY <1>0, <2>1, <2>2, MedianLowIs
  <2> QED  BY <2>3 DEF marks
<1>2. IsFiniteSet(1 .. n) /\ DOMAIN samples = 1 .. n /\ S \subseteq 1 .. n
  BY FS_Interval DEF Usable
<1>3. dim \subseteq S /\ clear = S \ dim
  BY DEF Usable, Dim, Clear, Dead
<1>4. IsFiniteSet(S) /\ s \in Nat
  <2> HIDE DEF S
  <2>1. IsFiniteSet(S) /\ Cardinality(S) \in Nat
    BY <1>2, SubsetsCount
  <2> QED  BY <2>1
<1>5. d \in Nat /\ c = s - d
  <2> HIDE DEF S, dim, clear
  <2>1. Cardinality(dim) \in Nat /\ Cardinality(S \ dim) = Cardinality(S) - Cardinality(dim)
    BY <1>3, <1>4, SubsetsCount, RestCounts
  <2> QED  BY <1>3, <2>1
<1>6. Count(samples, {Clear}) = c /\ Count(samples, {Dim}) = d
  BY DEF Count
<1> USE DEF SaidByMost
<1>7. CASE x = Clear
  <2>1. Below(samples, x) = dim
    BY <1>7 DEF Below, Usable, Dim, Clear, Dead
  <2>2. 2 * d < s
    BY <1>1, <2>1
  <2> HIDE DEF c, d, s
  <2> QED  BY <1>1, <1>4, <1>5, <1>6, <1>7, <2>2
<1>8. CASE x = Dim
  <2>1. NotAbove(samples, x) = dim
    BY <1>8 DEF NotAbove, Usable, Dim, Clear, Dead
  <2>2. s <= 2 * d
    BY <1>1, <2>1
  <2> HIDE DEF c, d, s
  <2> QED  BY <1>1, <1>4, <1>5, <1>6, <1>8, <2>2 DEF Dim, Clear
<1> QED  BY <1>1, <1>7, <1>8

LEMMA BlindKeeps == SweepInv /\ Blind => SweepInv'
<1> SUFFICES ASSUME SweepInv, Blind  PROVE SweepInv'
  OBVIOUS
<1>1. sweep.phase = "shots" /\ look.at = "blind" /\ UNCHANGED <<sweep, report>>
  BY DEF Blind, Looking
<1>2. AtShot <= Len(Shots)
  BY <1>1 DEF SweepInv, LookHolds, NoLook
<1>3. sweep.asked.reps \in Nat \ {0}
  BY <1>1, SweepsKnown DEF SweepInv, NoSweep, Swings
<1> DEFINE n == sweep.asked.reps
<1>4. PICK samples \in [1 .. n -> LooksOf({Dim, Clear})] :
        IF EnoughOf(samples)
        THEN /\ look' = [at |-> "match", samples |-> samples, readable |-> MedianLow(samples)]
             /\ UNCHANGED rows
        ELSE EndRow([status |-> "error"])
  BY DEF Blind
<1>5. samples \in [1 .. n -> {Dim, Clear} \cup {Dead}]
  <2> HIDE DEF n
  <2> QED  BY LooksAre
<1>6. CASE EnoughOf(samples)
  <2> DEFINE x == MedianLow(samples)
  <2>1. /\ x \in {Dim, Clear}
        /\ x = Clear <=> Count(samples, {Clear}) > Count(samples, {Dim})
    <3> HIDE DEF n, x
    <3>1. x = MedianLow(samples) /\ n \in Nat \ {0}
      BY <1>3 DEF x, n
    <3>2. SaidByMost(samples, x)
      BY <1>5, <1>6, <3>1, ReadableIsOfMost
    <3> QED  BY <3>2 DEF SaidByMost
  <2>2. look' = [at |-> "match", samples |-> samples, readable |-> x] /\ UNCHANGED rows
    BY <1>4, <1>6
  <2> HIDE DEF x
  <2>3. look'.at = "match" /\ look'.samples = samples /\ look'.readable = x
    BY <2>2
  <2>4. ReadableByMost'
    BY <2>1, <2>3 DEF ReadableByMost, Count
  <2>5. LookHolds'
    BY <1>1, <1>2, <2>1, <2>2, <2>3 DEF LookHolds, AtShot
  <2> QED  BY <1>1, <2>2, <2>4, <2>5, LookGoesOn
<1>7. CASE ~EnoughOf(samples)
  <2> DEFINE row == [status |-> "error"]
  <2>1. row \in RowSet /\ row.status # "scored" /\ EndRow(row)
    BY <1>4, <1>7 DEF RowSet
  <2> HIDE DEF row
  <2> QED  BY <1>1, <1>2, <2>1, RowEnds
<1> QED  BY <1>6, <1>7

LEMMA MatchKeeps == SweepInv /\ Match => SweepInv'
<1> SUFFICES ASSUME SweepInv, Match  PROVE SweepInv'
  OBVIOUS
<1>1. sweep.phase = "shots" /\ look.at = "match" /\ UNCHANGED <<sweep, report>>
  BY DEF Match, Looking
<1>2. AtShot <= Len(Shots) /\ look.readable \in {Dim, Clear}
  BY <1>1 DEF SweepInv, LookHolds, NoLook
<1>3. sweep.asked.reps \in Nat \ {0}
  BY <1>1, SweepsKnown DEF SweepInv, NoSweep, Swings
<1> DEFINE n == sweep.asked.reps
           scored(x) == [status |-> "scored", readable |-> look.readable, match |-> x, dsg |-> Undecomposed]
<1>4. PICK samples \in [1 .. n -> LooksOf(Grades)] :
        IF ~EnoughOf(samples) THEN EndRow([status |-> "error"])
        ELSE IF sweep.asked.dsg
             THEN look' = [at |-> "propositions", row |-> scored(MedianLow(samples))] /\ UNCHANGED rows
             ELSE EndRow(scored(MedianLow(samples)))
  BY DEF Match
<1>5. samples \in [1 .. n -> Grades \cup {Dead}]
  <2> HIDE DEF n
  <2> QED  BY LooksAre
<1>6. CASE EnoughOf(samples)
  <2> DEFINE x == MedianLow(samples)
             row == scored(x)
  <2>1. x \in Grades
    <3>1. Usable(samples) # {}
      <4> HIDE DEF n
      <4> QED  BY <1>3, <1>4, <1>6, EnoughIsSome DEF n
    <3> HIDE DEF n, x
    <3>2. x = MedianLow(samples) /\ Grades \in SUBSET (Nat \ {0}) /\ n \in Nat
      BY <1>3, GradesKnown DEF x, n
    <3> QED  BY <1>5, <3>1, <3>2, MedianLowIs
  <2> HIDE DEF x
  <2>2. row \in Undecided /\ row \in RowSet /\ row.dsg = Undecomposed
    <3>1. Undecomposed \in Fractions
      BY GradesKnown DEF Undecomposed, Fractions
    <3> QED  BY <1>2, <2>1, <3>1 DEF Undecided, RowSet, Judged
  <2>3. IF sweep.asked.dsg THEN look' = [at |-> "propositions", row |-> row] /\ UNCHANGED rows ELSE EndRow(row)
    BY <1>4, <1>6 DEF x
  <2> HIDE DEF row
  <2>4. CASE sweep.asked.dsg
    <3>1. look'.at = "propositions" /\ look'.row = row /\ look' = [at |-> "propositions", row |-> row] /\ UNCHANGED rows
      BY <2>3, <2>4
    <3>2. ReadableByMost' /\ LookHolds'
      BY <1>1, <1>2, <2>2, <3>1 DEF LookHolds, AtShot, ReadableByMost
    <3> QED  BY <1>1, <3>1, <3>2, LookGoesOn
  <2>5. CASE ~sweep.asked.dsg
    BY <1>1, <1>2, <2>2, <2>3, <2>5, RowEnds
  <2> QED  BY <2>4, <2>5
<1>7. CASE ~EnoughOf(samples)
  <2> DEFINE row == [status |-> "error"]
  <2>1. row \in RowSet /\ row.status # "scored" /\ EndRow(row)
    BY <1>4, <1>7 DEF RowSet
  <2> HIDE DEF row
  <2> QED  BY <1>1, <1>2, <2>1, RowEnds
<1> QED  BY <1>6, <1>7

LEMMA OpenShotKeeps == SweepInv /\ OpenShot => SweepInv'
<1> SUFFICES ASSUME SweepInv, OpenShot  PROVE SweepInv'
  OBVIOUS
<1>1. sweep.phase = "shots" /\ AtShot <= Len(Shots) /\ UNCHANGED <<sweep, report>>
  BY DEF OpenShot, Looking, MoreShots
<1>2. CASE EndRow([status |-> "skipped"])
  <2> DEFINE row == [status |-> "skipped"]
  <2>1. row \in RowSet /\ row.status # "scored" /\ EndRow(row)
    BY <1>2 DEF RowSet
  <2> HIDE DEF row
  <2> QED  BY <1>1, <2>1, RowEnds
<1>3. CASE look' = [at |-> "blind"] /\ UNCHANGED rows
  <2>1. look'.at = "blind"
    BY <1>3
  <2>2. ReadableByMost' /\ LookHolds'
    BY <1>1, <1>3, <2>1 DEF LookHolds, AtShot, ReadableByMost
  <2> QED  BY <1>1, <1>3, <2>2, LookGoesOn
<1> QED  BY <1>2, <1>3 DEF OpenShot

\* A look at propositions, or at their answers.
LEMMA LookIsDecomposed ==
  ASSUME SweepInv, look.at \in {"propositions", "answers"}
  PROVE  /\ sweep.phase = "shots" /\ AtShot <= Len(Shots) /\ look.row \in Undecided
         /\ look.at = "answers" =>
              /\ look = [at |-> "answers", row |-> look.row, props |-> look.props, answers |-> look.answers]
              /\ Answered(look.props, look.answers)
BY DEF SweepInv, LookHolds, NoLook

LEMMA UndecidedIsJudged ==
  ASSUME NEW row \in Undecided, NEW dsg \in Fractions
  PROVE  /\ [row EXCEPT !.dsg = dsg] \in RowSet /\ [row EXCEPT !.dsg = dsg].dsg = dsg
BY DEF Undecided, RowSet, Judged

LEMMA DecomposeKeeps == SweepInv /\ Decompose => SweepInv'
<1> SUFFICES ASSUME SweepInv, Decompose  PROVE SweepInv'
  OBVIOUS
<1>1. sweep.phase = "shots" /\ look.at = "propositions" /\ UNCHANGED <<sweep, report>>
  BY DEF Decompose, Looking
<1>2. AtShot <= Len(Shots) /\ look.row \in Undecided
  BY <1>1, LookIsDecomposed
<1>3. PICK props \in Graphs :
        IF WellFormed(props)
        THEN look' = [at |-> "answers", row |-> look.row, props |-> props, answers |-> <<>>] /\ UNCHANGED rows
        ELSE EndRow([look.row EXCEPT !.dsg.is = "error"])
  BY DEF Decompose
<1>4. CASE WellFormed(props)
  <2> DEFINE row == look.row
  <2>1. look' = [at |-> "answers", row |-> row, props |-> props, answers |-> <<>>] /\ UNCHANGED rows
    BY <1>3, <1>4
  <2>2. row \in Undecided
    BY <1>2
  <2> HIDE DEF row
  <2>3. look'.at = "answers" /\ look'.row = row /\ look'.props = props /\ look'.answers = <<>>
    BY <2>1
  <2>4. Answered(props, <<>>)
    <3>1. Len(props) \in Nat
      BY <1>4, GradesKnown DEF WellFormed
    <3> QED  BY <1>3, <1>4, <3>1 DEF Answered
  <2>5. ReadableByMost' /\ LookHolds'
    BY <1>1, <1>2, <2>1, <2>2, <2>3, <2>4 DEF LookHolds, AtShot, ReadableByMost
  <2> QED  BY <1>1, <2>1, <2>5, LookGoesOn
<1>5. CASE ~WellFormed(props)
  <2> DEFINE dsg == [Undecomposed EXCEPT !.is = "error"]
             row == [look.row EXCEPT !.dsg = dsg]
  <2>1. dsg \in Fractions /\ dsg.is = "error"
    BY GradesKnown DEF Undecomposed, Fractions
  <2>2. [look.row EXCEPT !.dsg.is = "error"] = row
    BY <1>2 DEF Undecided
  <2>3. EndRow(row)
    BY <1>3, <1>5, <2>2
  <2> HIDE DEF dsg
  <2>4. row \in RowSet /\ row.dsg = dsg
    BY <1>2, <2>1, UndecidedIsJudged
  <2> HIDE DEF row
  <2> QED  BY <1>1, <1>2, <2>1, <2>3, <2>4, RowEnds
<1> QED  BY <1>4, <1>5

\* A proposition is answered as those before it call for, and calls for no
\* more when more are answered.
LEMMA OneMoreIsCalledFor ==
  ASSUME NEW props, NEW answers, Answered(props, answers), Len(answers) < Len(props),
         NEW says \in AnswerSet, says \in CalledFor(props, answers, Len(answers) + 1)
  PROVE  Answered(props, Append(answers, says))
<1> DEFINE n == Len(answers)
           more == Append(answers, says)
<1>1. answers \in Seq(AnswerSet) /\ n \in Nat /\ Len(props) \in Nat
  BY GradesKnown DEF Answered, WellFormed
<1>2. more \in Seq(AnswerSet) /\ Len(more) = n + 1 /\ \A j \in 1 .. n : more[j] = answers[j]
  <2> HIDE DEF AnswerSet
  <2> QED  BY <1>1
<1>3. more[n + 1] = says
  <2> HIDE DEF AnswerSet
  <2> QED  BY <1>1
<1> HIDE DEF more
<1>4. ASSUME NEW k \in 1 .. n + 1  PROVE CalledFor(props, more, k) = CalledFor(props, answers, k)
  <2>1. \A j \in 1 .. k - 1 : more[j] = answers[j]
    <3> HIDE DEF n
    <3> QED  BY <1>1, <1>2
  <2>2. \A id : HangsFrom(props, more, k, id) <=> HangsFrom(props, answers, k, id)
    BY <2>1 DEF HangsFrom
  <2> QED  BY <2>2 DEF CalledFor
<1>5. ASSUME NEW k \in 1 .. n + 1  PROVE more[k] \in CalledFor(props, more, k)
  <2>1. CASE k = n + 1
    BY <1>3, <1>4, <2>1
  <2>2. CASE k # n + 1
    <3>1. k \in 1 .. n
      <4> HIDE DEF n
      <4> QED  BY <1>1, <2>2
    <3> QED  BY <1>2, <1>4, <3>1 DEF Answered
  <2> QED  BY <2>1, <2>2
<1>6. n + 1 <= Len(props)
  <2> HIDE DEF n
  <2>1. n < Len(props)
    BY DEF n
  <2> QED  BY <1>1, <2>1
<1> QED  BY <1>2, <1>5, <1>6 DEF Answered, more

LEMMA AnswerKeeps == SweepInv /\ Answer => SweepInv'
<1> SUFFICES ASSUME SweepInv, Answer  PROVE SweepInv'
  OBVIOUS
<1>1. sweep.phase = "shots" /\ look.at = "answers" /\ UNCHANGED <<sweep, rows, report>>
  BY DEF Answer, Looking
<1> DEFINE row == look.row
           props == look.props
           answers == look.answers
           n == Len(answers)
<1>2. /\ AtShot <= Len(Shots) /\ row \in Undecided
      /\ look = [at |-> "answers", row |-> row, props |-> props, answers |-> answers]
      /\ Answered(props, answers)
  BY <1>1, LookIsDecomposed
<1>3. n < Len(props)
  BY DEF Answer
<1>4. n \in Nat /\ Len(props) \in Nat /\ DOMAIN answers = 1 .. n
  BY <1>2, GradesKnown DEF Answered, WellFormed
<1>5. PICK says \in IF IsPerson(props[n + 1]) THEN {"person"}
                    ELSE IF props[n + 1].parent # "none" /\ ~Stands(props[n + 1].parent) THEN {"invalid"}
                    ELSE {"yes", "no", "dead"} :
        look' = [look EXCEPT !.answers = Append(@, says)]
  BY DEF Answer
<1>6. \A id : Stands(id) <=> HangsFrom(props, answers, n + 1, id)
  <2>1. 1 .. (n + 1) - 1 = DOMAIN answers
    <3> HIDE DEF n, answers
    <3> QED  BY <1>4
  <2> QED  BY <2>1 DEF Stands, HangsFrom
<1>7. says \in CalledFor(props, answers, n + 1) /\ says \in AnswerSet
  BY <1>5, <1>6 DEF CalledFor, AnswerSet
<1>8. look' = [at |-> "answers", row |-> row, props |-> props, answers |-> Append(answers, says)]
  <2>1. look' = [look EXCEPT !.answers = Append(answers, says)]
    BY <1>5
  <2> HIDE DEF row, props, answers
  <2> QED  BY <1>2, <2>1
<1> HIDE DEF row, props, answers
<1>9. Answered(props, Append(answers, says))
  BY <1>2, <1>3, <1>7, OneMoreIsCalledFor DEF n
<1>10. look'.at = "answers" /\ look'.row = row /\ look'.props = props /\ look'.answers = Append(answers, says)
  BY <1>8
<1>11. ReadableByMost' /\ LookHolds'
  BY <1>1, <1>2, <1>8, <1>9, <1>10 DEF LookHolds, AtShot, ReadableByMost
<1> QED  BY <1>1, <1>11, LookGoesOn

LEMMA PartIsOfWhole ==
  ASSUME NEW w \in Nat, NEW a \in Nat \ {0}, NEW y \in 0 .. a  PROVE (w * y) \div a \in 0 .. w
<1> DEFINE z == w * y
           q == z \div a
<1>1. y \in Nat /\ z \in Nat
  OBVIOUS
<1>2. z <= w * a
  <2> DEFINE d == a - y
  <2>1. d \in Nat /\ a = y + d
    OBVIOUS
  <2> HIDE DEF d
  <2>2. w * a = w * y + w * d /\ w * d \in Nat
    BY <1>1, <2>1
  <2> DEFINE v == w * d
             u == w * a
  <2>3. u = z + v /\ v \in Nat
    BY <2>2
  <2> HIDE DEF z, u, v
  <2>4. z <= u
    BY <1>1, <2>3
  <2> QED  BY <2>4 DEF u
<1> HIDE DEF z
<1>3. q \in Nat /\ q * a <= z
  BY <1>1
<1> HIDE DEF q
<1>4. q <= w
  <2> SUFFICES ASSUME q >= w + 1  PROVE FALSE
    BY <1>3
  <2> DEFINE d == q - (w + 1)
  <2>1. d \in Nat /\ q = (w + 1) + d
    BY <1>3
  <2> HIDE DEF d
  <2>2. q * a = w * a + a + d * a /\ d * a \in Nat /\ w * a \in Nat
    BY <2>1
  <2> DEFINE b == q * a
             u == w * a
             v == d * a
  <2>3. b = u + a + v /\ v \in Nat /\ u \in Nat /\ b <= z /\ z <= u
    BY <1>2, <1>3, <2>2
  <2> HIDE DEF b, u, v
  <2> QED  BY <1>1, <2>3
<1> QED  BY <1>3, <1>4 DEF q, z

LEMMA ScoresAreFractions ==
  ASSUME NEW answers \in Seq(AnswerSet)
  PROVE  DsgScore(answers) \in Fractions /\ DsgScore(answers).is \in {"scored", "unscorable"}
<1> DEFINE of(says) == {k \in DOMAIN answers : answers[k] \in says}
           all == {"yes", "no", "dead", "invalid"}
           a == Count(answers, all)
           y == Count(answers, {"yes"})
           f == Count(answers, {"dead"})
<1>1. IsFiniteSet(of(all)) /\ of({"yes"}) \subseteq of(all) /\ of({"dead"}) \subseteq of(all)
  <2> DEFINE n == Len(answers)
  <2>1. DOMAIN answers = 1 .. n /\ n \in Nat
    OBVIOUS
  <2>2. IsFiniteSet(1 .. n)
    BY <2>1, FS_Interval
  <2> HIDE DEF n
  <2>3. of(all) \subseteq 1 .. n
    BY <2>1
  <2> HIDE DEF of, all
  <2>4. IsFiniteSet(of(all))
    BY <2>2, <2>3, SubsetsCount
  <2> QED  BY <2>4 DEF of, all
<1>2. a = Cardinality(of(all)) /\ y = Cardinality(of({"yes"})) /\ f = Cardinality(of({"dead"}))
  BY DEF Count
<1> HIDE DEF of, all, a, y, f
<1>3. a \in Nat /\ y \in Nat /\ y <= a /\ f \in Nat
  BY <1>1, <1>2, SubsetsCount
<1>4. DsgScore(answers) =
        IF a = 0 THEN [is |-> "unscorable", part |-> 0, failed |-> 0]
        ELSE [is |-> "scored", part |-> (Whole * y) \div a, failed |-> f]
  BY DEF DsgScore, a, y, f, all
<1>5. CASE a = 0
  BY <1>4, <1>5, GradesKnown DEF Fractions
<1>6. CASE a # 0
  <2> DEFINE part == (Whole * y) \div a
  <2>1. part \in 0 .. Whole
    BY <1>3, <1>6, GradesKnown, PartIsOfWhole
  <2>2. DsgScore(answers) = [is |-> "scored", part |-> part, failed |-> f]
    BY <1>4, <1>6
  <2> HIDE DEF part
  <2> QED  BY <1>3, <2>1, <2>2 DEF Fractions
<1> QED  BY <1>5, <1>6

LEMMA EndAnswersKeeps == SweepInv /\ EndAnswers => SweepInv'
<1> SUFFICES ASSUME SweepInv, EndAnswers  PROVE SweepInv'
  OBVIOUS
<1>1. sweep.phase = "shots" /\ look.at = "answers" /\ UNCHANGED <<sweep, report>>
  BY DEF EndAnswers, Looking
<1>2. AtShot <= Len(Shots) /\ look.row \in Undecided /\ look.answers \in Seq(AnswerSet)
  BY <1>1, LookIsDecomposed DEF Answered
<1> DEFINE dsg == DsgScore(look.answers)
           row == [look.row EXCEPT !.dsg = dsg]
<1>3. dsg \in Fractions /\ dsg.is \in {"scored", "unscorable"}
  BY <1>2, ScoresAreFractions
<1>4. EndRow(row)
  BY DEF EndAnswers
<1> HIDE DEF dsg
<1>5. row \in RowSet /\ row.dsg = dsg
  BY <1>2, <1>3, UndecidedIsJudged
<1> HIDE DEF row
<1> QED  BY <1>1, <1>2, <1>3, <1>4, <1>5, RowEnds

LEMMA LookIsOver == LookHolds /\ look.at = "none" => look = NoLook
BY DEF LookHolds

LEMMA SummarizeKeeps == SweepInv /\ Summarize => SweepInv'
<1> SUFFICES ASSUME SweepInv, Summarize  PROVE SweepInv'
  OBVIOUS
<1>1. sweep.phase = "shots" /\ look.at = "none" /\ ~MoreShots /\ UNCHANGED <<rows, look>>
  BY DEF Summarize, Swept, Looking
<1>2. look = NoLook /\ sweep \in Swings
  BY <1>1, LookIsOver DEF SweepInv, NoSweep
<1>3. PICK phase \in {"publishing", "done"} :
        /\ sweep' = [sweep EXCEPT !.phase = phase]
        /\ IF phase = "publishing" THEN sweep.asked.dsg /\ ~Withheld /\ report' = Torn ELSE UNCHANGED report
  BY DEF Summarize
<1>4. sweep' \in Swings /\ sweep'.phase = phase /\ sweep'.asked = sweep.asked /\ sweep' # NoSweep /\ sweep # NoSweep
  BY <1>1, <1>2, <1>3 DEF Swings, NoSweep
<1>5. RowsHold'
  BY <1>1, <1>4 DEF SweepInv, RowsHold
<1>6. (LookHolds /\ ReadableByMost)'
  BY <1>1, <1>2 DEF LookHolds, ReadableByMost, NoLook
<1>7. report' \in Reports
  BY <1>3 DEF SweepInv, Reports
<1>8. phase = "publishing" => (look = NoLook /\ sweep.asked.dsg /\ ~Withheld /\ ~MoreShots)' /\ report' = Torn
  BY <1>1, <1>2, <1>3, <1>4 DEF Withheld, MoreShots, AtShot, Unjudged, ScoredRows, Parts
<1> QED  BY <1>3, <1>4, <1>5, <1>6, <1>7, <1>8 DEF SweepInv

\* What a report says is of rows that were scored.
LEMMA ScoredRowsAre ==
  ASSUME SweepInv, NEW is \in {"scored", "unscorable", "error"}
  PROVE  /\ IsFiniteSet(ScoredRows) /\ ScoredRows \subseteq 1 .. Len(rows) /\ DOMAIN rows = 1 .. Len(rows)
         /\ Parts(is) \subseteq ScoredRows /\ IsFiniteSet(Parts(is))
         /\ \A k \in ScoredRows : rows[k] \in Judged
<1> DEFINE n == Len(rows)
<1>1. n \in Nat /\ DOMAIN rows = 1 .. n /\ \A k \in 1 .. n : rows[k] \in RowSet
  <2> HIDE DEF RowSet
  <2> QED  BY DEF SweepInv, RowsHold
<1>2. IsFiniteSet(1 .. n)
  BY <1>1, FS_Interval
<1> HIDE DEF n
<1>3. ScoredRows \subseteq 1 .. n /\ Parts(is) \subseteq ScoredRows
  BY <1>1 DEF ScoredRows, Parts
<1>4. IsFiniteSet(ScoredRows)
  BY <1>2, <1>3, SubsetsCount
<1>5. IsFiniteSet(Parts(is))
  BY <1>3, <1>4, SubsetsCount
<1>6. \A k \in ScoredRows : rows[k] \in Judged
  <2> SUFFICES ASSUME NEW k \in ScoredRows  PROVE rows[k] \in Judged
    OBVIOUS
  <2>1. rows[k] \in RowSet /\ rows[k].status = "scored"
    BY <1>1, <1>3 DEF ScoredRows
  <2> QED  BY <2>1 DEF RowSet
<1> QED  BY <1>1, <1>3, <1>4, <1>5, <1>6 DEF n

LEMMA SummaryIs ==
  ASSUME SweepInv
  PROVE  /\ Summary \in [is : {"report"}, scored : Int, unreadable : Int, sum : Int, of : Int]
         /\ Summary.scored = Cardinality(ScoredRows) /\ Summary.scored \in Nat
         /\ Summary.of = Cardinality(Parts("scored")) /\ Summary.of \in Nat
         /\ Summary.unreadable = Cardinality({k \in ScoredRows : rows[k].readable = Dim})
         /\ Summary.unreadable \in 0 .. Summary.scored
         /\ Summary.sum \in 0 .. Summary.of * Whole
<1>1. /\ IsFiniteSet(ScoredRows) /\ Parts("scored") \subseteq ScoredRows /\ IsFiniteSet(Parts("scored"))
      /\ \A k \in ScoredRows : rows[k] \in Judged
  BY ScoredRowsAre
<1> DEFINE dim == {k \in ScoredRows : rows[k].readable = Dim}
<1>2. dim \subseteq ScoredRows
  OBVIOUS
<1>3. Summary.scored = Cardinality(ScoredRows) /\ Summary.of = Cardinality(Parts("scored")) /\ Summary.unreadable = Cardinality(dim)
  BY DEF Summary
<1> HIDE DEF dim
<1>4. Cardinality(ScoredRows) \in Nat /\ Cardinality(Parts("scored")) \in Nat
      /\ Cardinality(dim) \in 0 .. Cardinality(ScoredRows)
  BY <1>1, <1>2, SubsetsCount
<1>5. \A k \in Parts("scored") : rows[k].dsg.part \in 0 .. Whole
  BY <1>1 DEF Judged, Fractions
<1>6. Summary.sum \in 0 .. Cardinality(Parts("scored")) * Whole
  BY <1>1, <1>5, PartsAreSummed
<1>7. Cardinality(Parts("scored")) * Whole \in Nat
  BY <1>4, GradesKnown
<1>8. Summary.sum \in Int
  <2> DEFINE m == Cardinality(Parts("scored")) * Whole
  <2>1. Summary.sum \in 0 .. m /\ m \in Nat
    BY <1>6, <1>7
  <2> HIDE DEF m
  <2> QED  BY <2>1
<1>9. Summary = [is |-> "report", scored |-> Summary.scored, unreadable |-> Summary.unreadable,
                 sum |-> Summary.sum, of |-> Summary.of]
  BY DEF Summary
<1>10. Summary.scored \in Int /\ Summary.unreadable \in Int /\ Summary.of \in Int
  BY <1>3, <1>4
<1>11. Summary \in [is : {"report"}, scored : Int, unreadable : Int, sum : Int, of : Int]
  <2> DEFINE a == Summary.scored
             b == Summary.unreadable
             c == Summary.sum
             d == Summary.of
  <2>1. a \in Int /\ b \in Int /\ c \in Int /\ d \in Int
    BY <1>8, <1>10
  <2> HIDE DEF a, b, c, d
  <2>2. [is |-> "report", scored |-> a, unreadable |-> b, sum |-> c, of |-> d] \in
          [is : {"report"}, scored : Int, unreadable : Int, sum : Int, of : Int]
    BY <2>1
  <2> QED  BY <1>9, <2>2 DEF a, b, c, d
<1> QED  BY <1>3, <1>4, <1>6, <1>11 DEF dim

LEMMA SummaryStays ==
  ASSUME rows' = rows  PROVE Summary' = Summary
BY DEF Summary, ScoredRows, Parts, MapThenSumSet, MapThenFoldSet

LEMMA PublishKeeps == SweepInv /\ Publish => SweepInv'
<1> SUFFICES ASSUME SweepInv, Publish  PROVE SweepInv'
  OBVIOUS
<1>1. /\ sweep.phase = "publishing" /\ sweep' = [sweep EXCEPT !.phase = "published"]
      /\ report' = Summary /\ UNCHANGED <<rows, look>>
  BY DEF Publish
<1>2. look = NoLook /\ sweep \in Swings
  BY <1>1 DEF SweepInv, NoSweep
<1>3. sweep' \in Swings /\ sweep'.phase = "published" /\ sweep'.asked = sweep.asked /\ sweep' # NoSweep /\ sweep # NoSweep
  BY <1>1, <1>2 DEF Swings, NoSweep
<1>4. RowsHold'
  BY <1>1, <1>3 DEF SweepInv, RowsHold
<1>5. (LookHolds /\ ReadableByMost)'
  BY <1>1, <1>2 DEF LookHolds, ReadableByMost, NoLook
<1>6. report' \in Reports
  BY <1>1, SummaryIs DEF Reports
<1>7. (look = NoLook /\ sweep.asked.dsg /\ ~Withheld /\ ~MoreShots)' 
  BY <1>1, <1>2, <1>3 DEF SweepInv, Withheld, MoreShots, AtShot, Unjudged, ScoredRows, Parts
<1>8. report' = Summary'
  BY <1>1, SummaryStays
<1> QED  BY <1>3, <1>4, <1>5, <1>6, <1>7, <1>8 DEF SweepInv

LEMMA SweepKeeps == SweepInv /\ [SweepNext]_sweepVars => SweepInv'
<1> SUFFICES ASSUME SweepInv, [SweepNext]_sweepVars  PROVE SweepInv'
  OBVIOUS
<1>1. CASE LeaveReport
  <2>1. sweep = NoSweep /\ sweep.phase = "idle" /\ report' \in Found /\ UNCHANGED <<sweep, rows, look>>
    BY <1>1 DEF LeaveReport, NoSweep
  <2>2. Found \subseteq Reports
    BY AnswersKnown DEF Reports, Torn
  <2> QED  BY <2>1, <2>2 DEF SweepInv, RowsHold, LookHolds, ReadableByMost, AtShot
<1>2. CASE StartSweep
  <2>1. sweep = NoSweep /\ UNCHANGED <<rows, look, report>> /\ rows = <<>> /\ look = NoLook
    BY <1>2 DEF StartSweep, SweepInv, NoSweep, Swings
  <2>2. sweep' \in Swings /\ sweep'.phase = "shots"
    BY <1>2 DEF StartSweep, Swings
  <2>3. RowsHold'
    BY <2>1 DEF SweepInv, RowsHold
  <2> QED  BY <2>1, <2>2, <2>3 DEF SweepInv, LookHolds, ReadableByMost
<1>3. CASE UNCHANGED sweepVars
  <2>1. UNCHANGED <<sweep, rows, look, report>>
    BY <1>3 DEF sweepVars
  <2>2. Summary' = Summary
    BY <2>1, SummaryStays
  <2> QED
    BY <2>1, <2>2 DEF SweepInv, RowsHold, LookHolds, ReadableByMost, AtShot, Withheld, Unjudged, ScoredRows, Parts,
       MoreShots
<1> QED
  BY <1>1, <1>2, <1>3, OpenShotKeeps, BlindKeeps, MatchKeeps, DecomposeKeeps, AnswerKeeps, EndAnswersKeeps,
     SummarizeKeeps, PublishKeeps DEF SweepNext

-----------------------------------------------------------------------------
(* The fraction is of the scenery that was seen.                            *)

Rooted(k) == ParentOf(k) \cap Scenery = {}
SaidYes(k) == look.answers[k] = "yes"

LEMMA ParentIs ==
  ASSUME Answered(look.props, look.answers), NEW k \in 1 .. Len(look.answers)
  PROVE  /\ ParentOf(k) \subseteq 1 .. k - 1 /\ k \in 1 .. Len(look.props)
         /\ look.props[k].parent = "none" => ParentOf(k) = {}
         /\ look.props[k].parent # "none" => \E j \in 1 .. k - 1 : ParentOf(k) = {j}
<1> DEFINE props == look.props
<1>1. Len(props) \in Nat /\ Len(look.answers) \in Nat /\ Len(look.answers) <= Len(props)
  BY GradesKnown DEF Answered, WellFormed
<1>2. props \in Seq(Proposition) /\ DOMAIN props = 1 .. Len(props)
  <2>1. props \in Seq(Proposition)
    BY AnswersKnown DEF Answered
  <2> HIDE DEF props
  <2> QED  BY <2>1 DEF Proposition
<1>3. \A j \in 1 .. Len(props) : props[j].id # "none"
  BY <1>2, AnswersKnown DEF Answered
<1>4. k \in 1 .. Len(props) /\ 1 .. k - 1 \subseteq 1 .. Len(props)
  <2> HIDE DEF props
  <2> QED  BY <1>1
<1>5. /\ \A h \in 1 .. Len(props) : \A j \in 1 .. h - 1 : props[j].id # props[h].id
      /\ props[k].parent = "none" \/ \E j \in 1 .. k - 1 : props[j].id = props[k].parent
  BY <1>2, <1>4 DEF Answered, WellFormed
<1>6. ParentOf(k) = {j \in 1 .. k - 1 : props[j].id = props[k].parent}
  BY DEF ParentOf
<1> HIDE DEF props
<1>7. ASSUME props[k].parent # "none"  PROVE \E j \in 1 .. k - 1 : ParentOf(k) = {j}
  <2>1. PICK j \in 1 .. k - 1 : props[j].id = props[k].parent
    BY <1>5, <1>7
  <2>2. ASSUME NEW h \in 1 .. k - 1, props[h].id = props[k].parent  PROVE h = j
    <3>1. h \in 1 .. Len(props) /\ j \in 1 .. Len(props) /\ props[h].id = props[j].id
      BY <1>4, <2>1, <2>2
    <3>2. ~(h \in 1 .. j - 1) /\ ~(j \in 1 .. h - 1)
      BY <1>5, <3>1
    <3> QED  BY <1>1, <3>1, <3>2
  <2> QED  BY <1>6, <2>1, <2>2
<1>8. props[k].parent = "none" => ParentOf(k) = {}
  BY <1>3, <1>4, <1>6
<1>9. ParentOf(k) \subseteq 1 .. k - 1
  BY <1>6
<1> QED  BY <1>4, <1>7, <1>8, <1>9 DEF props

\* An answer, in terms of the scenery its proposition hangs from.
SeenBelow(k) == Rooted(k) \/ \E j \in ParentOf(k) : SaidYes(j)

LEMMA AnswersFollow ==
  ASSUME Answered(look.props, look.answers), NEW k \in 1 .. Len(look.answers)
  PROVE  /\ k \in Scenery <=> look.answers[k] # "person"
         /\ k \in Scenery <=> ~IsPerson(look.props[k])
         /\ look.answers[k] \in AnswerSet
         /\ k \in Scenery => (look.answers[k] = "invalid" <=> ~SeenBelow(k))
         /\ SaidYes(k) => k \in Scenery /\ SeenBelow(k)
<1> DEFINE props == look.props
           answers == look.answers
           n == Len(answers)
<1>1. n \in Nat /\ DOMAIN answers = 1 .. n /\ \A h \in 1 .. n : answers[h] \in CalledFor(props, answers, h)
  BY DEF Answered
<1>2. \A h \in 1 .. n : (h \in Scenery <=> ~IsPerson(props[h])) /\ (IsPerson(props[h]) <=> answers[h] = "person")
  BY <1>1 DEF Scenery, CalledFor
<1>3. answers[k] \in AnswerSet
  BY <1>1 DEF CalledFor, AnswerSet
<1>4. /\ ParentOf(k) \subseteq 1 .. k - 1
      /\ props[k].parent = "none" => ParentOf(k) = {}
      /\ props[k].parent # "none" => \E j \in 1 .. k - 1 : ParentOf(k) = {j}
  BY ParentIs
<1>5. HangsFrom(props, answers, k, props[k].parent) <=> \E j \in ParentOf(k) : answers[j] \in Supplied
  BY DEF HangsFrom, ParentOf
<1>6. 1 .. k - 1 \subseteq 1 .. n
  <2> HIDE DEF n
  <2>1. k \in 1 .. n
    BY DEF n
  <2> QED  BY <1>1, <2>1
<1>7. \A j \in ParentOf(k) : answers[j] \in Supplied <=> j \notin Scenery \/ SaidYes(j)
  BY <1>2, <1>4, <1>6 DEF Supplied, SaidYes
<1>8. props[k].parent # "none" /\ ~HangsFrom(props, answers, k, props[k].parent) <=> ~SeenBelow(k)
  <2>1. CASE props[k].parent = "none"
    BY <1>4, <2>1 DEF SeenBelow, Rooted
  <2>2. CASE props[k].parent # "none"
    <3>1. PICK j \in 1 .. k - 1 : ParentOf(k) = {j}
      BY <1>4, <2>2
    <3>2. HangsFrom(props, answers, k, props[k].parent) <=> j \notin Scenery \/ SaidYes(j)
      BY <1>5, <1>7, <3>1
    <3>3. SeenBelow(k) <=> j \notin Scenery \/ SaidYes(j)
      BY <3>1 DEF SeenBelow, Rooted
    <3> QED  BY <2>2, <3>2, <3>3
  <2> QED  BY <2>1, <2>2
<1>9. answers[k] \in IF IsPerson(props[k]) THEN {"person"} ELSE IF ~SeenBelow(k) THEN {"invalid"} ELSE {"yes", "no", "dead"}
  BY <1>1, <1>8 DEF CalledFor
<1> QED  BY <1>2, <1>3, <1>9 DEF SaidYes

SeenAs(f) ==
  f = [k \in DOMAIN look.answers |-> look.answers[k] = "yes" /\ (Rooted(k) \/ \E j \in ParentOf(k) : f[j])]

LEMMA SeenIsYes ==
  ASSUME Answered(look.props, look.answers)
  PROVE  /\ \E f : SeenAs(f)
         /\ \A f : SeenAs(f) => \A k \in 1 .. Len(look.answers) : f[k] <=> SaidYes(k)
<1> DEFINE n == Len(look.answers)
           D == DOMAIN look.answers
<1>1. n \in Nat /\ D = 1 .. n
  BY DEF Answered
<1>2. \A k \in D : /\ SaidYes(k) => SeenBelow(k)
                   /\ ParentOf(k) \subseteq 1 .. k - 1 /\ ParentOf(k) \subseteq D
  <2> SUFFICES ASSUME NEW k \in D
               PROVE  /\ SaidYes(k) => SeenBelow(k)
                      /\ ParentOf(k) \subseteq 1 .. k - 1 /\ ParentOf(k) \subseteq D
    OBVIOUS
  <2>1. k \in 1 .. n
    BY <1>1
  <2>2. SaidYes(k) => SeenBelow(k)
    BY <2>1, AnswersFollow
  <2>3. ParentOf(k) \subseteq 1 .. k - 1
    BY <2>1, ParentIs
  <2> HIDE DEF n, D
  <2> QED  BY <1>1, <2>1, <2>2, <2>3
<1> HIDE DEF D, n
<1>3. \E f : SeenAs(f)
  <2> DEFINE f == [k \in D |-> SaidYes(k)]
  <2>1. \A k \in D : SaidYes(k) <=> (look.answers[k] = "yes" /\ (Rooted(k) \/ \E j \in ParentOf(k) : f[j]))
    BY <1>2 DEF SaidYes, SeenBelow
  <2>2. \A k \in D : SaidYes(k) \in BOOLEAN
    BY DEF SaidYes
  <2>3. f = [k \in D |-> look.answers[k] = "yes" /\ (Rooted(k) \/ \E j \in ParentOf(k) : f[j])]
    BY <2>1, <2>2
  <2> HIDE DEF f
  <2>4. SeenAs(f)
    BY <2>3 DEF SeenAs, D
  <2> QED  BY <2>4
<1>4. ASSUME NEW f, SeenAs(f)  PROVE \A k \in 1 .. n : f[k] <=> SaidYes(k)
  <2> DEFINE P == {m \in 0 .. n : \A k \in 1 .. m : f[k] <=> SaidYes(k)}
  <2>1. \A k \in D : f[k] <=> (SaidYes(k) /\ (Rooted(k) \/ \E j \in ParentOf(k) : f[j]))
    BY <1>4 DEF SeenAs, D, SaidYes
  <2>2. 0 \in P
    BY <1>1
  <2>3. ASSUME NEW m \in 1 .. n, m - 1 \in P  PROVE m \in P
    <3>1. \A k \in 1 .. m - 1 : f[k] <=> SaidYes(k)
      BY <2>3
    <3>2. f[m] <=> SaidYes(m)
      <4>1. m \in D
        BY <1>1
      <4>2. \A j \in ParentOf(m) : f[j] <=> SaidYes(j)
        BY <1>2, <3>1, <4>1
      <4>3. f[m] <=> (SaidYes(m) /\ (Rooted(m) \/ \E j \in ParentOf(m) : f[j]))
        BY <2>1, <4>1
      <4>4. SaidYes(m) => Rooted(m) \/ \E j \in ParentOf(m) : SaidYes(j)
        BY <1>2, <4>1 DEF SeenBelow
      <4> QED  BY <4>2, <4>3, <4>4
    <3>3. \A k \in 1 .. m : k \in 1 .. m - 1 \/ k = m
      BY <1>1
    <3> QED  BY <1>1, <3>1, <3>2, <3>3
  <2> HIDE DEF P
  <2>4. \A m \in 0 .. n : m \in P
    BY <1>1, <2>2, <2>3, FromEachToTheNext
  <2>5. n \in P
    BY <1>1, <2>4
  <2> QED  BY <2>5 DEF P
<1> QED  BY <1>3, <1>4 DEF n

FractionIsOf(f) ==
  LET score == DsgScore(look.answers)
  IN /\ Scenery = {} <=> score.is = "unscorable"
     /\ Scenery # {} => score.part = (Whole * Cardinality({k \in Scenery : f[k]})) \div Cardinality(Scenery)
     /\ \A k \in DOMAIN look.answers :
          look.answers[k] \in {"person", "invalid"}
            <=> k \notin Scenery \/ (~Rooted(k) /\ \A j \in ParentOf(k) : ~f[j])

LEMMA FractionIsOfYes ==
  ASSUME Answered(look.props, look.answers), NEW f, \A k \in 1 .. Len(look.answers) : f[k] <=> SaidYes(k)
  PROVE  FractionIsOf(f)
<1> DEFINE answers == look.answers
           n == Len(answers)
           all == {"yes", "no", "dead", "invalid"}
           a == Count(answers, all)
           y == Count(answers, {"yes"})
           score == DsgScore(answers)
<1>1. n \in Nat /\ DOMAIN answers = 1 .. n
  BY DEF Answered
<1>2. \A k \in 1 .. n : /\ k \in Scenery <=> answers[k] # "person"
                        /\ answers[k] \in AnswerSet
                        /\ k \in Scenery => (answers[k] = "invalid" <=> ~SeenBelow(k))
                        /\ SaidYes(k) => k \in Scenery /\ SeenBelow(k)
                        /\ ParentOf(k) \subseteq 1 .. n
  <2> SUFFICES ASSUME NEW k \in 1 .. n  PROVE ParentOf(k) \subseteq 1 .. n
    BY AnswersFollow
  <2>1. ParentOf(k) \subseteq 1 .. k - 1
    BY ParentIs
  <2> HIDE DEF n
  <2> QED  BY <1>1, <2>1
<1>3. Scenery \subseteq 1 .. n
  BY <1>1 DEF Scenery
<1>4. a = Cardinality(Scenery)
  <2>1. {k \in DOMAIN answers : answers[k] \in all} = Scenery
    <3> HIDE DEF n, answers
    <3> QED  BY <1>1, <1>2, <1>3 DEF AnswerSet
  <2> QED  BY <2>1 DEF Count
<1>5. y = Cardinality({k \in Scenery : f[k]})
  <2>1. \A k \in 1 .. n : f[k] <=> answers[k] = "yes"
    BY DEF SaidYes
  <2>2. {k \in DOMAIN answers : answers[k] \in {"yes"}} = {k \in Scenery : f[k]}
    <3> HIDE DEF n, answers
    <3> QED  BY <1>1, <1>2, <1>3, <2>1
  <2> QED  BY <2>2 DEF Count
<1>6. IsFiniteSet(Scenery)
  <2> HIDE DEF n
  <2>1. IsFiniteSet(1 .. n)
    BY <1>1, FS_Interval
  <2> QED  BY <1>3, <2>1, SubsetsCount
<1>7. Cardinality(Scenery) = 0 <=> Scenery = {}
  BY <1>6, FS_EmptySet
<1>8. score = IF a = 0 THEN [is |-> "unscorable", part |-> 0, failed |-> 0]
              ELSE [is |-> "scored", part |-> (Whole * y) \div a, failed |-> Count(answers, {"dead"})]
  BY DEF DsgScore
<1>9. /\ score.is = "unscorable" <=> a = 0
      /\ a # 0 => score.part = (Whole * y) \div a
  <2> HIDE DEF a, y, score
  <2> QED  BY <1>8
<1>10. ASSUME NEW k \in DOMAIN answers
       PROVE  answers[k] \in {"person", "invalid"}
                <=> k \notin Scenery \/ (~Rooted(k) /\ \A j \in ParentOf(k) : ~f[j])
  <2>1. k \in 1 .. n
    BY <1>1
  <2>2. \A j \in ParentOf(k) : f[j] <=> SaidYes(j)
    BY <1>2, <2>1
  <2>3. ~SeenBelow(k) <=> (~Rooted(k) /\ \A j \in ParentOf(k) : ~f[j])
    BY <2>2 DEF SeenBelow
  <2> HIDE DEF n, answers
  <2> QED  BY <1>2, <2>1, <2>3
<1> HIDE DEF a, y, score
<1>11. /\ Scenery = {} <=> score.is = "unscorable"
       /\ Scenery # {} => score.part = (Whole * Cardinality({k \in Scenery : f[k]})) \div Cardinality(Scenery)
  BY <1>4, <1>5, <1>7, <1>9
<1> QED  BY <1>10, <1>11 DEF FractionIsOf, score

LEMMA SceneryIsSeen == SweepInv => FractionIsOfScenery
<1> SUFFICES ASSUME SweepInv, look.at = "answers"  PROVE FractionIsOfScenery
  BY DEF FractionIsOfScenery
<1> DEFINE chosen ==
      CHOOSE seen : seen =
        [k \in DOMAIN look.answers |->
           look.answers[k] = "yes" /\ (ParentOf(k) \cap Scenery = {} \/ \E j \in ParentOf(k) : seen[j])]
<1>1. Answered(look.props, look.answers)
  BY LookIsDecomposed
<1>2. chosen = CHOOSE seen : SeenAs(seen)
  BY Zenon DEF SeenAs, Rooted
<1>3. SeenAs(chosen)
  <2> HIDE DEF chosen
  <2>1. \E f : SeenAs(f)
    BY <1>1, SeenIsYes
  <2> QED  BY <1>2, <2>1
<1>4. \A k \in 1 .. Len(look.answers) : chosen[k] <=> SaidYes(k)
  <2> HIDE DEF chosen
  <2> QED  BY <1>1, <1>3, SeenIsYes
<1>5. FractionIsOf(chosen)
  <2> HIDE DEF chosen
  <2> QED  BY <1>1, <1>4, FractionIsOfYes
<1> QED  BY <1>5, Zenon DEF FractionIsOf, FractionIsOfScenery, Rooted

-----------------------------------------------------------------------------
(* What is found at the report's path is no measurement or a fraction, and  *)
(* what a sweep published is of all its shots.                              *)

LEMMA TimesIsPositive == ASSUME NEW a \in Nat \ {0}, NEW b \in Nat \ {0} PROVE a * b \in Nat \ {0}
OBVIOUS

LEMMA ReportsAreFractions ==
  ASSUME NEW found \in Reports
  PROVE  IsFraction(UnreadableRate(found)) /\ IsFraction(MeanDsgScore(found))
<1>1. CASE found.is = "report"
  <2>1. found.scored \in Int /\ found.unreadable \in Int /\ found.sum \in Int /\ found.of \in Int
    BY <1>1 DEF Reports, NoReport, Torn
  <2>2. IsFraction(UnreadableRate(found))
    BY <1>1, <2>1 DEF IsFraction, UnreadableRate
  <2>3. CASE found.of > 0 /\ found.sum \in 0 .. found.of * Whole
    <3> DEFINE m == found.of * Whole
    <3>1. m \in Nat \ {0}
      <4> DEFINE of == found.of
      <4>1. of \in Nat \ {0} /\ Whole \in Nat \ {0}
        BY <2>1, <2>3, GradesKnown
      <4> HIDE DEF of
      <4>2. of * Whole \in Nat \ {0}
        BY <4>1, TimesIsPositive
      <4> QED  BY <4>2 DEF of
    <3>2. MeanDsgScore(found) = <<found.sum, m>> /\ found.sum \in 0 .. m
      BY <1>1, <2>3 DEF MeanDsgScore
    <3> HIDE DEF m
    <3> QED  BY <2>2, <3>1, <3>2 DEF IsFraction
  <2>4. CASE ~(found.of > 0 /\ found.sum \in 0 .. found.of * Whole)
    BY <2>2, <2>4 DEF MeanDsgScore, IsFraction
  <2> QED  BY <2>3, <2>4
<1>2. CASE found.is # "report"
  BY <1>2 DEF IsFraction, UnreadableRate, MeanDsgScore
<1> QED  BY <1>1, <1>2

LEMMA WhatIsPublished ==
  ASSUME SweepInv, sweep.phase = "published"
  PROVE  PublishedIsWhole
<1> DEFINE n == Len(rows)
<1>1. report = Summary /\ sweep.asked.dsg /\ ~Withheld /\ ~MoreShots /\ sweep # NoSweep
  BY DEF SweepInv, NoSweep
<1>2. sweep.asked.limit = 0 /\ Unjudged = {}
  BY <1>1 DEF Withheld
<1>3. n \in Nat /\ n <= Len(Shots) /\ Len(Shots) \in Nat /\ DOMAIN Shots = 1 .. Len(Shots)
  BY SweepsKnown DEF SweepInv, RowsHold
<1>4. n = Len(Shots)
  <2>1. ~(n + 1 <= Len(Shots))
    BY <1>1, <1>2 DEF MoreShots, AtShot
  <2> DEFINE s == Len(Shots)
  <2>2. n \in Nat /\ s \in Nat /\ n <= s /\ ~(n + 1 <= s)
    BY <1>3, <2>1
  <2> HIDE DEF n, s
  <2>3. n = s
    BY <2>2
  <2> QED  BY <2>3 DEF s
<1>5. /\ DOMAIN rows = 1 .. n /\ ScoredRows \subseteq 1 .. n
      /\ \A k \in ScoredRows : rows[k] \in Judged
      /\ IsFiniteSet(Parts("scored")) /\ Parts("scored") \subseteq ScoredRows
  BY ScoredRowsAre
<1>6. ScoredRows = 1 .. n /\ Parts("error") = {}
  BY <1>2, <1>5 DEF Unjudged
<1>7. \A k \in 1 .. n : /\ rows[k].status = "scored" /\ rows[k] \in Judged
                        /\ rows[k].dsg.is \in {"scored", "unscorable"}
  <2> SUFFICES ASSUME NEW k \in 1 .. n
               PROVE  rows[k].status = "scored" /\ rows[k] \in Judged /\ rows[k].dsg.is \in {"scored", "unscorable"}
    OBVIOUS
  <2>1. rows[k].status = "scored" /\ rows[k] \in Judged
    BY <1>5, <1>6 DEF ScoredRows
  <2>2. rows[k].dsg.is # "none"
    BY <1>1, <2>1 DEF SweepInv, RowsHold
  <2>3. rows[k].dsg.is # "error"
    BY <1>6 DEF Parts
  <2>4. rows[k].dsg.is \in {"none", "error", "scored", "unscorable"}
    BY <2>1 DEF Judged, Fractions
  <2> QED  BY <2>1, <2>2, <2>3, <2>4
<1> DEFINE dim == {k \in DOMAIN Shots : rows[k].readable = Dim}
<1>8. /\ Summary.is = "report"
      /\ Summary.scored = Len(Shots) /\ Summary.unreadable = Cardinality(dim)
      /\ Summary.unreadable \in 0 .. Summary.scored
      /\ Summary.of = Cardinality(Parts("scored")) /\ Summary.of \in Nat
      /\ Summary.sum \in 0 .. Summary.of * Whole
  <2>1. Cardinality(ScoredRows) = Len(Shots)
    <3> DEFINE s == Len(Shots)
    <3>1. ScoredRows = 1 .. s /\ s \in Nat
      BY <1>3, <1>4, <1>6
    <3> HIDE DEF s
    <3>2. Cardinality(1 .. s) = IF 1 > s THEN 0 ELSE s - 1 + 1
      BY <3>1, FS_Interval
    <3>3. Cardinality(ScoredRows) = s
      BY <3>1, <3>2
    <3> QED  BY <3>3 DEF s
  <2>2. {k \in ScoredRows : rows[k].readable = Dim} = dim
    BY <1>3, <1>4, <1>6
  <2>3. Summary.is = "report"
    BY DEF Summary
  <2> HIDE DEF dim
  <2> QED  BY <2>1, <2>2, <2>3, SummaryIs
<1>9. UnreadableRate(report) = IF Shots = <<>> THEN <<>> ELSE <<Cardinality(dim), Len(Shots)>>
  <2> HIDE DEF dim
  <2>1. Shots = <<>> <=> Len(Shots) = 0
    BY SweepsKnown
  <2> QED  BY <1>1, <1>3, <1>8, <2>1 DEF UnreadableRate
<1>10. MeanDsgScore(report) = <<>> <=> Summary.of = 0
  <2>1. report.of = Summary.of /\ report.sum = Summary.sum /\ report.is = "report"
    BY <1>1, <1>8
  <2>2. MeanDsgScore(report) = IF Summary.of > 0 THEN <<Summary.sum, Summary.of * Whole>> ELSE <<>>
    BY <1>8, <2>1 DEF MeanDsgScore
  <2> DEFINE of == Summary.of
             sum == Summary.sum
             m == of * Whole
  <2>3. MeanDsgScore(report) = IF of > 0 THEN <<sum, m>> ELSE <<>>
    BY <2>2
  <2>4. of \in Nat
    BY <1>8
  <2> HIDE DEF of, sum, m
  <2>5. MeanDsgScore(report) = <<>> <=> of = 0
    BY <2>3, <2>4
  <2> QED  BY <2>5 DEF of
<1>11. Summary.of = 0 <=> Parts("scored") = {}
  BY <1>5, <1>8, FS_EmptySet
<1>12. Parts("scored") = {} <=> \A k \in DOMAIN Shots : rows[k].dsg.is = "unscorable"
  BY <1>3, <1>4, <1>6, <1>7 DEF Parts
<1>13. \A said \in Narration : SentenceStatus(said) # "unscored"
  <2> SUFFICES ASSUME NEW said \in Narration, Covering(said) # {}  PROVE Covering(said) \cap ScoredRows # {}
    BY DEF SentenceStatus
  <2>1. Covering(said) \subseteq ScoredRows
    BY <1>5, <1>6 DEF Covering
  <2> QED  BY <2>1
<1>14. ExitCode = 0
  BY <1>2 DEF ExitCode
<1>15. \A k \in DOMAIN Shots : rows[k].dsg.is \in {"scored", "unscorable"}
  BY <1>3, <1>4, <1>7
<1> QED  BY <1>4, <1>9, <1>10, <1>11, <1>12, <1>13, <1>14, <1>15 DEF PublishedIsWhole

LEMMA SweepEnds == SweepInv => SweepIsHonest
<1> SUFFICES ASSUME SweepInv  PROVE SweepIsHonest
  OBVIOUS
<1>1. ReadableByMost /\ FractionIsOfScenery
  BY SceneryIsSeen DEF SweepInv
<1>2. PublishedIsWhole
  <2>1. CASE sweep.phase = "published"
    BY <2>1, WhatIsPublished
  <2>2. CASE sweep.phase # "published"
    BY <2>2 DEF PublishedIsWhole
  <2> QED  BY <2>1, <2>2
<1>3. LoadVisualScores \in Reports
  BY DEF LoadVisualScores, SweepInv, Reports
<1>4. IsFraction(UnreadableRate(LoadVisualScores)) /\ IsFraction(MeanDsgScore(LoadVisualScores))
  BY <1>3, ReportsAreFractions
<1>5. sweep.phase = "publishing" => UnreadableRate(LoadVisualScores) = <<>>
  BY DEF SweepInv, LoadVisualScores, Torn, NoReport, UnreadableRate
<1> QED  BY <1>1, <1>2, <1>4, <1>5 DEF SweepIsHonest

-----------------------------------------------------------------------------
(* The row of an item: its trials under either label, by their scores.      *)

Trial == [kind : {"scored", "timeout", "broken", "missing"}, marks : [Measured -> Int]]
Outcomes == [Items -> Trial]
ScoredOf(group) == {r \in DOMAIN group : group[r].kind = "scored"}

LEMMA ScoredOfIs ==
  ASSUME NEW n \in Nat, NEW group \in [1 .. n -> Trial]
  PROVE  /\ ScoredOf(group) \subseteq 1 .. n /\ IsFiniteSet(ScoredOf(group))
         /\ Cardinality(ScoredOf(group)) \in 0 .. n
         /\ Broken(group) = (1 .. n) \ ScoredOf(group)
         /\ Cardinality(Broken(group)) = n - Cardinality(ScoredOf(group))
         /\ Len(group) = n /\ DOMAIN group = 1 .. n
<1>1. DOMAIN group = 1 .. n /\ Len(group) = n
  <2>1. group \in Seq(Trial)
    OBVIOUS
  <2> QED  BY <2>1
<1>2. IsFiniteSet(1 .. n) /\ Cardinality(1 .. n) = n
  <2>1. IsFiniteSet(1 .. n) /\ Cardinality(1 .. n) = IF 1 > n THEN 0 ELSE n - 1 + 1
    BY FS_Interval
  <2> QED  BY <2>1
<1>3. ScoredOf(group) \subseteq 1 .. n /\ Broken(group) = (1 .. n) \ ScoredOf(group)
  BY <1>1 DEF ScoredOf, Broken
<1>4. /\ IsFiniteSet(ScoredOf(group)) /\ Cardinality(ScoredOf(group)) \in Nat
      /\ Cardinality(ScoredOf(group)) <= Cardinality(1 .. n)
  <2> DEFINE T == ScoredOf(group)
             S == 1 .. n
  <2>1. T \subseteq S /\ IsFiniteSet(S)
    BY <1>2, <1>3
  <2> HIDE DEF T, S
  <2>2. IsFiniteSet(T) /\ Cardinality(T) \in Nat /\ Cardinality(T) <= Cardinality(S)
    BY <2>1, SubsetsCount
  <2> QED  BY <2>2 DEF T, S
<1>5. Cardinality((1 .. n) \ ScoredOf(group)) = Cardinality(1 .. n) - Cardinality(ScoredOf(group))
  <2> DEFINE T == ScoredOf(group)
             S == 1 .. n
  <2>1. T \subseteq S /\ IsFiniteSet(S)
    BY <1>2, <1>3
  <2> HIDE DEF T, S
  <2>2. Cardinality(S \ T) = Cardinality(S) - Cardinality(T)
    BY <2>1, RestCounts
  <2> QED  BY <2>2 DEF T, S
<1> QED  BY <1>1, <1>2, <1>3, <1>4, <1>5

LEMMA FailsIs ==
  ASSUME NEW n \in Nat \ {0}, NEW group \in [1 .. n -> Trial]
  PROVE  ItemFails(group) <=> 2 * Cardinality(ScoredOf(group)) < n \/ ScoredOf(group) = {}
<1> DEFINE s == Cardinality(ScoredOf(group))
<1>1. /\ ScoredOf(group) \subseteq 1 .. n /\ s \in 0 .. n
      /\ Broken(group) = (1 .. n) \ ScoredOf(group) /\ Cardinality(Broken(group)) = n - s
      /\ Len(group) = n /\ DOMAIN group = 1 .. n
  BY ScoredOfIs
<1>2. Broken(group) = DOMAIN group <=> ScoredOf(group) = {}
  BY <1>1
<1> HIDE DEF s
<1>3. Cardinality(Broken(group)) * 2 > Len(group) <=> 2 * s < n
  BY <1>1
<1> QED  BY <1>2, <1>3 DEF ItemFails, s

LEMMA FirstReasonIs ==
  ASSUME NEW n \in Nat \ {0}, NEW group \in [1 .. n -> Trial], ItemFails(group)
  PROVE  \E r \in 1 .. n : group[r].kind = FirstReason(group)
<1> DEFINE broken == Broken(group)
<1>1. broken \subseteq 1 .. n
  BY DEF Broken
<1>2. broken # {}
  <2> SUFFICES ASSUME broken = {}  PROVE FALSE
    OBVIOUS
  <2> DEFINE s == Cardinality(ScoredOf(group))
  <2>1. s = n
    <3>1. Cardinality(broken) = n - s /\ s \in 0 .. n
      BY ScoredOfIs
    <3>2. Cardinality(broken) = 0
      BY FS_EmptySet
    <3> HIDE DEF s, broken
    <3> QED  BY <3>1, <3>2
  <2>2. ScoredOf(group) # {}
    BY <2>1, FS_EmptySet
  <2>3. 2 * s < n
    BY <2>2, FailsIs
  <2> HIDE DEF s
  <2> QED  BY <2>1, <2>3
<1>3. broken \in SUBSET Nat
  BY <1>1
<1> HIDE DEF broken
<1>4. \E r \in broken : \A q \in broken : r <= q
  BY <1>2, <1>3, LeastIsThere
<1> DEFINE first == CHOOSE r \in broken : \A q \in broken : r <= q
<1>5. first \in broken
  BY <1>4
<1>6. FirstReason(group) = group[first].kind
  BY DEF FirstReason, broken
<1> HIDE DEF first
<1> QED  BY <1>1, <1>5, <1>6

LEMMA MeasuresAreInt ==
  ASSUME NEW measure, NEW trial \in Trial  PROVE Of(measure, trial) \in Int
<1>1. trial.marks \in [Measured -> Int]
  BY DEF Trial
<1> DEFINE marks == trial.marks
<1>2. TotalOf(marks) \in Int
  <2> HIDE DEF marks
  <2>1. marks \in [Measured -> Int]
    BY <1>1 DEF marks
  <2> QED  BY <2>1, TotalIsInt
<1> QED  BY <1>1, <1>2 DEF Of

\* A median below nought, by the repetitions that were worse.
WorseOf(measure, c, b) ==
  {r \in ScoredOf(c) \cap ScoredOf(b) : Of(measure, c[r]) < Of(measure, b[r])}
DeltaSays(measure, c, b) ==
  LET both == Cardinality(ScoredOf(c) \cap ScoredOf(b))
      worse == Cardinality(WorseOf(measure, c, b))
  IN /\ 2 * worse > both => MedianDelta(measure, c, b) < 0
     /\ both % 2 = 1 /\ MedianDelta(measure, c, b) < 0 => 2 * worse > both

LEMMA DeltasSay ==
  ASSUME NEW n \in Nat, NEW c \in [1 .. n -> Trial], NEW b \in [1 .. n -> Trial],
         ScoredOf(c) \cap ScoredOf(b) # {}, NEW measure
  PROVE  /\ Paired(c, b) = ScoredOf(c) \cap ScoredOf(b)
         /\ DeltaSays(measure, c, b)
<1> DEFINE S == ScoredOf(c) \cap ScoredOf(b)
           delta == [r \in S |-> Of(measure, c[r]) - Of(measure, b[r])]
           median == MedianTwice(delta)
<1>1. /\ ScoredOf(c) \subseteq 1 .. n /\ Broken(c) = (1 .. n) \ ScoredOf(c) /\ DOMAIN c = 1 .. n
      /\ ScoredOf(b) \subseteq 1 .. n /\ Broken(b) = (1 .. n) \ ScoredOf(b)
      /\ IsFiniteSet(ScoredOf(c))
  BY ScoredOfIs
<1>2. Paired(c, b) = S
  BY <1>1 DEF Paired
<1>3. S \subseteq ScoredOf(c) /\ S \subseteq 1 .. n
  BY <1>1
<1>4. IsFiniteSet(S)
  <2> HIDE DEF S
  <2> QED  BY <1>1, <1>3, SubsetsCount
<1>5. \A r \in S : Of(measure, c[r]) \in Int /\ Of(measure, b[r]) \in Int
  <2> SUFFICES ASSUME NEW r \in S  PROVE Of(measure, c[r]) \in Int /\ Of(measure, b[r]) \in Int
    OBVIOUS
  <2>1. c[r] \in Trial /\ b[r] \in Trial
    BY <1>3
  <2> DEFINE x == c[r]
             y == b[r]
  <2> HIDE DEF x, y
  <2>2. Of(measure, x) \in Int /\ Of(measure, y) \in Int
    BY <2>1, MeasuresAreInt DEF x, y
  <2> QED  BY <2>2 DEF x, y
<1>6. MedianDelta(measure, c, b) = median
  BY <1>2 DEF MedianDelta
<1> HIDE DEF S
<1>7. delta \in [S -> Int]
  BY <1>5
<1>8. Under(delta, 0) = WorseOf(measure, c, b)
  <2>1. \A r \in S : delta[r] < 0 <=> Of(measure, c[r]) < Of(measure, b[r])
    BY <1>5
  <2>2. DOMAIN delta = S
    OBVIOUS
  <2> HIDE DEF delta
  <2> QED  BY <2>1, <2>2 DEF Under, WorseOf, S
<1> HIDE DEF delta, median
<1>9. /\ 2 * Cardinality(Under(delta, 0)) > Cardinality(S) => median < 0
      /\ Cardinality(S) % 2 = 1 /\ median < 0 => 2 * Cardinality(Under(delta, 0)) > Cardinality(S)
  <2>1. median = MedianTwice(delta) /\ S # {}
    BY DEF median, S
  <2> QED  BY <1>4, <1>7, <2>1, MedianSign
<1>10. DeltaSays(measure, c, b)
  BY <1>6, <1>8, <1>9 DEF DeltaSays, S
<1> QED  BY <1>2, <1>10 DEF S

-----------------------------------------------------------------------------
(* What the row of an item says of its trials.                              *)

TriedBoth ==
  /\ gate.reps \in Nat \ {0}
  /\ \A side \in {"candidate", "baseline"} :
       trials[side] \in Seq(Outcomes) /\ Len(trials[side]) = gate.reps

LEMMA GroupIs ==
  ASSUME TriedBoth, NEW side \in {"candidate", "baseline"}, NEW i \in Items
  PROVE  /\ Group(side, i) \in [1 .. gate.reps -> Trial]
         /\ \A r \in 1 .. gate.reps : Group(side, i)[r] = trials[side][r][i]
         /\ ScoredOf(Group(side, i)) = Scored(side, i)
         /\ Len(trials[side]) = gate.reps
<1>1. DOMAIN trials[side] = 1 .. gate.reps /\ \A r \in 1 .. gate.reps : trials[side][r] \in Outcomes
  <2> DEFINE of == trials[side]
             n == gate.reps
  <2>1. of \in Seq(Outcomes) /\ Len(of) = n
    BY DEF TriedBoth
  <2> HIDE DEF of, n
  <2>2. DOMAIN of = 1 .. n /\ \A r \in 1 .. n : of[r] \in Outcomes
    BY <2>1
  <2> QED  BY <2>2 DEF of, n
<1>2. \A r \in 1 .. gate.reps : trials[side][r][i] \in Trial
  BY <1>1 DEF Outcomes
<1>3. Group(side, i) = [r \in 1 .. gate.reps |-> trials[side][r][i]]
  BY <1>1 DEF Group
<1>4. ScoredOf(Group(side, i)) = Scored(side, i)
  BY <1>1, <1>3 DEF ScoredOf, Scored
<1> QED  BY <1>2, <1>3, <1>4 DEF TriedBoth

\* The same of both sides at once.
SidesAre(n, c, b, i) ==
  /\ n \in Nat \ {0} /\ c \in [1 .. n -> Trial] /\ b \in [1 .. n -> Trial]
  /\ ScoredOf(c) \cap ScoredOf(b) = BothScored(i)
  /\ CameBack(i) <=> Seen(c) \/ Seen(b)
  /\ Half("candidate", i) <=> 2 * Cardinality(ScoredOf(c)) >= n
  /\ Half("baseline", i) <=> 2 * Cardinality(ScoredOf(b)) >= n
  /\ \A measure : WorseIn(i, measure) = WorseOf(measure, c, b)
  /\ TimedOutOnBoth(i) <=>
       (\E r \in 1 .. n : c[r].kind = "timeout") /\ (\E r \in 1 .. n : b[r].kind = "timeout")

LEMMA SidesAreThere ==
  ASSUME TriedBoth, NEW i \in Items
  PROVE  SidesAre(gate.reps, Group("candidate", i), Group("baseline", i), i)
<1> DEFINE n == gate.reps
           c == Group("candidate", i)
           b == Group("baseline", i)
<1>1. /\ c \in [1 .. n -> Trial] /\ \A r \in 1 .. n : c[r] = trials["candidate"][r][i]
      /\ ScoredOf(c) = Scored("candidate", i) /\ Len(trials["candidate"]) = n
  BY GroupIs
<1>2. /\ b \in [1 .. n -> Trial] /\ \A r \in 1 .. n : b[r] = trials["baseline"][r][i]
      /\ ScoredOf(b) = Scored("baseline", i) /\ Len(trials["baseline"]) = n
  BY GroupIs
<1>3. n \in Nat \ {0}
  BY DEF TriedBoth
<1> HIDE DEF n, c, b
<1>4. DOMAIN c = 1 .. n /\ DOMAIN b = 1 .. n
  BY <1>1, <1>2
<1>5. ScoredOf(c) \cap ScoredOf(b) = BothScored(i)
  BY <1>1, <1>2 DEF BothScored
<1>6. CameBack(i) <=> Seen(c) \/ Seen(b)
  BY <1>1, <1>2, <1>4 DEF CameBack, Seen, n
<1>7. ASSUME NEW measure  PROVE WorseIn(i, measure) = WorseOf(measure, c, b)
  <2>1. \A r \in BothScored(i) : c[r] = trials["candidate"][r][i] /\ b[r] = trials["baseline"][r][i]
    BY <1>1, <1>2, <1>4, <1>5 DEF ScoredOf
  <2> QED  BY <1>5, <2>1 DEF WorseIn, WorseOf
<1>8. TimedOutOnBoth(i) <=>
        (\E r \in 1 .. n : c[r].kind = "timeout") /\ (\E r \in 1 .. n : b[r].kind = "timeout")
  BY <1>1, <1>2 DEF TimedOutOnBoth, n
<1>9. /\ Half("candidate", i) <=> 2 * Cardinality(ScoredOf(c)) >= n
      /\ Half("baseline", i) <=> 2 * Cardinality(ScoredOf(b)) >= n
  BY <1>1, <1>2 DEF Half
<1>10. SidesAre(n, c, b, i)
  BY <1>1, <1>2, <1>3, <1>5, <1>6, <1>7, <1>8, <1>9 DEF SidesAre
<1> QED  BY <1>10 DEF n, c, b

RowEarned(i) ==
  /\ RowOf(i) = "absent" <=> ~CameBack(i)
  /\ RowOf(i) = "ok" => Comparable(i) /\ ~MostlyWorse(i)
  /\ CameBack(i) /\ Comparable(i) /\ Cardinality(BothScored(i)) % 2 = 1 /\ ~MostlyWorse(i) => RowOf(i) = "ok"
  /\ RowOf(i) = "inconclusive" => ~Comparable(i) /\ TimedOutOnBoth(i)

LEMMA RowsAreEarned == ASSUME TriedBoth, NEW i \in Items PROVE RowEarned(i)
<1> DEFINE n == gate.reps
           c == Group("candidate", i)
           b == Group("baseline", i)
           regressed == \E measure \in Measures : MedianDelta(measure, c, b) < 0
<1>1. SidesAre(n, c, b, i)
  BY SidesAreThere
<1>2. RowOf(i) =
        IF ~Seen(c) /\ ~Seen(b) THEN "absent"
        ELSE IF ~Seen(c) THEN "missing from candidate run"
        ELSE IF ~Seen(b) THEN "item failure"
        ELSE IF ItemFails(c) \/ ItemFails(b)
             THEN IF ItemFails(c) /\ ItemFails(b) /\ FirstReason(c) = "timeout" /\ FirstReason(b) = "timeout"
                  THEN "inconclusive" ELSE "item failure"
        ELSE IF Paired(c, b) = {} THEN "item failure"
        ELSE IF regressed THEN "regressed"
        ELSE "ok"
  BY DEF RowOf
<1> HIDE DEF n, c, b, regressed
<1>3. /\ n \in Nat \ {0} /\ c \in [1 .. n -> Trial] /\ b \in [1 .. n -> Trial]
      /\ ScoredOf(c) \cap ScoredOf(b) = BothScored(i)
  BY <1>1 DEF SidesAre
<1>4. /\ ItemFails(c) <=> 2 * Cardinality(ScoredOf(c)) < n \/ ScoredOf(c) = {}
      /\ ItemFails(b) <=> 2 * Cardinality(ScoredOf(b)) < n \/ ScoredOf(b) = {}
  BY <1>3, FailsIs
<1>5. /\ Cardinality(ScoredOf(c)) \in 0 .. n /\ Broken(c) = (1 .. n) \ ScoredOf(c)
      /\ Cardinality(ScoredOf(b)) \in 0 .. n /\ Broken(b) = (1 .. n) \ ScoredOf(b)
      /\ DOMAIN c = 1 .. n /\ DOMAIN b = 1 .. n /\ ScoredOf(c) \subseteq 1 .. n
  BY <1>3, ScoredOfIs
<1>6. /\ Half("candidate", i) <=> ~(2 * Cardinality(ScoredOf(c)) < n)
      /\ Half("baseline", i) <=> ~(2 * Cardinality(ScoredOf(b)) < n)
  <2> DEFINE x == Cardinality(ScoredOf(c))
             y == Cardinality(ScoredOf(b))
  <2>1. (Half("candidate", i) <=> 2 * x >= n) /\ (Half("baseline", i) <=> 2 * y >= n)
    BY <1>1 DEF SidesAre
  <2>2. x \in 0 .. n /\ y \in 0 .. n
    BY <1>5
  <2> HIDE DEF x, y
  <2>3. (2 * x >= n <=> ~(2 * x < n)) /\ (2 * y >= n <=> ~(2 * y < n))
    BY <1>3, <2>2
  <2> QED  BY <2>1, <2>3 DEF x, y
<1>7. Paired(c, b) = BothScored(i)
  BY <1>3, <1>5 DEF Paired
<1>8. Comparable(i) <=> ~ItemFails(c) /\ ~ItemFails(b) /\ BothScored(i) # {}
  BY <1>3, <1>4, <1>6 DEF Comparable
<1>9. BothScored(i) # {} => Seen(c) /\ Seen(b)
  <2> SUFFICES ASSUME NEW r \in BothScored(i)  PROVE Seen(c) /\ Seen(b)
    OBVIOUS
  <2>1. r \in DOMAIN c /\ c[r].kind = "scored" /\ r \in DOMAIN b /\ b[r].kind = "scored"
    BY <1>3 DEF ScoredOf
  <2> QED  BY <2>1 DEF Seen
<1>10. CameBack(i) <=> Seen(c) \/ Seen(b)
  BY <1>1 DEF SidesAre
<1>11. ASSUME BothScored(i) # {}
       PROVE  /\ MostlyWorse(i) => regressed
              /\ Cardinality(BothScored(i)) % 2 = 1 /\ regressed => MostlyWorse(i)
  <2>1. \A measure : DeltaSays(measure, c, b)
    BY <1>3, <1>11, DeltasSay
  <2>2. \A measure : WorseIn(i, measure) = WorseOf(measure, c, b)
    BY <1>1 DEF SidesAre
  <2> DEFINE both == Cardinality(BothScored(i))
             worse(measure) == Cardinality(WorseIn(i, measure))
  <2>3. \A measure : /\ 2 * worse(measure) > both => MedianDelta(measure, c, b) < 0
                     /\ both % 2 = 1 /\ MedianDelta(measure, c, b) < 0 => 2 * worse(measure) > both
    BY <1>3, <2>1, <2>2 DEF DeltaSays
  <2>4. MostlyWorse(i) <=> \E measure \in Measures : 2 * worse(measure) > both
    BY DEF MostlyWorse
  <2> HIDE DEF both, worse
  <2>5. MostlyWorse(i) => regressed
    BY <2>3, <2>4 DEF regressed
  <2>6. both % 2 = 1 /\ regressed => MostlyWorse(i)
    BY <2>3, <2>4 DEF regressed
  <2> QED  BY <2>5, <2>6 DEF both
<1>12. ASSUME ItemFails(c), ItemFails(b), FirstReason(c) = "timeout", FirstReason(b) = "timeout"
       PROVE  TimedOutOnBoth(i)
  <2>1. PICK r \in 1 .. n : c[r].kind = FirstReason(c)
    BY <1>3, <1>12, FirstReasonIs
  <2>2. PICK q \in 1 .. n : b[q].kind = FirstReason(b)
    BY <1>3, <1>12, FirstReasonIs
  <2> QED  BY <1>1, <1>12, <2>1, <2>2 DEF SidesAre
<1>13. RowOf(i) = "absent" <=> ~CameBack(i)
  BY <1>2, <1>10
<1>14. RowOf(i) = "ok" => Comparable(i) /\ ~regressed
  BY <1>2, <1>7, <1>8
<1>15. RowOf(i) = "ok" => Comparable(i) /\ ~MostlyWorse(i)
  BY <1>8, <1>11, <1>14
<1>16. RowOf(i) = "inconclusive" => ~Comparable(i) /\ TimedOutOnBoth(i)
  BY <1>2, <1>8, <1>12
<1>17. Comparable(i) /\ ~regressed => RowOf(i) = "ok"
  BY <1>2, <1>7, <1>8, <1>9
<1>18. CameBack(i) /\ Comparable(i) /\ Cardinality(BothScored(i)) % 2 = 1 /\ ~MostlyWorse(i) => RowOf(i) = "ok"
  BY <1>8, <1>11, <1>17
<1> QED  BY <1>13, <1>15, <1>16, <1>18 DEF RowEarned

LEMMA RulingIsEarned ==
  ASSUME TriedBoth, gate.phase = "judged" => ruling.verdict = VerdictOf([i \in Items |-> RowOf(i)])
  PROVE  PassIsEarned
<1> SUFFICES ASSUME gate.phase = "judged"  PROVE PassIsEarned
  BY DEF PassIsEarned
<1> DEFINE back == {i \in Items : CameBack(i)}
           odd == \A i \in back : Comparable(i) /\ Cardinality(BothScored(i)) % 2 = 1
           table == [i \in Items |-> RowOf(i)]
           verdict == ruling.verdict
<1>1. \A i \in Items : RowEarned(i) /\ table[i] = RowOf(i)
  BY RowsAreEarned
<1>2. verdict = IF \A i \in Items : table[i] = "absent" THEN "FAIL"
                ELSE IF \E i \in Items : table[i] \notin {"ok", "absent", "inconclusive"} THEN "FAIL"
                ELSE IF \E i \in Items : table[i] = "inconclusive" THEN "INCONCLUSIVE" ELSE "PASS"
  BY DEF VerdictOf
<1> HIDE DEF verdict, table
<1>3. \A i \in Items : i \in back <=> table[i] # "absent"
  BY <1>1 DEF RowEarned
<1>4. verdict = "PASS" => back # {} /\ \A i \in back : table[i] = "ok"
  <2> HIDE DEF back
  <2> QED  BY <1>2, <1>3 DEF back
<1>5. verdict = "PASS" => back # {} /\ \A i \in back : Comparable(i) /\ ~MostlyWorse(i)
  BY <1>1, <1>4 DEF RowEarned
<1>6. ASSUME back # {}, odd, \A i \in back : ~MostlyWorse(i)  PROVE verdict = "PASS"
  <2>1. \A i \in back : table[i] = "ok"
    BY <1>1, <1>6 DEF RowEarned
  <2>2. \A i \in Items : table[i] \in {"ok", "absent"}
    BY <1>3, <2>1
  <2>3. \E i \in Items : table[i] = "ok"
    BY <1>6, <2>1
  <2> QED  BY <1>2, <2>2, <2>3
<1>7. ASSUME verdict = "INCONCLUSIVE"
      PROVE  /\ \E i \in back : ~Comparable(i) /\ TimedOutOnBoth(i)
             /\ \A i \in back : Comparable(i) => ~MostlyWorse(i)
  <2>1. PICK i \in Items : table[i] = "inconclusive"
    BY <1>2, <1>7
  <2>2. \A j \in Items : table[j] \in {"ok", "absent", "inconclusive"}
    BY <1>2, <1>7
  <2>3. i \in back /\ ~Comparable(i) /\ TimedOutOnBoth(i)
    BY <1>1, <1>3, <2>1 DEF RowEarned
  <2>4. \A j \in back : table[j] \in {"ok", "inconclusive"}
    BY <1>3, <2>2
  <2>5. \A j \in back : Comparable(j) => ~MostlyWorse(j)
    BY <1>1, <2>4 DEF RowEarned
  <2> QED  BY <2>3, <2>5
<1> QED  BY <1>5, <1>6, <1>7 DEF PassIsEarned, verdict

-----------------------------------------------------------------------------
(* What holds of an invocation.                                             *)

Works ==
  [phase : {"label", "compare", "reported", "judged"}, side : {1, 2}, sides : {1, 2},
   items : SUBSET Items, reps : Nat \ {0}, cached : BOOLEAN]

GateHolds ==
  \/ gate = NoGate
  \/ gate = [phase |-> "told", asked |-> gate.asked, around |-> gate.around, authority |-> gate.authority]
     /\ gate.asked.reps \in Nat \ {0} /\ gate.asked.item \in {Unset, Canary}
  \/ gate = [phase |-> "isolate", wanted |-> gate.wanted, at |-> gate.at, heard |-> gate.heard]
  \/ gate.phase = "isolated"
  \/ gate \in Works /\ (gate.cached => gate.reps = 1) /\ gate.side <= gate.sides

Begun == gate.phase \in {"label", "compare", "reported", "judged"}
TrialsHold ==
  /\ trials \in [{"candidate", "baseline"} -> Seq(Outcomes)]
  /\ ~Begun => trials = NoTrials
  /\ gate.phase = "label" =>
       /\ Len(trials[SideOfGate]) < gate.reps
       /\ gate.side = 1 => Len(trials["baseline"]) = 0
       /\ gate.side = 2 => Len(trials["candidate"]) = gate.reps
  /\ gate.phase \in {"compare", "judged"} /\ gate.sides = 2 =>
       \A side \in {"candidate", "baseline"} : Len(trials[side]) = gate.reps
  /\ gate.phase = "judged" =>
       gate.sides = 2 /\ ruling.verdict = VerdictOf([i \in Items |-> RowOf(i)])

TasksHold ==
  /\ DOMAIN tasks = Items /\ tasks = [i \in Items |-> tasks[i]]
  /\ \A i \in Items : tasks[i].pc # "idle" => Trying(i)
  /\ \A i \in Items : tasks[i].pc = "running" =>
       tasks[i] = [pc |-> "running", found |-> tasks[i].found, calls |-> tasks[i].calls]
  /\ seam \in {"raw", "cached"}
  /\ seam = "cached" => \E i \in Items : tasks[i].pc = "running"

PromotionInv == GateHolds /\ TrialsHold /\ TasksHold /\ ToldWholly /\ ~replayed

LEMMA PromotionBegins == PromotionInit => PromotionInv
<1> SUFFICES ASSUME PromotionInit  PROVE PromotionInv
  OBVIOUS
<1>1. /\ gate = NoGate /\ gate.phase = "idle" /\ trials = NoTrials /\ seam = "raw"
      /\ tasks = [i \in Items |-> [pc |-> "idle"]] /\ replayed = FALSE
  BY DEF PromotionInit, NoGate
<1>2. TrialsHold
  BY <1>1 DEF TrialsHold, NoTrials, Begun
<1>3. TasksHold
  BY <1>1 DEF TasksHold
<1> QED  BY <1>1, <1>2, <1>3 DEF PromotionInv, GateHolds, ToldWholly

\* With no trial under way the tasks are as they began.
AllIdle == DOMAIN tasks = Items /\ (\A i \in Items : tasks[i].pc = "idle") /\ tasks = [i \in Items |-> tasks[i]]
LEMMA NobodyTries ==
  ASSUME PromotionInv, gate.phase # "label"  PROVE seam = "raw" /\ AllIdle
BY DEF PromotionInv, TasksHold, Trying, AllIdle

LEMMA IdleHolds ==
  ASSUME PromotionInv, gate.phase # "label", UNCHANGED <<tasks, seam>>  PROVE TasksHold'
<1>1. seam = "raw" /\ AllIdle
  BY NobodyTries
<1> QED  BY <1>1 DEF AllIdle, TasksHold

LEMMA ResolvedIs ==
  ASSUME NEW a \in Invocations, NEW r, r = ProfileResolved(a)
  PROVE  /\ r.profile = a.profile /\ r.reps \in Nat \ {0} /\ r.item \in {Unset, Canary}
         /\ a.profile = "promotion" => r.item = a.item /\ r.stage = a.stage /\ r.baseline # Unset
<1>1. a.reps \in Nat /\ PromotionReps \in Nat \ {0} /\ a.profile \in {Unset, "smoke", "promotion"}
  BY GateKnown DEF Invocations, ToldProfiles
<1>2. Counted(a.reps, 1) \in Nat \ {0} /\ Counted(a.reps, PromotionReps) \in Nat \ {0}
  BY <1>1 DEF Counted, Untold
<1>3. CASE a.profile = Unset
  <2>1. r = [a EXCEPT !.reps = Counted(@, 1)]
    BY <1>3 DEF ProfileResolved, Unset
  <2> QED  BY <1>2, <1>3, <2>1 DEF Invocations, Unset
<1>4. CASE a.profile = "smoke"
  <2>1. r = [a EXCEPT !.label = Or(@, "candidate"), !.item = Or(@, Canary), !.reps = Counted(@, 1)]
    BY <1>4 DEF ProfileResolved, Unset
  <2> QED  BY <1>2, <1>4, <2>1 DEF Invocations, Or
<1>5. CASE a.profile = "promotion"
  <2>1. r = [a EXCEPT !.label = Or(@, "candidate"), !.baseline = Or(@, "production"), !.reps = Counted(@, PromotionReps)]
    BY <1>5 DEF ProfileResolved, Unset
  <2> QED  BY <1>2, <1>5, <2>1 DEF Invocations, Or, Unset
<1> QED  BY <1>1, <1>3, <1>4, <1>5

LEMMA InvokeKeeps == PromotionInv /\ Invoke => PromotionInv'
<1> SUFFICES ASSUME PromotionInv, Invoke  PROVE PromotionInv'
  OBVIOUS
<1>1. gate = NoGate /\ gate.phase = "idle" /\ UNCHANGED <<trials, seam, tasks, stored, replayed, ruling>>
  BY DEF Invoke, NoGate
<1>2. PICK a \in Invocations, around \in Surroundings :
        /\ ~ProfileRejects(a) /\ ~MainRejects(ProfileResolved(a), around)
        /\ gate' = [phase |-> "told", asked |-> ProfileResolved(a), around |-> around,
                    authority |-> Authority(ProfileResolved(a))]
  BY DEF Invoke
<1> DEFINE r == ProfileResolved(a)
<1>3. /\ r.profile = a.profile /\ r.reps \in Nat \ {0} /\ r.item \in {Unset, Canary}
      /\ a.profile = "promotion" => r.item = a.item /\ r.stage = a.stage /\ r.baseline # Unset
  <2> HIDE DEF r
  <2>1. r = ProfileResolved(a)
    BY DEF r
  <2> QED  BY <2>1, ResolvedIs
<1>4. /\ ~ProfileRejects(a) /\ ~MainRejects(r, around)
      /\ gate' = [phase |-> "told", asked |-> r, around |-> around, authority |-> Authority(r)]
  BY <1>2
<1>5. a.profile = "promotion" =>
        /\ a.item = Unset /\ a.stage = "full"
        /\ r.label = "candidate" /\ r.baseline = "production" /\ ~(r.reps < PromotionReps)
  BY <1>4 DEF ProfileRejects
<1> HIDE DEF r
<1>6. gate'.phase = "told" /\ gate'.asked = r /\ gate'.around = around /\ gate'.authority = Authority(r)
  BY <1>4
<1>7. Authority(r) = "PROMOTION GATE" => r.profile = "promotion"
  BY DEF Authority, Unset
<1>8. ASSUME r.profile = "promotion"
      PROVE  /\ r.label = "candidate" /\ r.baseline = "production" /\ r.item = Unset /\ r.stage = "full"
             /\ r.reps >= PromotionReps /\ around.override /\ ~around.agent
  <2>1. r.baseline # Unset
    BY <1>3, <1>8
  <2>2. around.override /\ ~around.agent
    <3>1. around.agent \in BOOLEAN /\ around.override \in BOOLEAN
      BY DEF Surroundings
    <3> QED  BY <1>4, <2>1, <3>1 DEF MainRejects
  <2> QED  BY <1>3, <1>5, <1>8, <2>2, GateKnown
<1>9. ToldWholly'
  BY <1>6, <1>7, <1>8 DEF ToldWholly
<1>10. GateHolds'
  BY <1>3, <1>4, <1>6 DEF GateHolds
<1>11. TrialsHold'
  BY <1>1, <1>6 DEF PromotionInv, TrialsHold, Begun
<1> QED  BY <1>1, <1>9, <1>10, <1>11, IdleHolds DEF PromotionInv

LEMMA BeginKeeps == PromotionInv /\ Begin => PromotionInv'
<1> SUFFICES ASSUME PromotionInv, Begin  PROVE PromotionInv'
  OBVIOUS
<1>1. gate.phase = "told" /\ UNCHANGED <<trials, seam, tasks, stored, replayed, ruling>>
  BY DEF Begin
<1>2. gate.asked.reps \in Nat \ {0} /\ gate.asked.item \in {Unset, Canary} /\ trials = NoTrials
  BY <1>1 DEF PromotionInv, GateHolds, NoGate, Works, TrialsHold, Begun
<1> DEFINE sides == IF gate.asked.baseline = Unset THEN 1 ELSE 2
           items == IF gate.asked.item = Unset THEN Items ELSE {gate.asked.item}
           reps == IF gate.asked.baseline = Unset THEN 1 ELSE gate.asked.reps
<1>3. PICK noCache \in BOOLEAN :
        gate' = IF gate.asked.stage # "full"
                THEN [phase |-> "isolate", wanted |-> gate.asked.stage, at |-> 1, heard |-> Unset]
                ELSE [phase |-> "label", side |-> 1, sides |-> sides, items |-> items,
                      reps |-> reps, cached |-> MayReplay(reps, noCache)]
  BY <1>1 DEF Begin
<1>4. reps \in Nat \ {0} /\ sides \in {1, 2} /\ MayReplay(reps, noCache) \in BOOLEAN /\ (MayReplay(reps, noCache) => reps = 1)
  BY <1>2 DEF MayReplay
<1>5. CASE gate.asked.stage # "full"
  <2>1. gate' = [phase |-> "isolate", wanted |-> gate.asked.stage, at |-> 1, heard |-> Unset]
    BY <1>3, <1>5
  <2>2. gate'.phase = "isolate" /\ GateHolds'
    BY <2>1 DEF GateHolds
  <2>3. TrialsHold' /\ ToldWholly'
    BY <1>1, <1>2, <2>2 DEF PromotionInv, TrialsHold, Begun, ToldWholly
  <2> QED  BY <1>1, <2>2, <2>3, IdleHolds DEF PromotionInv
<1>6. CASE gate.asked.stage = "full"
  <2> DEFINE cached == MayReplay(reps, noCache)
  <2>1. gate' = [phase |-> "label", side |-> 1, sides |-> sides, items |-> items, reps |-> reps, cached |-> cached]
    BY <1>3, <1>6
  <2>2. items \in SUBSET Items
    BY <1>2, GateKnown
  <2> HIDE DEF sides, items, reps, cached
  <2>3. /\ gate'.phase = "label" /\ gate'.side = 1 /\ gate'.sides = sides /\ gate'.reps = reps
        /\ gate'.cached = cached
    BY <2>1
  <2>4. cached \in BOOLEAN /\ (cached => reps = 1)
    BY <1>4 DEF cached
  <2>5. gate' \in Works /\ gate'.side <= gate'.sides
    BY <1>4, <2>1, <2>2, <2>3, <2>4 DEF Works
  <2>6. GateHolds'
    BY <2>3, <2>4, <2>5 DEF GateHolds
  <2>7. \A side \in {"candidate", "baseline"} : trials'[side] = <<>>
    BY <1>1, <1>2 DEF NoTrials
  <2>8. PromptSides[1] = "candidate"
    BY DEF PromptSides
  <2>9. trials' \in [{"candidate", "baseline"} -> Seq(Outcomes)]
    BY <1>1 DEF PromotionInv, TrialsHold
  <2>10. TrialsHold'
    BY <1>4, <2>3, <2>7, <2>8, <2>9 DEF TrialsHold, Begun, SideOfGate
  <2>11. ToldWholly'
    BY <2>3 DEF ToldWholly
  <2> QED  BY <1>1, <2>6, <2>10, <2>11, IdleHolds DEF PromotionInv
<1> QED  BY <1>5, <1>6

LEMMA IsolateKeeps == PromotionInv /\ Isolate => PromotionInv'
<1> SUFFICES ASSUME PromotionInv, Isolate  PROVE PromotionInv'
  OBVIOUS
<1>1. gate.phase = "isolate" /\ UNCHANGED <<trials, seam, tasks, stored, replayed, ruling>>
  BY DEF Isolate
<1>2. /\ trials = NoTrials
      /\ gate = [phase |-> "isolate", wanted |-> gate.wanted, at |-> gate.at, heard |-> gate.heard]
  BY <1>1 DEF PromotionInv, GateHolds, NoGate, Works, TrialsHold, Begun
<1>3. PICK fails \in BOOLEAN, heard \in {gate.heard, ChainSteps[gate.at]} :
        gate' = IF fails
                THEN [phase |-> "isolated", wanted |-> gate.wanted,
                      failed |-> TRUE, stage |-> ChainSteps[gate.at], heard |-> heard]
                ELSE IF ChainSteps[gate.at] = gate.wanted
                THEN [phase |-> "isolated", wanted |-> gate.wanted,
                      failed |-> FALSE, stage |-> gate.wanted, heard |-> Unset]
                ELSE [gate EXCEPT !.at = @ + 1, !.heard = heard]
  BY DEF Isolate
<1>4. gate'.phase \in {"isolate", "isolated"} /\ GateHolds'
  <2>1. CASE gate' = [gate EXCEPT !.at = @ + 1, !.heard = heard]
    <3> DEFINE wanted == gate.wanted
               at == gate.at + 1
    <3> DEFINE was == gate.heard
               from == gate.at
    <3>0. gate = [phase |-> "isolate", wanted |-> wanted, at |-> from, heard |-> was]
      BY <1>2
    <3>2. gate' = [gate EXCEPT !.at = at, !.heard = heard]
      BY <2>1
    <3> HIDE DEF wanted, at, was, from
    <3>1. gate' = [phase |-> "isolate", wanted |-> wanted, at |-> at, heard |-> heard]
      BY <3>0, <3>2
    <3> QED  BY <3>1 DEF GateHolds
  <2>2. CASE gate'.phase = "isolated"
    BY <2>2 DEF GateHolds
  <2> QED  BY <1>3, <2>1, <2>2
<1>5. TrialsHold' /\ ToldWholly'
  BY <1>1, <1>2, <1>4 DEF PromotionInv, TrialsHold, Begun, ToldWholly
<1> QED  BY <1>1, <1>4, <1>5, IdleHolds DEF PromotionInv

\* An invocation whose trials are under way, or over.
LEMMA WorkIs ==
  ASSUME PromotionInv, Begun
  PROVE  gate \in Works /\ (gate.cached => gate.reps = 1) /\ gate.side <= gate.sides
BY DEF PromotionInv, GateHolds, Begun, NoGate

LEMMA ReportLabelKeeps == PromotionInv /\ ReportLabel => PromotionInv'
<1> SUFFICES ASSUME PromotionInv, ReportLabel  PROVE PromotionInv'
  OBVIOUS
<1>1. /\ gate.phase = "compare" /\ gate' = [gate EXCEPT !.phase = "reported"]
      /\ UNCHANGED <<trials, seam, tasks, stored, replayed>>
  BY DEF ReportLabel
<1>2. gate \in Works /\ (gate.cached => gate.reps = 1) /\ gate.side <= gate.sides
  BY <1>1, WorkIs DEF Begun
<1>3. /\ gate' \in Works /\ gate'.phase = "reported" /\ gate'.cached = gate.cached
      /\ gate'.reps = gate.reps /\ gate'.side = gate.side /\ gate'.sides = gate.sides
  BY <1>1, <1>2 DEF Works
<1>4. GateHolds' /\ TrialsHold' /\ ToldWholly'
  BY <1>1, <1>2, <1>3 DEF PromotionInv, GateHolds, TrialsHold, Begun, ToldWholly
<1> QED  BY <1>1, <1>4, IdleHolds DEF PromotionInv

LEMMA TrialStays ==
  ASSUME trials' = trials, NEW side, NEW i, NEW r, NEW measure
  PROVE  Of(measure, Group(side, i)[r])' = Of(measure, Group(side, i)[r])
<1> DEFINE x == Group(side, i)[r]
           marks == x.marks
<1>1. x' = x /\ x.marks' = x.marks
  BY DEF Group
<1>2. TotalOf(marks)' = TotalOf(marks)
  <2> HIDE DEF x
  <2>1. marks' = marks
    BY <1>1
  <2> HIDE DEF marks
  <2> QED  BY <2>1 DEF TotalOf, MapThenSumSet, MapThenFoldSet
<1>3. Of(measure, x)' = Of(measure, x)
  <2> HIDE DEF x
  <2> QED  BY <1>1, <1>2 DEF Of
<1> QED  BY <1>3

LEMMA RowsStay ==
  ASSUME trials' = trials, NEW i \in Items  PROVE RowOf(i)' = RowOf(i)
<1> DEFINE c == Group("candidate", i)
           b == Group("baseline", i)
<1>1. c' = c /\ b' = b
  BY DEF Group
<1>2. Seen(c)' = Seen(c) /\ Seen(b)' = Seen(b)
  BY <1>1 DEF Seen
<1>3. ItemFails(c)' = ItemFails(c) /\ ItemFails(b)' = ItemFails(b)
  BY <1>1 DEF ItemFails, Broken
<1>4. FirstReason(c)' = FirstReason(c) /\ FirstReason(b)' = FirstReason(b)
  BY <1>1 DEF FirstReason, Broken
<1>5. Paired(c, b)' = Paired(c, b)
  BY <1>1 DEF Paired, Broken
<1>6. ASSUME NEW measure \in Measures  PROVE MedianDelta(measure, c, b)' = MedianDelta(measure, c, b)
  <2> DEFINE delta == [r \in Paired(c, b) |-> Of(measure, c[r]) - Of(measure, b[r])]
  <2>1. \A r : Of(measure, c[r])' = Of(measure, c[r]) /\ Of(measure, b[r])' = Of(measure, b[r])
    BY TrialStays
  <2>2. delta' = delta
    BY <1>5, <2>1
  <2>3. MedianDelta(measure, c, b) = MedianTwice(delta)
    BY DEF MedianDelta
  <2>5. MedianDelta(measure, c, b)' = MedianTwice(delta)'
    BY DEF MedianDelta
  <2> HIDE DEF delta
  <2>4. MedianTwice(delta)' = MedianTwice(delta)
    BY <2>2 DEF MedianTwice, Ranked
  <2> QED  BY <2>3, <2>4, <2>5
<1> QED  BY <1>2, <1>3, <1>4, <1>5, <1>6 DEF RowOf

LEMMA CompareLabelsKeeps == PromotionInv /\ CompareLabels => PromotionInv'
<1> SUFFICES ASSUME PromotionInv, CompareLabels  PROVE PromotionInv'
  OBVIOUS
<1>1. /\ gate.phase = "compare" /\ gate.sides = 2 /\ gate' = [gate EXCEPT !.phase = "judged"]
      /\ UNCHANGED <<trials, seam, tasks, stored, replayed>>
      /\ ruling' = [verdict |-> VerdictOf([i \in Items |-> RowOf(i)])]
  BY DEF CompareLabels
<1>2. gate \in Works /\ (gate.cached => gate.reps = 1) /\ gate.side <= gate.sides
  BY <1>1, WorkIs DEF Begun
<1>3. /\ gate' \in Works /\ gate'.phase = "judged" /\ gate'.cached = gate.cached
      /\ gate'.reps = gate.reps /\ gate'.side = gate.side /\ gate'.sides = gate.sides
  BY <1>1, <1>2 DEF Works
<1>4. GateHolds' /\ ToldWholly'
  BY <1>2, <1>3 DEF GateHolds, ToldWholly
<1>5. \A i \in Items : RowOf(i)' = RowOf(i)
  BY <1>1, RowsStay
<1> DEFINE table == [i \in Items |-> RowOf(i)]
<1>6. table' = table
  BY <1>5
<1>7. ruling'.verdict = VerdictOf(table) /\ VerdictOf(table)' = VerdictOf(table)
  <2>1. ruling'.verdict = VerdictOf(table)
    BY <1>1
  <2> HIDE DEF table
  <2> QED  BY <1>6, <2>1 DEF VerdictOf
<1>8. TrialsHold'
  BY <1>1, <1>3, <1>7 DEF PromotionInv, TrialsHold, Begun
<1> QED  BY <1>1, <1>4, <1>8, IdleHolds DEF PromotionInv

\* A step of one trial, which leaves the invocation and what it collected be.
LEMMA TrialSteps ==
  ASSUME PromotionInv, NEW i \in Items, Trying(i), UNCHANGED <<gate, trials, ruling>>, ~replayed', TasksHold'
  PROVE  PromotionInv'
<1>1. gate.phase = "label" /\ gate'.phase = "label"
  BY DEF Trying
<1>2. GateHolds' /\ ToldWholly'
  BY DEF PromotionInv, GateHolds, ToldWholly
<1>3. TrialsHold'
  BY <1>1 DEF PromotionInv, TrialsHold, Begun, SideOfGate
<1> QED  BY <1>2, <1>3 DEF PromotionInv

LEMMA StartTrialKeeps == ASSUME PromotionInv, NEW i \in Items, StartTrial(i) PROVE PromotionInv'
<1> DEFINE x == [pc |-> "running", found |-> seam, calls |-> 0]
<1>1. /\ Trying(i) /\ tasks' = [tasks EXCEPT ![i] = x] /\ seam' = "cached"
      /\ UNCHANGED <<gate, trials, stored, replayed, ruling>>
  BY DEF StartTrial
<1>2. x.pc = "running" /\ x = [pc |-> "running", found |-> x.found, calls |-> x.calls]
  OBVIOUS
<1> HIDE DEF x
<1>3. /\ DOMAIN tasks' = Items /\ tasks' = [j \in Items |-> tasks'[j]]
      /\ \A j \in Items : tasks'[j] = IF j = i THEN x ELSE tasks[j]
  BY <1>1 DEF PromotionInv, TasksHold
<1>4. \A j \in Items : Trying(j)' <=> Trying(j)
  BY <1>1 DEF Trying
<1>5. TasksHold'
  BY <1>1, <1>2, <1>3, <1>4 DEF PromotionInv, TasksHold
<1> QED  BY <1>1, <1>5, TrialSteps DEF PromotionInv

LEMMA CallProviderKeeps == ASSUME PromotionInv, NEW i \in Items, CallProvider(i) PROVE PromotionInv'
<1> DEFINE x == [tasks[i] EXCEPT !.calls = @ + 1]
<1>1. /\ Trying(i) /\ tasks[i].pc = "running" /\ tasks' = [tasks EXCEPT ![i] = x]
      /\ UNCHANGED <<gate, trials, seam, ruling>>
      /\ replayed' = (replayed \/ (gate.reps > 1 /\ seam = "cached" /\ <<SideOfGate, i>> \in stored))
  <2>1. tasks' = [tasks EXCEPT ![i].calls = @ + 1]
    BY DEF CallProvider
  <2>2. tasks' = [tasks EXCEPT ![i] = x]
    BY <2>1
  <2> QED  BY <2>2 DEF CallProvider
<1>2. x.pc = "running" /\ x = [pc |-> "running", found |-> x.found, calls |-> x.calls]
  BY <1>1 DEF PromotionInv, TasksHold
<1> HIDE DEF x
<1>3. /\ DOMAIN tasks' = Items /\ tasks' = [j \in Items |-> tasks'[j]]
      /\ \A j \in Items : tasks'[j] = IF j = i THEN x ELSE tasks[j]
  BY <1>1 DEF PromotionInv, TasksHold
<1>4. \A j \in Items : Trying(j)' <=> Trying(j)
  BY <1>1 DEF Trying
<1>5. TasksHold'
  BY <1>1, <1>2, <1>3, <1>4 DEF PromotionInv, TasksHold
<1>6. gate.reps = 1
  <2>1. Begun /\ gate.cached
    BY <1>1 DEF Trying, Begun
  <2> QED  BY <2>1, WorkIs
<1>7. ~replayed'
  <2>1. ~(gate.reps > 1)
    BY <1>6
  <2>2. ~replayed
    BY DEF PromotionInv
  <2> QED  BY <1>1, <2>1, <2>2, Zenon
<1> QED  BY <1>1, <1>5, <1>7, TrialSteps

LEMMA EndTrialKeeps == ASSUME PromotionInv, NEW i \in Items, EndTrial(i) PROVE PromotionInv'
<1> DEFINE x == [pc |-> "done"]
<1>1. /\ Trying(i) /\ tasks' = [tasks EXCEPT ![i] = x] /\ seam' = "raw"
      /\ UNCHANGED <<gate, trials, stored, replayed, ruling>>
  BY DEF EndTrial, PutBack
<1>2. x.pc = "done"
  OBVIOUS
<1> HIDE DEF x
<1>3. /\ DOMAIN tasks' = Items /\ tasks' = [j \in Items |-> tasks'[j]]
      /\ \A j \in Items : tasks'[j] = IF j = i THEN x ELSE tasks[j]
  BY <1>1 DEF PromotionInv, TasksHold
<1>4. \A j \in Items : Trying(j)' <=> Trying(j)
  BY <1>1 DEF Trying
<1>5. TasksHold'
  BY <1>1, <1>2, <1>3, <1>4 DEF PromotionInv, TasksHold
<1> QED  BY <1>1, <1>5, TrialSteps DEF PromotionInv

\* What is collected of a label is one more outcome of all its items.
LEMMA DrawnIs ==
  ASSUME NEW items, NEW draw \in Draws
  PROVE  [i \in Items |-> IF i \in items THEN draw[i] ELSE Untried] \in Outcomes
<1>1. draw \in [Items -> Trial]
  BY DrawsKnown DEF Trial
<1>2. Untried \in Trial
  BY DEF Untried, Trial
<1> QED  BY <1>1, <1>2 DEF Outcomes

LEMMA OneMoreOutcome ==
  ASSUME NEW S, NEW s \in Seq(S), NEW x \in S
  PROVE  Append(s, x) \in Seq(S) /\ Len(Append(s, x)) = Len(s) + 1 /\ Len(s) \in Nat
OBVIOUS

LEMMA CollectLabelKeeps == PromotionInv /\ CollectLabel => PromotionInv'
<1> SUFFICES ASSUME PromotionInv, CollectLabel  PROVE PromotionInv'
  OBVIOUS
<1> DEFINE side == SideOfGate
<1>1. /\ gate.phase = "label" /\ Gathered /\ UNCHANGED <<seam, stored, replayed, ruling>>
      /\ tasks' = [i \in Items |-> [pc |-> "idle"]]
      /\ gate' = IF Len(trials[side]) + 1 < gate.reps THEN gate
                 ELSE IF gate.side < gate.sides THEN [gate EXCEPT !.side = @ + 1]
                 ELSE [gate EXCEPT !.phase = "compare"]
  BY DEF CollectLabel
<1>2. gate \in Works /\ (gate.cached => gate.reps = 1) /\ gate.side <= gate.sides
  BY <1>1, WorkIs DEF Begun
<1>3. PICK drawn \in Outcomes : trials' = [trials EXCEPT ![side] = Append(@, drawn)]
  <2>1. PICK draw \in Draws :
          trials' = [trials EXCEPT ![side] =
                       Append(@, [i \in Items |-> IF i \in gate.items THEN draw[i] ELSE Untried])]
    BY DEF CollectLabel
  <2> QED  BY <2>1, DrawnIs
<1>4. seam = "raw" /\ TasksHold'
  <2>1. ASSUME NEW i \in Items  PROVE tasks[i].pc # "running"
    <3> SUFFICES ASSUME tasks[i].pc = "running"  PROVE FALSE
      OBVIOUS
    <3>1. Trying(i)
      BY DEF PromotionInv, TasksHold
    <3> QED  BY <1>1, <3>1 DEF Trying, Gathered
  <2>2. seam = "raw"
    BY <2>1 DEF PromotionInv, TasksHold
  <2> QED  BY <1>1, <2>2 DEF TasksHold
<1>5. /\ gate.side = 1 => side = "candidate"
      /\ gate.side = 2 => side = "baseline"
      /\ gate.side \in {1, 2} /\ gate.sides \in {1, 2} /\ gate.reps \in Nat \ {0}
  BY <1>2 DEF SideOfGate, PromptSides, Works
<1> DEFINE n == Len(trials[side])
           reps == gate.reps
<1>6. /\ trials \in [{"candidate", "baseline"} -> Seq(Outcomes)]
      /\ n < reps
      /\ gate.side = 1 => Len(trials["baseline"]) = 0
      /\ gate.side = 2 => Len(trials["candidate"]) = reps
  BY <1>1 DEF PromotionInv, TrialsHold
<1>7. side \in {"candidate", "baseline"} /\ trials[side] \in Seq(Outcomes)
  BY <1>5, <1>6
<1> HIDE DEF side
<1>8. /\ trials' \in [{"candidate", "baseline"} -> Seq(Outcomes)]
      /\ Len(trials'[side]) = n + 1 /\ n \in Nat
      /\ \A other \in {"candidate", "baseline"} : other # side => trials'[other] = trials[other]
  <2> DEFINE more == Append(trials[side], drawn)
  <2>1. more \in Seq(Outcomes) /\ Len(more) = n + 1 /\ n \in Nat
    <3> DEFINE s == trials[side]
               S == Outcomes
    <3>1. s \in Seq(S) /\ drawn \in S
      BY <1>7
    <3> HIDE DEF s, S
    <3>2. Append(s, drawn) \in Seq(S) /\ Len(Append(s, drawn)) = Len(s) + 1 /\ Len(s) \in Nat
      BY <3>1, OneMoreOutcome
    <3> QED  BY <3>2 DEF s, S
  <2>2. trials' = [trials EXCEPT ![side] = more]
    BY <1>3
  <2> HIDE DEF more, n
  <2> QED  BY <1>6, <1>7, <2>1, <2>2
<1> HIDE DEF n, reps
<1>9. CASE n + 1 < reps
  <2>1. gate' = gate
    BY <1>1, <1>9 DEF n, reps
  <2>2. GateHolds' /\ ToldWholly'
    BY <2>1 DEF PromotionInv, GateHolds, ToldWholly
  <2>3. SideOfGate' = side
    BY <2>1 DEF SideOfGate, side
  <2>4. /\ gate.side = 1 => Len(trials'["baseline"]) = 0
        /\ gate.side = 2 => Len(trials'["candidate"]) = reps
    BY <1>5, <1>6, <1>8
  <2>5. TrialsHold'
    BY <1>1, <1>8, <1>9, <2>1, <2>3, <2>4 DEF TrialsHold, Begun, reps
  <2> QED  BY <1>1, <1>4, <2>2, <2>5 DEF PromotionInv
<1>10. CASE ~(n + 1 < reps) /\ gate.side < gate.sides
  <2>1. gate.side = 1 /\ gate.sides = 2
    BY <1>5, <1>10
  <2>2. gate' = [gate EXCEPT !.side = 2]
    BY <1>1, <1>10, <2>1 DEF n, reps
  <2>3. /\ gate' \in Works /\ gate'.phase = "label" /\ gate'.side = 2 /\ gate'.sides = 2
        /\ gate'.reps = reps /\ gate'.cached = gate.cached
    BY <1>1, <1>2, <2>1, <2>2 DEF Works, reps
  <2>4. GateHolds' /\ ToldWholly'
    BY <1>2, <2>3 DEF GateHolds, ToldWholly, reps
  <2>5. SideOfGate' = "baseline" /\ side = "candidate"
    BY <1>5, <2>1, <2>3 DEF SideOfGate, PromptSides
  <2>6. Len(trials'["candidate"]) = reps /\ Len(trials'["baseline"]) = 0
    <3>1. n + 1 = reps
      BY <1>5, <1>6, <1>8, <1>10 DEF reps
    <3> QED  BY <1>6, <1>8, <2>1, <2>5, <3>1
  <2>7. TrialsHold'
    BY <1>5, <1>8, <2>3, <2>5, <2>6 DEF TrialsHold, Begun, reps
  <2> QED  BY <1>1, <1>4, <2>4, <2>7 DEF PromotionInv
<1>11. CASE ~(n + 1 < reps) /\ ~(gate.side < gate.sides)
  <2>1. gate' = [gate EXCEPT !.phase = "compare"] /\ gate.side = gate.sides
    BY <1>1, <1>2, <1>5, <1>11 DEF n, reps
  <2>2. /\ gate' \in Works /\ gate'.phase = "compare" /\ gate'.side = gate.side /\ gate'.sides = gate.sides
        /\ gate'.reps = reps /\ gate'.cached = gate.cached
    BY <1>1, <1>2, <2>1 DEF Works, reps
  <2>3. GateHolds' /\ ToldWholly'
    BY <1>2, <2>2 DEF GateHolds, ToldWholly, reps
  <2>4. ASSUME gate.sides = 2  PROVE \A other \in {"candidate", "baseline"} : Len(trials'[other]) = reps
    <3>1. n + 1 = reps
      BY <1>5, <1>6, <1>8, <1>11 DEF reps
    <3>2. side = "baseline" /\ Len(trials["candidate"]) = reps
      BY <1>5, <1>6, <2>1, <2>4
    <3> QED  BY <1>8, <3>1, <3>2
  <2>5. TrialsHold'
    BY <1>8, <2>2, <2>4 DEF TrialsHold, Begun
  <2> QED  BY <1>1, <1>4, <2>3, <2>5 DEF PromotionInv
<1> QED  BY <1>9, <1>10, <1>11

LEMMA PromotionKeeps == PromotionInv /\ [PromotionNext]_promptVars => PromotionInv'
<1> SUFFICES ASSUME PromotionInv, [PromotionNext]_promptVars  PROVE PromotionInv'
  OBVIOUS
<1>1. CASE UNCHANGED promptVars
  <2>1. UNCHANGED <<gate, trials, seam, tasks, replayed, ruling>>
    BY <1>1 DEF promptVars
  <2>2. GateHolds' /\ ToldWholly' /\ ~replayed'
    BY <2>1 DEF PromotionInv, GateHolds, ToldWholly
  <2>3. TasksHold'
    BY <2>1 DEF PromotionInv, TasksHold, Trying
  <2>4. \A i \in Items : RowOf(i)' = RowOf(i)
    BY <2>1, RowsStay
  <2> DEFINE table == [i \in Items |-> RowOf(i)]
  <2>5. table' = table
    BY <2>4
  <2>6. VerdictOf(table)' = VerdictOf(table)
    <3> HIDE DEF table
    <3> QED  BY <2>5 DEF VerdictOf
  <2>7. TrialsHold'
    BY <2>1, <2>6 DEF PromotionInv, TrialsHold, Begun, SideOfGate
  <2> QED  BY <2>2, <2>3, <2>7 DEF PromotionInv
<1> QED
  BY <1>1, InvokeKeeps, BeginKeeps, IsolateKeeps, CollectLabelKeeps, ReportLabelKeeps, CompareLabelsKeeps,
     StartTrialKeeps, CallProviderKeeps, EndTrialKeeps DEF PromotionNext

LEMMA PromotionEnds == PromotionInv => PromotionIsEarned
<1> SUFFICES ASSUME PromotionInv  PROVE PromotionIsEarned
  OBVIOUS
<1>1. PassIsEarned
  <2>1. CASE gate.phase = "judged"
    <3>1. gate \in Works
      BY <2>1, WorkIs DEF Begun
    <3>2. TriedBoth
      BY <2>1, <3>1 DEF PromotionInv, TrialsHold, TriedBoth, Works
    <3>3. ruling.verdict = VerdictOf([i \in Items |-> RowOf(i)])
      BY <2>1 DEF PromotionInv, TrialsHold
    <3> QED  BY <3>2, <3>3, RulingIsEarned
  <2>2. CASE gate.phase # "judged"
    BY <2>2 DEF PassIsEarned
  <2> QED  BY <2>1, <2>2
<1>2. (\A i \in Items : tasks[i].pc # "running") => seam = "raw"
  BY DEF PromotionInv, TasksHold
<1> QED  BY <1>1, <1>2 DEF PromotionInv, PromotionIsEarned

-----------------------------------------------------------------------------
(* No judgement says more than its evidence: a winner of a pair is the one  *)
(* its readings and most of its judge's answers name, a prompt is promoted  *)
(* only where every golden item that came back was tried on both sides and  *)
(* worse in no measure for most of its repetitions, and a sweep over the    *)
(* frames publishes only what was looked at, answered and scored.           *)
(* evaluate_ab, scripts/eval_prompts.py and score_shot_narration.py, for    *)
(* any chain of metrics, readings, golden items, axes, repetitions, shots,  *)
(* decompositions and answers, and whatever lies where a report belongs.    *)
THEOREM JudgementsAreEarned == EvaluationSpec => []JudgementIsEarned
<1> DEFINE Inv == VerdictInv /\ PromotionInv /\ SweepInv
<1>1. EvaluationInit => Inv
  BY VerdictBegins, PromotionBegins, SweepBegins DEF EvaluationInit
<1>2. Inv /\ [EvaluationNext]_allVars => Inv'
  <2>1. [EvaluationNext]_allVars => [Next]_vars /\ [PromotionNext]_promptVars /\ [SweepNext]_sweepVars
    BY DEF EvaluationNext, allVars
  <2> QED  BY <2>1, VerdictKeeps, PromotionKeeps, SweepKeeps
<1>3. Inv => JudgementIsEarned
  BY PromotionEnds, SweepEnds DEF JudgementIsEarned, VerdictInv
<1> QED  BY <1>1, <1>2, <1>3, PTL DEF EvaluationSpec
=============================================================================
