---------------------------- MODULE AbEvaluation ----------------------------
(* A finished run and its B variants: the request that creates one, the     *)
(* evaluation its completion starts (eval_service.evaluate_ab), and the     *)
(* verdict both rows and the comparison page show.  A run is its row's      *)
(* status and its checkpoint; an evaluation holds what it read of both      *)
(* while either may be retried or edited.                                   *)
EXTENDS Integers, Sequences, FiniteSets
LOCAL INSTANCE FiniteSetsExt

CONSTANTS
  Bs,         \* the B runs requests may create
  Axes,       \* AXES
  Scores,     \* the scores a judge gives, of 1 .. 5
  Reps,       \* REPS_PER_AXIS
  Floor,      \* QUALITY_FLOOR
  Chain,      \* _TIEBREAK_CHAIN: <<[key, higher, eps], ...>>
  Readings,   \* the pairs of rule metrics two runs may have, by key
  MaxEvals,   \* evaluations spawned
  MaxChanges, \* retries and edits of finished runs
  Operator,   \* what the operator does: "retry", "edit", "again", "impatient"
  Faults      \* "timeout", "junk", "crash", "torn": a crash inside a retry

Runs == {"A"} \cup Bs
Evals == 1 .. MaxEvals
ASSUME JudgeKnown == Reps \in Nat \ {0} /\ Scores \subseteq 1 .. 5 /\ Floor \in Nat
ASSUME RunsKnown == "A" \notin Bs /\ MaxEvals \in Nat /\ MaxChanges \in Nat

VARIABLES
  status,  \* the row: "none", "running" or "complete"
  ck,      \* the checkpoint: its version, and whether every stage's work is in it
  post,    \* POST /ab, between its check and its insert
  retry,   \* retry_stage, between its checkpoint and its row
  ended,   \* the drivers between the row's "complete" and the trigger
  ev,      \* the evaluations
  ab,      \* ab_result of each row: whose verdict it is
  latest,  \* the ab_result stored last, with the evidence stored in it
  changes

vars == <<status, ck, post, retry, ended, ev, ab, latest, changes>>

None == "null"
NoVersion == [n |-> -1, whole |-> FALSE, scenes |-> FALSE]
NoVerdict == [winner |-> "unevaluated"]
Unspawned == [pc |-> "unspawned"]
Sides == {"A", "B"}
Other(side) == IF side = "A" THEN "B" ELSE "A"

-----------------------------------------------------------------------------
(* The judge.  An answer over HTTP is a score, junk, or a timeout.          *)
Unread == 0
Timeout == -1
Junk == -2
Answers == Scores \cup {Timeout : f \in Faults \cap {"timeout"}} \cup {Junk : f \in Faults \cap {"junk"}}

\* _post_chat: asked again after a timeout only.  _judge_sample: again after
\* an answer that does not parse.
Posted(first, second) == IF first = Timeout THEN second ELSE first
Sample(tries) ==
  LET one == Posted(tries[1], tries[2])
      two == Posted(tries[3], tries[4])
  IN IF one # Junk THEN one ELSE IF two = Junk THEN Unread ELSE two
Samples == {Sample(tries) : tries \in [1 .. 4 -> Answers]}

\* _judge_axis: the mean of the samples that parsed, which are two at least;
\* a timeout leaves the gather.  A mean is below the floor when the sum is
\* below as many times the floor.
Parsed(samples) == {i \in DOMAIN samples : samples[i] # Unread}
AxisFails(samples) ==
  \/ \E i \in DOMAIN samples : samples[i] = Timeout
  \/ Cardinality(Parsed(samples)) < 2
BelowFloor(samples) ==
  MapThenSumSet(LAMBDA i : samples[i], Parsed(samples)) < Floor * Cardinality(Parsed(samples))
AxisOutcome(samples) ==
  IF AxisFails(samples) THEN "failed" ELSE IF BelowFloor(samples) THEN "below" ELSE "above"
AxisOutcomes == {AxisOutcome(samples) : samples \in [1 .. Reps -> Samples]}

\* _score_run: an axis that fails fails the run; below_floor takes the least.
BelowOnAnAxis(outcomes) == \E axis \in Axes : outcomes[axis] = "below"
RunOutcome(outcomes) ==
  IF \E axis \in Axes : outcomes[axis] = "failed" THEN "failed"
  ELSE IF BelowOnAnAxis(outcomes) THEN "below" ELSE "above"
RunOutcomes == {RunOutcome(outcomes) : outcomes \in [Axes -> AxisOutcomes]}

\* _pairwise_once and the order _pairwise_compare asks in: A-B, B-A, A-B.
Prefers(call, answer) ==
  CASE answer = "tie" -> "tie"
    [] answer = "first" -> IF call = 2 THEN "B" ELSE "A"
    [] answer = "second" -> IF call = 2 THEN "A" ELSE "B"
Heard(raw) == [i \in DOMAIN raw |-> Prefers(i, raw[i])]

\* _rule_tiebreak_from_dicts: the first key both runs have a number for and
\* differ in by more than its epsilon.
\* Mutant: what was not measured counts as 0.
Unmeasured == -1
Distance(a, b) == IF a > b THEN a - b ELSE b - a
DecidesZeroed(rd, i) ==
  LET zeroed(side) == IF rd[side][Chain[i].key] = Unmeasured THEN 0 ELSE rd[side][Chain[i].key]
  IN Distance(zeroed("A"), zeroed("B")) > Chain[i].eps
Decides(rd, i) ==
  LET a == rd["A"][Chain[i].key]
      b == rd["B"][Chain[i].key]
  IN a # Unmeasured /\ b # Unmeasured /\ Distance(a, b) > Chain[i].eps
ASSUME MetricsKnown ==
  /\ Chain \in Seq([key : STRING, higher : BOOLEAN, eps : Nat])
  /\ \A rd \in Readings, side \in Sides, i \in DOMAIN Chain : rd[side][Chain[i].key] \in Nat \cup {Unmeasured}
RuleTiebreak(rd) ==
  LET deciding == {i \in DOMAIN Chain : Decides(rd, i)}
      first == CHOOSE i \in deciding : \A j \in deciding : i <= j
  IN IF deciding = {} THEN "tie"
     ELSE IF (rd["A"][Chain[first].key] > rd["B"][Chain[first].key]) = Chain[first].higher
          THEN "A" ELSE "B"

\* _pairwise_compare: whether it needs no further call, and what it then says.
Enough(heard) == Len(heard) = 3 \/ (Len(heard) = 2 /\ heard[1] = heard[2])
Final(heard, rd) ==
  LET last == heard[Len(heard)] IN IF last # "tie" THEN last ELSE RuleTiebreak(rd)
PairwiseWinner(low, heard, rd) ==
  IF low = Sides THEN None
  ELSE IF low # {} THEN CHOOSE side \in Sides : side \notin low
  ELSE Final(heard, rd)

\* determine_winner, which scores again what is about to be stored.
Majority(majority, rd) == IF majority \in Sides THEN majority ELSE RuleTiebreak(rd)
DetermineWinner(low, majority, rd) ==
  CASE low = Sides -> None
    [] low = {"A"} -> "B"
    [] low = {"B"} -> "A"
    [] OTHER -> Majority(majority, rd)

\* _resolve_winner: what evaluate_ab returns.
Resolved(low, final) == IF low = Sides THEN None ELSE IF final \in Sides THEN final ELSE "tie"

-----------------------------------------------------------------------------
Init ==
  /\ status = [r \in Runs |-> IF r = "A" THEN "complete" ELSE "none"]
  /\ ck = [r \in Runs |-> IF r = "A" THEN [n |-> 0, whole |-> TRUE, scenes |-> TRUE] ELSE NoVersion]
  /\ post = [b \in Bs |-> "unsent"] /\ retry = [r \in Runs |-> FALSE]
  /\ ended = {} /\ ev = [e \in Evals |-> Unspawned]
  /\ ab = [r \in Runs |-> NoVerdict] /\ latest = NoVerdict /\ changes = 0

InFlight(e) == ev[e].pc \in {"validate", "loadA", "loadB", "score", "compare"}
UnderWay(r) ==
  \/ \E q \in Runs : retry[q]
  \/ r = "A" /\ \E b \in Bs : post[b] = "reading" \/ status[b] = "running"
  \/ \E e \in Evals : InFlight(e) /\ r \in {"A", ev[e].b}
  \/ \E b \in ended \ {"A"} : r \in {"A", b}

\* POST /runs/{id}/ab: the check, create_ab_run's aget_state, the insert.
PostAb(b) ==
  /\ post[b] = "unsent" /\ status["A"] = "complete"
  /\ \A c \in Bs : status[c] = "none"
  /\ "impatient" \in Operator \/ ~retry["A"]
  /\ "again" \in Operator \/ \A c \in Bs : post[c] # "reading"
  /\ post' = [post EXCEPT ![b] = "reading"]
  /\ UNCHANGED <<status, ck, retry, ended, ev, ab, latest, changes>>
InsertB(b) ==
  /\ post[b] = "reading"
  /\ post' = [post EXCEPT ![b] = "done"]
  /\ status' = [status EXCEPT ![b] = "running"]
  /\ UNCHANGED <<ck, retry, ended, ev, ab, latest, changes>>

\* A driver's last writes, and _trigger_ab_eval_if_variant_b.
Complete(r) ==
  /\ status[r] = "running" /\ r \notin ended
  /\ ck' = [ck EXCEPT ![r] = [n |-> @.n + 1, whole |-> TRUE, scenes |-> TRUE]]
  /\ status' = [status EXCEPT ![r] = "complete"]
  /\ ended' = ended \cup {r}
  /\ UNCHANGED <<post, retry, ev, ab, latest, changes>>
Trigger(r) ==
  /\ r \in ended /\ ended' = ended \ {r}
  /\ IF r = "A" THEN UNCHANGED ev
     ELSE \E e \in Evals :
            /\ ev[e] = Unspawned /\ \A d \in Evals : d < e => ev[d] # Unspawned
            /\ ev' = [ev EXCEPT ![e] = [pc |-> "validate", b |-> r]]
  /\ UNCHANGED <<status, ck, post, retry, ab, latest, changes>>

\* retry_stage of a finished run: its checkpoint, then its row.
RetryCheckpoint(r) ==
  /\ "retry" \in Operator /\ changes < MaxChanges
  /\ status[r] = "complete" /\ ~retry[r]
  /\ "impatient" \in Operator \/ ~UnderWay(r)
  /\ \E scenes \in BOOLEAN :
       ck' = [ck EXCEPT ![r] = [n |-> @.n, whole |-> FALSE, scenes |-> scenes]]
  /\ retry' = [retry EXCEPT ![r] = TRUE] /\ changes' = changes + 1
  /\ UNCHANGED <<status, post, ended, ev, ab, latest>>
RetryRow(r) ==
  /\ retry[r] /\ retry' = [retry EXCEPT ![r] = FALSE]
  /\ status' = [status EXCEPT ![r] = "running"]
  /\ UNCHANGED <<ck, post, ended, ev, ab, latest, changes>>

\* edit_artifact of a finished run: another text, and no driver.
Edit(r) ==
  /\ "edit" \in Operator /\ changes < MaxChanges
  /\ status[r] = "complete" /\ ck[r].scenes
  /\ "impatient" \in Operator \/ ~UnderWay(r)
  /\ ck' = [ck EXCEPT ![r].n = @ + 1] /\ changes' = changes + 1
  /\ UNCHANGED <<status, post, retry, ended, ev, ab, latest>>

-----------------------------------------------------------------------------
(* evaluate_ab, under _run_ab_eval, which swallows what it raises.          *)
Raise(e, why) ==
  /\ ev' = [ev EXCEPT ![e] = [pc |-> why, b |-> @.b]]
  /\ UNCHANGED <<status, ck, post, retry, ended, ab, latest, changes>>
Goes(e, at) ==
  /\ ev' = [ev EXCEPT ![e] = at]
  /\ UNCHANGED <<status, ck, post, retry, ended, ab, latest, changes>>

\* _validate_pair; B's ab_pair_id is A's id from its insert on.
\* Mutant: the source was complete when the B was asked for.
VariantComplete(e) == status[ev[e].b] = "complete"
BothComplete(e) == status["A"] = "complete" /\ status[ev[e].b] = "complete"
Validate(e) ==
  /\ ev[e].pc = "validate"
  /\ IF ~BothComplete(e) THEN Raise(e, "refused")
     ELSE Goes(e, [pc |-> "loadA", b |-> ev[e].b])

\* _load_state, of A and then of B.
LoadA(e) ==
  /\ ev[e].pc = "loadA"
  /\ IF ~ck["A"].scenes THEN Raise(e, "refused")
     ELSE Goes(e, [pc |-> "loadB", b |-> ev[e].b, of |-> [A |-> ck["A"]]])
LoadB(e) ==
  /\ ev[e].pc = "loadB"
  /\ IF ~ck[ev[e].b].scenes THEN Raise(e, "refused")
     ELSE Goes(e, [pc |-> "score", b |-> ev[e].b, raw |-> <<>>,
                   of |-> [A |-> ev[e].of.A, B |-> ck[ev[e].b]]])

\* store_evaluation_results, which nothing awaits before its commit.
StoredIn(e) == {"A", ev[e].b}
Conclude(e, low, raw) ==
  /\ \E rd \in Readings :
       LET heard == Heard(raw)
           final == PairwiseWinner(low, heard, rd)
           winner == DetermineWinner(low, final, rd)
           verdict == [winner |-> winner, b |-> ev[e].b, of |-> ev[e].of]
       IN /\ ab' = [r \in Runs |-> IF r \in StoredIn(e) THEN verdict ELSE ab[r]]
          /\ latest' = [winner |-> winner, told |-> Resolved(low, final), low |-> low,
                        raw |-> raw, heard |-> heard, rd |-> rd]
          /\ ev' = [ev EXCEPT ![e] = [pc |-> "done", b |-> @.b, of |-> @.of]]
  /\ UNCHANGED <<status, ck, post, retry, ended, changes>>

\* Both runs are scored at once, and whatever fails ends the evaluation.
Judge(e) ==
  /\ ev[e].pc = "score"
  /\ \E scored \in [Sides -> RunOutcomes] :
       LET low == {side \in Sides : scored[side] = "below"}
       IN IF \E side \in Sides : scored[side] = "failed" THEN Raise(e, "failed")
          ELSE IF low # {} THEN Conclude(e, low, <<>>)
          ELSE Goes(e, [ev[e] EXCEPT !.pc = "compare"])

Opinions == {"first", "second", "tie"}
Compare(e) ==
  /\ ev[e].pc = "compare"
  /\ \/ \E answer \in Opinions :
          LET raw == Append(ev[e].raw, answer)
          IN IF Enough(Heard(raw)) THEN Conclude(e, {}, raw)
             ELSE Goes(e, [ev[e] EXCEPT !.raw = raw])
     \/ Faults \cap {"timeout", "junk"} # {} /\ Raise(e, "failed")

\* The process dies; nothing of an evaluation is kept.
Crash ==
  /\ "crash" \in Faults /\ ("torn" \in Faults \/ \A r \in Runs : ~retry[r])
  /\ changes < MaxChanges /\ changes' = changes + 1
  /\ post' = [b \in Bs |-> IF post[b] = "reading" THEN "lost" ELSE post[b]]
  /\ retry' = [r \in Runs |-> FALSE] /\ ended' = {}
  /\ ev' = [e \in Evals |-> IF InFlight(e) THEN [pc |-> "lost", b |-> ev[e].b] ELSE ev[e]]
  /\ UNCHANGED <<status, ck, ab, latest>>

Evaluates(e) ==
  \/ Validate(e) \/ LoadA(e) \/ LoadB(e) \/ Judge(e) \/ Compare(e)
Drives(r) == Complete(r) \/ Trigger(r) \/ RetryRow(r)

Next ==
  \/ \E b \in Bs : PostAb(b) \/ InsertB(b)
  \/ \E r \in Runs : Drives(r) \/ RetryCheckpoint(r) \/ Edit(r)
  \/ \E e \in Evals : Evaluates(e)
  \/ Crash

Spec == Init /\ [][Next]_vars

\* RunAbComparisonPage of a B: getNonSuccessState, then A's result or its own.
Shown(b) ==
  IF status["A"] # "complete" \/ status[b] # "complete" THEN NoVerdict
  ELSE IF ab["A"] # NoVerdict THEN ab["A"] ELSE ab[b]

-----------------------------------------------------------------------------
Versions == [n : -1 .. MaxChanges + MaxEvals + 2, whole : BOOLEAN, scenes : BOOLEAN]
TypeOK ==
  /\ status \in [Runs -> {"none", "running", "complete"}] /\ ck \in [Runs -> Versions]
  /\ post \in [Bs -> {"unsent", "reading", "done", "lost"}] /\ retry \in [Runs -> BOOLEAN]
  /\ ended \subseteq Runs /\ changes \in 0 .. MaxChanges
  /\ \A r \in Runs : ab[r] = NoVerdict \/ ab[r].winner \in {"A", "B", "tie", None}

(* What a verdict is earned by (OQ-6): a run with an axis below the floor   *)
(* never wins; a judge that names the same run in both orders has its way;  *)
(* a run nobody named first, or that was named as often as the other, wins  *)
(* only by a metric both runs have; a pair called the other way round gets  *)
(* the mirrored verdict, but for the third call, which repeats the first;   *)
(* and what is stored is what evaluate_ab returns.                          *)
Votes(v, side) == Cardinality({i \in DOMAIN v.heard : v.heard[i] = side})
WinsByMetric(v, side) ==
  \E i \in DOMAIN Chain :
    LET mine == v.rd[side][Chain[i].key]
        others == v.rd[Other(side)][Chain[i].key]
    IN /\ Unmeasured \notin {mine, others}
       /\ IF Chain[i].higher THEN mine > others + Chain[i].eps ELSE mine < others - Chain[i].eps
Mirrored(v) ==
  LET swap(x) == IF x \in Sides THEN Other(x) ELSE x
      low == {Other(side) : side \in v.low}
      rd == [side \in Sides |-> v.rd[Other(side)]]
      heard == IF v.heard = <<>> THEN <<>> ELSE <<swap(v.heard[2]), swap(v.heard[1])>>
  IN Len(v.heard) < 3 =>
       swap(v.winner) = DetermineWinner(low, PairwiseWinner(low, heard, rd), rd)
Said(v, one, two) == Len(v.raw) > 1 /\ v.raw[1] = one /\ v.raw[2] = two
Earned(v) ==
  /\ v.low # {} => v.heard = <<>> /\ (v.winner = None <=> v.low = Sides)
  /\ \A side \in Sides :
       /\ v.winner = side =>
            /\ side \notin v.low
            /\ \/ v.low # {} \/ WinsByMetric(v, side)
               \/ Votes(v, side) > 0 /\ Votes(v, side) >= Votes(v, Other(side))
  /\ Said(v, "first", "second") => v.winner = "A"
  /\ Said(v, "second", "first") => v.winner = "B"
  /\ Mirrored(v)
VerdictIsEarned == latest # NoVerdict => Earned(latest) /\ latest.told = latest.winner

(* Whose verdict it is.  A B's row shows the verdict of this B, and the     *)
(* source's row that of one of its Bs, the same as that B's own; the page   *)
(* of the only B shows its verdict.  With an operator who touches neither   *)
(* run before the comparison has ended, and no process dying inside a       *)
(* retry, both sides were whole when they were read, and a B shows the      *)
(* verdict of its latest evaluation, if that ended in one.                  *)
Latest(e) == \A d \in Evals : d > e => ev[d] = Unspawned \/ ev[d].b # ev[e].b
VerdictIsOfThisPair ==
  /\ \A b \in Bs : ab[b] # NoVerdict => ab[b].b = b
  /\ ab["A"] # NoVerdict => ab[ab["A"].b] = ab["A"]
  /\ \A b \in Bs : Shown(b) # NoVerdict /\ (\A c \in Bs \ {b} : status[c] = "none") =>
       Shown(b) = ab[b]
  /\ "impatient" \notin Operator =>
       /\ \A b \in Bs : ab[b] # NoVerdict => ab[b].of.A.whole /\ ab[b].of.B.whole
       /\ \A e \in Evals : ev[e].pc = "done" /\ Latest(e) => ab[ev[e].b].of = ev[e].of
=============================================================================
