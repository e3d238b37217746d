-------------------------- MODULE PromptPromotion --------------------------
(* scripts/eval_prompts.py: what an invocation is allowed to compare, the   *)
(* trials of the golden items under either label, the cache their calls may *)
(* be answered from, and the verdict by which a prompt is promoted.  Of a   *)
(* trial the marks of its axes are kept, or why it has none; the seams      *)
(* through which concurrent trials reach the providers are the only state   *)
(* they share.                                                              *)
EXTENDS Integers, Sequences, FiniteSets, FiniteSetsExt

CONSTANTS
  Items,         \* GOLDEN_IDS
  Canary,        \* SMOKE_DEFAULT_SCP_ID
  PromotionReps, \* PROMOTION_REPS
  RepsAsked,     \* what --reps may be, 0 where it is not given
  Measured,      \* the axes whose marks are compared
  Draws          \* what the trials of all items may come to at once

ASSUME GateKnown == Canary \in Items /\ PromotionReps \in Nat \ {0} /\ RepsAsked \subseteq Nat
ASSUME DrawsKnown ==
  /\ IsFiniteSet(Measured)
  /\ Draws \subseteq
       [Items -> [kind : {"scored", "timeout", "broken", "missing"}, marks : [Measured -> Int]]]

VARIABLES
  gate,      \* the phase of the invocation, and what it was asked
  trials,    \* of either label: its repetitions, each with every item's trial
  seam,      \* scenario._call_deepseek: "raw" or "cached"
  tasks,     \* the items' trials that share it: "idle", "running", "done", and what they found
  stored,    \* the labels whose answers the cache has
  replayed,  \* a trial was answered by the cache
  ruling     \* the verdict, and each item's row

promptVars == <<gate, trials, seam, tasks, stored, replayed, ruling>>

Unset == "unset"
Untold == 0
Labels == {"candidate", "production"}
PromptSides == <<"candidate", "baseline">>
ToldProfiles == {Unset, "smoke", "promotion"}
ChainSteps == <<"format_guide", "research", "structure", "writing", "cast_decision", "visual_breakdown">>
IsolatedStages == {"writing", "cast_decision", "visual_breakdown"}

-----------------------------------------------------------------------------
(* resolve_profile, and the checks main makes before anything is paid for.  *)
Invocations ==
  [profile : ToldProfiles, label : Labels \cup {Unset}, baseline : Labels \cup {Unset},
   item : {Unset, Canary}, stage : {"full"} \cup IsolatedStages, reps : RepsAsked]
Surroundings == [agent : BOOLEAN, override : BOOLEAN, roomy : SUBSET {"deepseek", "gemini"}]

Or(told, default) == IF told = Unset THEN default ELSE told
Counted(told, default) == IF told = Untold THEN default ELSE told
ProfileResolved(a) ==
  CASE a.profile = Unset -> [a EXCEPT !.reps = Counted(@, 1)]
    [] a.profile = "smoke" ->
         [a EXCEPT !.label = Or(@, "candidate"), !.item = Or(@, Canary), !.reps = Counted(@, 1)]
    [] a.profile = "promotion" ->
         [a EXCEPT !.label = Or(@, "candidate"), !.baseline = Or(@, "production"),
                   !.reps = Counted(@, PromotionReps)]
ProfileRejects(a) ==
  /\ a.profile = "promotion"
  /\ \/ a.item # Unset
     \/ a.stage # "full"
     \/ ProfileResolved(a).label # "candidate" \/ ProfileResolved(a).baseline # "production"
     \/ ProfileResolved(a).reps < PromotionReps

MainRejects(r, around) ==
  \/ /\ r.baseline # Unset
     /\ \/ r.label \in {Unset, r.baseline}
        \/ r.stage # "full"
        \/ around.agent \/ ~around.override
  \/ r.profile = "promotion" /\ around.roomy # {"deepseek", "gemini"}

\* write_profile_metadata: only a promotion's has no note.
Authority(r) ==
  CASE r.profile = "promotion" -> "PROMOTION GATE"
    [] r.profile = "smoke" -> "NOT A PROMOTION GATE"
    [] OTHER -> Unset

-----------------------------------------------------------------------------
NoGate == [phase |-> "idle"]
NoRuling == [verdict |-> Unset]
NoTrials == [side \in {"candidate", "baseline"} |-> <<>>]

PromotionInit ==
  /\ gate = NoGate /\ trials = NoTrials
  /\ seam = "raw" /\ tasks = [i \in Items |-> [pc |-> "idle"]]
  /\ stored = {} /\ replayed = FALSE /\ ruling = NoRuling

Invoke ==
  /\ gate = NoGate
  /\ \E a \in Invocations, around \in Surroundings :
       LET r == ProfileResolved(a)
       IN /\ ~ProfileRejects(a) /\ ~MainRejects(r, around) /\ r.label # Unset
          /\ gate' = [phase |-> "told", asked |-> r, around |-> around, authority |-> Authority(r)]
  /\ UNCHANGED <<trials, seam, tasks, stored, replayed, ruling>>

\* Which of its three works the invocation is for, and whether it may be
\* answered from the cache: _eval_reps never lets repetitions.
MayReplay(reps, noCache) == reps = 1 /\ ~noCache
Begin ==
  /\ gate.phase = "told"
  /\ \E noCache \in BOOLEAN :
       gate' =
         IF gate.asked.stage # "full"
         THEN [phase |-> "isolate", wanted |-> gate.asked.stage, at |-> 1, heard |-> Unset]
         ELSE [phase |-> "label", side |-> 1,
               sides |-> IF gate.asked.baseline = Unset THEN 1 ELSE 2,
               items |-> IF gate.asked.item = Unset THEN Items ELSE {gate.asked.item},
               reps |-> IF gate.asked.baseline = Unset THEN 1 ELSE gate.asked.reps,
               cached |-> MayReplay(IF gate.asked.baseline = Unset THEN 1 ELSE gate.asked.reps, noCache)]
  /\ UNCHANGED <<trials, seam, tasks, stored, replayed, ruling>>

-----------------------------------------------------------------------------
(* _run_stage_chain: one item, real prerequisites, the provider's last      *)
(* answer kept.  A stage may fail before it calls and after.                *)
Isolate ==
  /\ gate.phase = "isolate"
  /\ \E called \in IF gate.at = 1 THEN {FALSE} ELSE BOOLEAN, fails \in BOOLEAN :
       LET heard == IF called THEN ChainSteps[gate.at] ELSE gate.heard
       IN /\ called \/ fails \/ gate.at = 1
          /\ gate' =
               IF fails
               THEN [phase |-> "isolated", wanted |-> gate.wanted,
                     failed |-> TRUE, stage |-> ChainSteps[gate.at], heard |-> heard]
               ELSE IF ChainSteps[gate.at] = gate.wanted
               THEN [phase |-> "isolated", wanted |-> gate.wanted,
                     failed |-> FALSE, stage |-> gate.wanted, heard |-> Unset]
               ELSE [gate EXCEPT !.at = @ + 1, !.heard = heard]
  /\ UNCHANGED <<trials, seam, tasks, stored, replayed, ruling>>

-----------------------------------------------------------------------------
(* evaluate_label: the items' trials at once, each of which puts the cache  *)
(* behind the module's seam and the provider back when it ends.             *)
SideOfGate == PromptSides[gate.side]
Trying(i) == gate.phase = "label" /\ gate.cached /\ i \in gate.items
StartTrial(i) ==
  /\ Trying(i) /\ tasks[i].pc = "idle"
  /\ tasks' = [tasks EXCEPT ![i] = [pc |-> "running", found |-> seam, calls |-> 0]]
  /\ seam' = "cached"
  /\ UNCHANGED <<gate, trials, stored, replayed, ruling>>

\* A call goes where the seam leads when it is made.
CallProvider(i) ==
  /\ Trying(i) /\ tasks[i].pc = "running" /\ tasks[i].calls < 2
  /\ tasks' = [tasks EXCEPT ![i].calls = @ + 1]
  /\ stored' = IF seam = "cached" THEN stored \cup {<<SideOfGate, i>>} ELSE stored
  /\ replayed' = (replayed \/ (gate.reps > 1 /\ seam = "cached" /\ <<SideOfGate, i>> \in stored))
  /\ UNCHANGED <<gate, trials, seam, ruling>>

\* What _run_scenario puts back is what the script imported.
PutBack(found) == "raw"
EndTrial(i) ==
  /\ Trying(i) /\ tasks[i].pc = "running"
  /\ seam' = PutBack(tasks[i].found)
  /\ tasks' = [tasks EXCEPT ![i] = [pc |-> "done"]]
  /\ UNCHANGED <<gate, trials, stored, replayed, ruling>>

Gathered == \A i \in gate.items : ~gate.cached \/ tasks[i].pc = "done"
Untried == [kind |-> "missing", marks |-> [axis \in Measured |-> 0]]
CollectLabel ==
  /\ gate.phase = "label" /\ Gathered
  /\ \E drawn \in {[i \in Items |-> IF i \in gate.items THEN draw[i] ELSE Untried] : draw \in Draws} :
       trials' = [trials EXCEPT ![SideOfGate] = Append(@, drawn)]
  /\ tasks' = [i \in Items |-> [pc |-> "idle"]]
  /\ gate' = IF Len(trials[SideOfGate]) + 1 < gate.reps THEN gate
             ELSE IF gate.side < gate.sides THEN [gate EXCEPT !.side = @ + 1]
             ELSE [gate EXCEPT !.phase = "compare"]
  /\ UNCHANGED <<seam, stored, replayed, ruling>>

-----------------------------------------------------------------------------
(* aggregate_runs.                                                          *)
Group(side, i) == [r \in DOMAIN trials[side] |-> trials[side][r][i]]
Seen(group) == \E r \in DOMAIN group : group[r].kind # "missing"
Broken(group) == {r \in DOMAIN group : group[r].kind # "scored"}
ItemFails(group) == Cardinality(Broken(group)) * 2 > Len(group) \/ Broken(group) = DOMAIN group
FirstReason(group) == group[CHOOSE r \in Broken(group) : \A q \in Broken(group) : r <= q].kind

\* statistics.median, twice: the sum of the middle two of the values, in
\* order, of which the middle one is both.
Ranked(values, k) ==
  CHOOSE x \in {values[r] : r \in DOMAIN values} :
    k \in Cardinality({r \in DOMAIN values : values[r] < x}) + 1
            .. Cardinality({r \in DOMAIN values : values[r] <= x})
MedianTwice(values) ==
  LET n == Cardinality(DOMAIN values) IN Ranked(values, (n + 1) \div 2) + Ranked(values, n \div 2 + 1)

\* compare: the deltas of the repetitions that scored on both sides.
TotalOf(marks) == MapThenSumSet(LAMBDA axis : marks[axis], Measured)
Of(measure, trial) == IF measure \in Measured THEN trial.marks[measure] ELSE TotalOf(trial.marks)
Measures == Measured \cup {"total"}
Paired(c, b) == DOMAIN c \ (Broken(c) \cup Broken(b))
MedianDelta(measure, c, b) ==
  MedianTwice([r \in Paired(c, b) |-> Of(measure, c[r]) - Of(measure, b[r])])

RowOf(i) ==
  LET c == Group("candidate", i)
      b == Group("baseline", i)
  IN IF ~Seen(c) /\ ~Seen(b) THEN "absent"
     ELSE IF ~Seen(c) THEN "missing from candidate run"
     ELSE IF ~Seen(b) THEN "item failure"
     ELSE IF ItemFails(c) \/ ItemFails(b)
          THEN IF ItemFails(c) /\ ItemFails(b) /\ FirstReason(c) = "timeout" /\ FirstReason(b) = "timeout"
               THEN "inconclusive" ELSE "item failure"
     ELSE IF Paired(c, b) = {} THEN "item failure"
     ELSE IF \E measure \in Measures : MedianDelta(measure, c, b) < 0 THEN "regressed"
     ELSE "ok"

VerdictOf(table) ==
  IF \A i \in Items : table[i] = "absent" THEN "FAIL"
  ELSE IF \E i \in Items : table[i] \notin {"ok", "absent", "inconclusive"} THEN "FAIL"
  ELSE IF \E i \in Items : table[i] = "inconclusive" THEN "INCONCLUSIVE" ELSE "PASS"

\* main: the exit code of one label's report, the verdict of two.
ReportLabel ==
  /\ gate.phase = "compare" /\ gate.sides = 1
  /\ LET outcome == trials["candidate"][1]
         back == {i \in Items : outcome[i].kind # "missing"}
     IN ruling' = [verdict |-> IF back = {} \/ \E i \in back : outcome[i].kind # "scored" THEN "1" ELSE "0"]
  /\ gate' = [gate EXCEPT !.phase = "reported"]
  /\ UNCHANGED <<trials, seam, tasks, stored, replayed>>
CompareLabels ==
  /\ gate.phase = "compare" /\ gate.sides = 2
  /\ LET table == [i \in Items |-> RowOf(i)]
     IN ruling' = [verdict |-> VerdictOf(table)]
  /\ gate' = [gate EXCEPT !.phase = "judged"]
  /\ UNCHANGED <<trials, seam, tasks, stored, replayed>>

PromotionNext ==
  \/ Invoke \/ Begin \/ Isolate \/ CollectLabel \/ ReportLabel \/ CompareLabels
  \/ \E i \in Items : StartTrial(i) \/ CallProvider(i) \/ EndTrial(i)

-----------------------------------------------------------------------------
(* What promotes a prompt (6.10, AC3, AC6).  An invocation with a           *)
(* promotion's authority compares candidate with production over every item *)
(* and repetitions enough, by an operator who asked for it.  A verdict is   *)
(* PASS only if every item that came back at all came back from either      *)
(* label, in half the repetitions at least and in one of them from both,    *)
(* and no measure was worse in most of these; with an odd number of them    *)
(* that is all it takes, so that no single trial decides; INCONCLUSIVE      *)
(* needs an item both labels timed out on and no regression.  No repetition *)
(* of several is answered by the cache, and no trial that has ended leaves  *)
(* the cache behind the module's seam.                                      *)
ToldWholly ==
  gate.phase = "told" /\ gate.authority = "PROMOTION GATE" =>
    /\ gate.asked.label = "candidate" /\ gate.asked.baseline = "production"
    /\ gate.asked.item = Unset /\ gate.asked.stage = "full"
    /\ gate.asked.reps >= PromotionReps
    /\ gate.around.override /\ ~gate.around.agent

Scored(side, i) == {r \in DOMAIN trials[side] : trials[side][r][i].kind = "scored"}
BothScored(i) == Scored("candidate", i) \cap Scored("baseline", i)
Half(side, i) == 2 * Cardinality(Scored(side, i)) >= Len(trials[side])
CameBack(i) ==
  \E side \in {"candidate", "baseline"}, r \in 1 .. gate.reps : trials[side][r][i].kind # "missing"
WorseIn(i, measure) ==
  {r \in BothScored(i) : Of(measure, trials["candidate"][r][i]) < Of(measure, trials["baseline"][r][i])}
MostlyWorse(i) ==
  \E measure \in Measures : 2 * Cardinality(WorseIn(i, measure)) > Cardinality(BothScored(i))
Comparable(i) == BothScored(i) # {} /\ Half("candidate", i) /\ Half("baseline", i)
TimedOutOnBoth(i) ==
  \A side \in {"candidate", "baseline"} : \E r \in 1 .. gate.reps : trials[side][r][i].kind = "timeout"
PassIsEarned ==
  gate.phase = "judged" =>
    LET back == {i \in Items : CameBack(i)}
        odd == \A i \in back : Comparable(i) /\ Cardinality(BothScored(i)) % 2 = 1
        passes == ruling.verdict = "PASS"
    IN /\ passes => back # {} /\ \A i \in back : Comparable(i) /\ ~MostlyWorse(i)
       /\ back # {} /\ odd /\ (\A i \in back : ~MostlyWorse(i)) => passes
       /\ ruling.verdict = "INCONCLUSIVE" =>
            /\ \E i \in back : ~Comparable(i) /\ TimedOutOnBoth(i)
            /\ \A i \in back : Comparable(i) => ~MostlyWorse(i)
PromotionIsEarned ==
  /\ ToldWholly /\ PassIsEarned /\ ~replayed
  /\ (\A i \in Items : tasks[i].pc # "running") => seam = "raw"
=============================================================================
