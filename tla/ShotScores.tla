----------------------------- MODULE ShotScores -----------------------------
(* scripts/score_shot_narration.py: a sweep over the frames of a run, each  *)
(* looked at blind, then with its sentences, then proposition by            *)
(* proposition; and the report it publishes, of which eval_service takes    *)
(* two metrics.  The judges answer what they like; a body is what the card  *)
(* layer draws, and scenery the rest.                                       *)
EXTENDS Integers, Sequences, FiniteSets, FiniteSetsExt

CONSTANTS
  Shots,       \* the run's shots in order: the sentences each shows
  Narration,   \* the sentences there are
  SweepsAsked, \* what the script may be asked: [frames, limit, reps, dsg]
  Grades,      \* the marks of 1 .. 5 a judge gives
  Graphs,      \* the decompositions the text model may answer with
  MostProps,   \* _MAX_PROPOSITIONS
  Whole,       \* a multiple of every number of propositions: a fraction is so many of it
  Found        \* what may lie where the report belongs

Proposition == [id : STRING, kind : STRING, body : STRING, parent : STRING]
ASSUME GradesKnown == Grades \subseteq 1 .. 5 /\ MostProps \in Nat /\ Whole \in Nat \ {0}
ASSUME SweepsKnown ==
  /\ Shots \in Seq(SUBSET Narration)
  /\ SweepsAsked \subseteq [frames : STRING, limit : Nat, reps : Nat \ {0}, dsg : BOOLEAN]
ASSUME AnswersKnown ==
  /\ Graphs \subseteq Seq(Proposition) /\ \A props \in Graphs : \A k \in DOMAIN props : props[k].id # "none"
  /\ \A found \in Found : found = [is |-> "torn"] \/
       found \in [is : {"report"}, scored : Int, unreadable : Int, sum : Int, of : Int]

VARIABLES
  sweep,   \* what was asked, and how far it is
  rows,    \* the rows of the shots that are done
  look,    \* the shot at hand: its samples, its propositions and their answers
  report   \* visual_score.json

sweepVars == <<sweep, rows, look, report>>

Kinds == {"place", "object", "state", "action", "attribute", "person"}
NoSweep == [phase |-> "idle"]
NoLook == [at |-> "none"]
Undecomposed == [is |-> "none", part |-> 0, failed |-> 0]
Torn == [is |-> "torn"]

NoReport == [is |-> "none"]
SweepInit == sweep = NoSweep /\ rows = <<>> /\ look = NoLook /\ report = NoReport

\* An earlier sweep, one that was killed, or a hand.
LeaveReport ==
  /\ sweep = NoSweep /\ report = NoReport /\ report' \in Found
  /\ UNCHANGED <<sweep, rows, look>>

StartSweep ==
  /\ sweep = NoSweep
  /\ \E asked \in SweepsAsked : sweep' = [phase |-> "shots", asked |-> asked]
  /\ UNCHANGED <<rows, look, report>>

-----------------------------------------------------------------------------
(* sample: repetitions of two tries each, of which the usable are counted.  *)
(* A look that failed twice is 0; readable is 2, and what is not is 1.      *)
Dead == 0
Dim == 1
Clear == 2
TryAgain(first, second) == IF first = Dead THEN second ELSE first
LooksOf(values) ==
  {TryAgain(first, second) : first \in values \cup {Dead}, second \in values \cup {Dead}}
Usable(samples) == {i \in DOMAIN samples : samples[i] # Dead}
EnoughOf(samples) == Cardinality(Usable(samples)) >= IF Len(samples) < 2 THEN Len(samples) ELSE 2
\* statistics.median_low of the usable: fewer than half are below it, and
\* half of them are not above it.
MedianLow(samples) ==
  LET usable == Usable(samples)
      n == Cardinality(usable)
  IN CHOOSE x \in {samples[i] : i \in usable} :
       /\ 2 * Cardinality({i \in usable : samples[i] < x}) < n
       /\ n <= 2 * Cardinality({i \in usable : samples[i] <= x})

-----------------------------------------------------------------------------
AtShot == Len(rows) + 1
MoreShots ==
  /\ AtShot <= Len(Shots)
  /\ sweep.asked.limit = 0 \/ Len(rows) < sweep.asked.limit
EndRow(row) == rows' = Append(rows, row) /\ look' = NoLook
Looking(at) == sweep.phase = "shots" /\ look.at = at

\* frame_for and shot_sentences: no frame, or no sentence, and no judgement.
OpenShot ==
  /\ Looking("none") /\ MoreShots
  /\ \/ EndRow([status |-> "skipped"])
     \/ /\ Shots[AtShot] # {}
        /\ look' = [at |-> "blind"] /\ UNCHANGED rows
  /\ UNCHANGED <<sweep, report>>

\* The frame alone, and then with its sentences.
Blind ==
  /\ Looking("blind")
  /\ \E samples \in [1 .. sweep.asked.reps -> LooksOf({Dim, Clear})] :
       IF EnoughOf(samples)
       THEN /\ look' = [at |-> "match", samples |-> samples, readable |-> MedianLow(samples)]
            /\ UNCHANGED rows
       ELSE EndRow([status |-> "error"])
  /\ UNCHANGED <<sweep, report>>

Match ==
  /\ Looking("match")
  /\ \E samples \in [1 .. sweep.asked.reps -> LooksOf(Grades)] :
       IF ~EnoughOf(samples) THEN EndRow([status |-> "error"])
       ELSE LET row == [status |-> "scored", readable |-> look.readable,
                        match |-> MedianLow(samples), dsg |-> Undecomposed]
            IN IF sweep.asked.dsg
               THEN look' = [at |-> "propositions", row |-> row] /\ UNCHANGED rows
               ELSE EndRow(row)
  /\ UNCHANGED <<sweep, report>>

-----------------------------------------------------------------------------
(* The decomposition.  _propositions_field; _is_person takes either label.  *)
IsPerson(p) == p.kind = "person" \/ p.body = "yes"
WellFormed(props) ==
  /\ Len(props) \in 1 .. MostProps
  /\ \A k \in DOMAIN props :
       /\ props[k].kind \in Kinds /\ props[k].body \in {"yes", "no"}
       /\ \A j \in 1 .. k - 1 : props[j].id # props[k].id
       /\ props[k].parent = "none" \/ \E j \in 1 .. k - 1 : props[j].id = props[k].parent

\* _propositions: asked again once.
Decompose ==
  /\ Looking("propositions")
  /\ \E first \in Graphs, second \in Graphs :
       LET props == IF WellFormed(first) THEN first ELSE second
       IN /\ WellFormed(first) => first = second
          /\ IF WellFormed(props)
             THEN look' = [at |-> "answers", row |-> look.row, props |-> props, answers |-> <<>>]
                  /\ UNCHANGED rows
             ELSE EndRow([look.row EXCEPT !.dsg.is = "error"])
  /\ UNCHANGED <<sweep, report>>

\* _answer_propositions: a body is never asked about and stands; what hangs
\* from a no is never asked either; a question that fails twice counts as no.
Supplied == {"person", "yes"}
Stands(id) ==
  \E j \in DOMAIN look.answers : look.props[j].id = id /\ look.answers[j] \in Supplied
Answer ==
  /\ Looking("answers") /\ Len(look.answers) < Len(look.props)
  /\ LET p == look.props[Len(look.answers) + 1]
     IN \E says \in IF IsPerson(p) THEN {"person"}
                    ELSE IF p.parent # "none" /\ ~Stands(p.parent) THEN {"invalid"}
                    ELSE {"yes", "no", "dead"} :
          look' = [look EXCEPT !.answers = Append(@, says)]
  /\ UNCHANGED <<sweep, rows, report>>

\* dsg_score: yes of what is no person, or no score at all.
Count(answers, says) == Cardinality({k \in DOMAIN answers : answers[k] \in says})
DsgScore(answers) ==
  LET asked == Count(answers, {"yes", "no", "dead", "invalid"})
  IN IF asked = 0 THEN [is |-> "unscorable", part |-> 0, failed |-> 0]
     ELSE [is |-> "scored", part |-> (Whole * Count(answers, {"yes"})) \div asked,
           failed |-> Count(answers, {"dead"})]
EndAnswers ==
  /\ Looking("answers") /\ Len(look.answers) = Len(look.props)
  /\ EndRow([look.row EXCEPT !.dsg = DsgScore(look.answers)])
  /\ UNCHANGED <<sweep, report>>

-----------------------------------------------------------------------------
(* summarize and summarize_dsg.                                             *)
ScoredRows == {k \in DOMAIN rows : rows[k].status = "scored"}
Parts(is) == {k \in ScoredRows : rows[k].dsg.is = is}
Summary ==
  [is |-> "report",
   scored |-> Cardinality(ScoredRows),
   unreadable |-> Cardinality({k \in ScoredRows : rows[k].readable = Dim}),
   sum |-> MapThenSumSet(LAMBDA k : rows[k].dsg.part, Parts("scored")),
   of |-> Cardinality(Parts("scored"))]

\* pair_by_sentence: a sentence has the verdict of the frames it plays over.
Covering(said) == {k \in DOMAIN rows : said \in Shots[k]}
SentenceStatus(said) ==
  IF Covering(said) = {} THEN "uncovered"
  ELSE IF Covering(said) \cap ScoredRows # {} THEN "scored" ELSE "unscored"

\* Why run publishes nothing, and when it exits with 1.
Unjudged == (DOMAIN rows \ ScoredRows) \cup Parts("error")
Withheld == sweep.asked.limit # 0 \/ sweep.asked.frames # "images" \/ Unjudged # {}
Swept == Looking("none") /\ ~MoreShots
Summarize ==
  /\ Swept
  /\ IF sweep.asked.dsg /\ ~Withheld
     THEN sweep' = [sweep EXCEPT !.phase = "publishing"] /\ report' = Torn
     ELSE sweep' = [sweep EXCEPT !.phase = "done"] /\ UNCHANGED report
  /\ UNCHANGED <<rows, look>>
Publish ==
  /\ sweep.phase = "publishing"
  /\ sweep' = [sweep EXCEPT !.phase = "published"] /\ report' = Summary
  /\ UNCHANGED <<rows, look>>
ExitCode == IF Unjudged # {} THEN 1 ELSE 0

SweepNext ==
  \/ LeaveReport \/ StartSweep \/ OpenShot \/ Blind \/ Match \/ Decompose \/ Answer \/ EndAnswers
  \/ Summarize \/ Publish

-----------------------------------------------------------------------------
(* eval_service: the report as evaluate_ab finds it; <<>> is no measurement. *)
LoadVisualScores == IF report.is = "report" THEN report ELSE NoReport
UnreadableRate(found) ==
  IF found.is = "report" /\ found.scored > 0 /\ found.unreadable \in 0 .. found.scored
  THEN <<found.unreadable, found.scored>> ELSE <<>>
MeanDsgScore(found) ==
  IF found.is = "report" /\ found.of > 0 /\ found.sum \in 0 .. found.of * Whole
  THEN <<found.sum, found.of * Whole>> ELSE <<>>

(* What a sweep says it saw (10.4, 13.2).  A frame is readable only if most *)
(* looks that answered say so.  A proposition counts when it was answered   *)
(* yes and so was all the scenery it hangs from, whoever is thought to      *)
(* stand there; none that must not be asked is asked.  Whatever lies at the *)
(* report's path is either no measurement or a fraction; a report that was  *)
(* published is of every shot and every sentence a shot shows, all of them  *)
(* judged, and a sweep that left one out never exits with 0.                *)
ReadableByMost ==
  look.at = "match" =>
    LET say(reading) == Count(look.samples, {reading})
    IN look.readable = Clear <=> say(Clear) > say(Dim)

\* The scenery a proposition hangs from: up to the first body.
ParentOf(k) == {j \in 1 .. k - 1 : look.props[j].id = look.props[k].parent}
Scenery == {k \in DOMAIN look.answers : ~IsPerson(look.props[k])}
FractionIsOfScenery ==
  look.at = "answers" =>
    LET rooted(k) == ParentOf(k) \cap Scenery = {}
        seen[k \in DOMAIN look.answers] ==
          look.answers[k] = "yes" /\ (rooted(k) \/ \E j \in ParentOf(k) : seen[j])
        score == DsgScore(look.answers)
    IN /\ Scenery = {} <=> score.is = "unscorable"
       /\ Scenery # {} =>
            score.part = (Whole * Cardinality({k \in Scenery : seen[k]})) \div Cardinality(Scenery)
       /\ \A k \in DOMAIN look.answers :
            look.answers[k] \in {"person", "invalid"}
              <=> k \notin Scenery \/ (~rooted(k) /\ \A j \in ParentOf(k) : ~seen[j])

IsFraction(metric) == metric = <<>> \/ (metric[2] > 0 /\ metric[1] \in 0 .. metric[2])
PublishedIsWhole ==
  sweep.phase = "published" =>
    /\ Len(rows) = Len(Shots) /\ ExitCode = 0
    /\ \A said \in Narration : SentenceStatus(said) # "unscored"
    /\ UnreadableRate(report) =
         IF Shots = <<>> THEN <<>>
         ELSE <<Cardinality({k \in DOMAIN Shots : rows[k].readable = Dim}), Len(Shots)>>
    /\ \A k \in DOMAIN Shots : rows[k].dsg.is \in {"scored", "unscorable"}
    /\ MeanDsgScore(report) = <<>> <=> \A k \in DOMAIN Shots : rows[k].dsg.is = "unscorable"
SweepIsHonest ==
  /\ ReadableByMost /\ FractionIsOfScenery /\ PublishedIsWhole
  /\ IsFraction(UnreadableRate(LoadVisualScores)) /\ IsFraction(MeanDsgScore(LoadVisualScores))
  /\ sweep.phase = "publishing" => UnreadableRate(LoadVisualScores) = <<>>
=============================================================================
