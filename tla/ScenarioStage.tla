--------------------------- MODULE ScenarioStage ---------------------------
(* The scenario node (pipeline/nodes/scenario.py, scenario_chain.py): an    *)
(* outline, a draft written and broken into shots scene by scene, a review *)
(* and a critic, at most one second pass over what they flag, and the text *)
(* normalised for speech.  Every answer of a language model may be cut     *)
(* short, fail to arrive, or break the contract of its stage; a scene's    *)
(* call is re-rolled once when cut and corrected once when broken.         *)
EXTENDS Integers, FiniteSets

CONSTANTS
  N,           \* scenes of the outline
  MaxMishaps,  \* bound: answers that are not sound
  Mishaps      \* which kinds of them

ASSUME Sizes == N \in Nat \ {0} /\ MaxMishaps \in Nat
ASSUME MishapsKnown ==
  Mishaps \subseteq {"cut", "down", "broken", "unquoted", "miscount", "archetype", "ledger", "length"}

VARIABLES
  stage,      \* the chain's step in hand, or how it ended
  pass,       \* pass_index
  scope,      \* retry_scope
  flagged,    \* the scenes the scoped repair is for
  calls,      \* the calls of the stage: one, or one per scene under a gather
  archetype,  \* whether research's choice was replaced by the fallback
  notes,      \* outline_grounding: an unquoted fact survived the correction
  draft,       \* each scene's narration, as the pass that wrote it
  made,      \* the narration each scene's shots were made for
  review, critic,   \* the reports on each scene
  spoken,     \* the narration after tts_normalize
  quality,    \* scenario_quality
  why,        \* the class of the error that ended the stage
  mishaps     \* answers so far that were not sound, for the bound

chainVars == <<stage, pass, scope, flagged, calls, archetype, notes, draft, made,
          review, critic, spoken, quality, why, mishaps>>
product == <<archetype, notes, draft, made, review, critic, spoken, quality>>
course == <<pass, scope, flagged>>

-----------------------------------------------------------------------------
Scenes == 1..N
Whole == 0                        \* the slot of a stage that is one call
Narration == 0..2                 \* the pass, 0 when there is none yet
Unwritten == 0

\* A report remembers what it was of.
Report == [text : Narration, shots : Narration, ok : BOOLEAN, noted : BOOLEAN, claim : BOOLEAN]
NoReport == [text |-> Unwritten, shots |-> Unwritten, ok |-> TRUE, noted |-> FALSE, claim |-> FALSE]

Call == [st : {"out", "in"},
         part : {"cast", "shots"},   \* of a scene's breakdown
         roll : 1..2,                \* reroll_on_truncation
         try : 1..2,                 \* _parse_with_retry
         judged : 0..1]              \* payloads the review's parser judged
Asked == [st |-> "out", part |-> "cast", roll |-> 1, try |-> 1, judged |-> 0]
AskEach(S) == [s \in S |-> Asked]

Gathers == {"writing", "breakdown", "review", "critic", "normalize"}
Single == {"research", "structure", "repair"}
Errors == {"truncated", "provider", "contract", "coverage", "retention", "evidence"}
NoQuality == [said |-> FALSE, negative |-> FALSE, warning |-> FALSE]

ChainInit ==
  /\ stage = "research" /\ pass = 1 /\ scope = "none" /\ flagged = {}
  /\ calls = AskEach({Whole})
  /\ archetype = "chosen" /\ notes = FALSE
  /\ draft = [s \in Scenes |-> Unwritten] /\ made = draft /\ spoken = [s \in Scenes |-> "nothing"]
  /\ review = [s \in Scenes |-> NoReport] /\ critic = review
  /\ quality = NoQuality /\ why = "none" /\ mishaps = 0

Goes(next, S) == stage' = next /\ calls' = AskEach(S) /\ why' = why

\* An exception in one call is the gather's, and the node reports it.  The
\* other calls go on, but nobody reads their answers.
Fails(error) ==
  /\ stage' = "failed" /\ why' = error /\ calls' = AskEach({})
  /\ UNCHANGED <<product, course>>

Mishap(kind) ==
  /\ kind \in Mishaps /\ mishaps < MaxMishaps
  /\ mishaps' = mishaps + 1
Sound == mishaps' = mishaps

-----------------------------------------------------------------------------
(* The calls: _call_stage_with_retry.                                       *)

IsOut(c) == c \in DOMAIN calls /\ calls[c].st = "out"
AllIn == \A c \in DOMAIN calls : calls[c].st = "in"
RetryRemains(c) == calls[c].try = 1

Stays == UNCHANGED <<stage, why, course, product>>

\* A parse that raises is fed back once.
Corrects(c, judged) ==
  /\ calls' = [calls EXCEPT ![c].try = 2, ![c].judged = judged]
  /\ Stays

ComesIn(c) == calls' = [calls EXCEPT ![c].st = "in"]

\* _full_rewrite: every scene again, with the feedback of the first pass.
FullRewrite(reason) ==
  /\ Goes("writing", Scenes)
  /\ pass' = 2 /\ scope' = reason /\ flagged' = {}
  /\ UNCHANGED product

Rerolled(c) == [calls EXCEPT ![c].roll = 2, ![c].try = 1]

\* finish_reason "length".  Only the scoped repair survives a second one.
Truncated(c) ==
  /\ IsOut(c) /\ Mishap("cut")
  /\ \/ /\ calls[c].roll = 1
        /\ calls' = Rerolled(c)
        /\ Stays
     \/ /\ calls[c].roll = 2 /\ stage = "repair"
        /\ FullRewrite("scene-repair-truncated-fallback")
     \/ /\ calls[c].roll = 2 /\ stage # "repair"
        /\ Fails("truncated")

\* The provider's errors are nobody's to retry.
ProviderFails(c) == IsOut(c) /\ Mishap("down") /\ Fails("provider")

\* What is not YAML even after the line-by-line repair, or lacks what the
\* stage must have.
Broken(c) ==
  /\ IsOut(c) /\ Mishap("broken")
  /\ IF RetryRemains(c) THEN Corrects(c, calls[c].judged) ELSE Fails("contract")

-----------------------------------------------------------------------------
(* Sound answers, stage by stage.                                           *)

\* research_step: an unknown archetype is corrected once and then replaced,
\* one the source does not support is replaced at once.
ResearchAnswers(c) ==
  /\ stage = "research" /\ IsOut(c)
  /\ \/ Sound /\ Goes("structure", {Whole}) /\ UNCHANGED archetype
     \/ Mishap("archetype") /\ Goes("structure", {Whole}) /\ archetype' = "fallback"
  /\ UNCHANGED <<course, notes, draft, made, review, critic, spoken, quality>>

ArchetypeUnknown(c) ==
  /\ stage = "research" /\ IsOut(c) /\ RetryRemains(c) /\ Mishap("archetype")
  /\ Corrects(c, 0)

\* structure_step.parse: an unquoted fact is worth a correction while one is
\* left, and a note at the gate when none is.
CorrectsEvidence(c) == RetryRemains(c)

OutlineAnswers(c) ==
  /\ stage = "structure" /\ IsOut(c)
  /\ \/ Sound /\ Goes("writing", Scenes) /\ UNCHANGED notes
     \/ Mishap("unquoted") /\ ~CorrectsEvidence(c) /\ Goes("writing", Scenes) /\ notes' = TRUE
  /\ UNCHANGED <<course, archetype, draft, made, review, critic, spoken, quality>>

OutlineUnquoted(c) ==
  /\ stage = "structure" /\ IsOut(c) /\ CorrectsEvidence(c) /\ Mishap("unquoted")
  /\ IF RetryRemains(c) THEN Corrects(c, 0) ELSE Fails("evidence")

\* _validate_retention_outline, after the await: never corrected.
LedgerBroken(c) ==
  /\ stage = "structure" /\ IsOut(c) /\ Mishap("ledger")
  /\ Fails("retention")

WriteAnswers(s) ==
  /\ stage = "writing" /\ IsOut(s) /\ Sound
  /\ draft' = [draft EXCEPT ![s] = pass]
  /\ ComesIn(s)
  /\ UNCHANGED <<stage, why, course, archetype, notes, made, review, critic, spoken, quality>>

Repaired(s) == s \in flagged

\* writing_scene_repair_step and the merge of its scenes by position.
RepairAnswers(c) ==
  /\ stage = "repair" /\ IsOut(c) /\ Sound
  /\ draft' = [s \in Scenes |-> IF Repaired(s) THEN pass ELSE draft[s]]
  /\ Goes("breakdown", flagged)
  /\ UNCHANGED <<course, archetype, notes, made, review, critic, spoken, quality>>

\* A set of scenes that is not the one asked for.
RepairMiscounts(c) ==
  /\ stage = "repair" /\ IsOut(c) /\ Mishap("miscount")
  /\ IF RetryRemains(c) THEN Corrects(c, 0) ELSE FullRewrite("scene-repair-coverage-fallback")

\* _breakdown_for: the cast of each sentence, then the shots that cover them.
CastAnswers(s) ==
  /\ stage = "breakdown" /\ IsOut(s) /\ calls[s].part = "cast" /\ Sound
  /\ calls' = [calls EXCEPT ![s] = [Asked EXCEPT !.part = "shots"]]
  /\ Stays

ShotsAnswer(s) ==
  /\ stage = "breakdown" /\ IsOut(s) /\ calls[s].part = "shots" /\ Sound
  /\ made' = [made EXCEPT ![s] = draft[s]]
  /\ ComesIn(s)
  /\ UNCHANGED <<stage, why, course, archetype, notes, draft, review, critic, spoken, quality>>

Says(s, ok, noted) ==
  [text |-> draft[s], shots |-> made[s], ok |-> ok, noted |-> noted, claim |-> FALSE]

\* review_step: a claim of a contradiction needs its quotes.  One with them
\* fails the scene and is an issue of it; one without is corrected at the
\* first payload the parser judged and dropped at a later one.
Strict(c) == calls[c].judged = 0

\* _apply_grounded_contradictions: the claim's consequences are forced.
\* Mutant: they are left to the model, which may forget them.
ClaimLeft(s, ok, noted) == [Says(s, ok, noted) EXCEPT !.claim = TRUE]
Claim(s, ok, noted) == [Says(s, FALSE, TRUE) EXCEPT !.claim = TRUE]

ReviewAnswers(s) ==
  /\ stage = "review" /\ IsOut(s)
  /\ \/ Sound /\ \E ok, noted \in BOOLEAN : review' = [review EXCEPT ![s] = Says(s, ok, noted)]
     \/ Sound /\ \E ok, noted \in BOOLEAN : review' = [review EXCEPT ![s] = Claim(s, ok, noted)]
     \/ /\ Mishap("unquoted") /\ ~Strict(s)
        /\ \E ok, noted \in BOOLEAN : review' = [review EXCEPT ![s] = Says(s, ok, noted)]
  /\ ComesIn(s)
  /\ UNCHANGED <<stage, why, course, archetype, notes, draft, made, critic, spoken, quality>>

ReviewUnquoted(s) ==
  /\ stage = "review" /\ IsOut(s) /\ Strict(s) /\ Mishap("unquoted")
  /\ IF RetryRemains(s) THEN Corrects(s, 1) ELSE Fails("evidence")

CriticAnswers(s) ==
  /\ stage = "critic" /\ IsOut(s) /\ Sound
  /\ \E ok, noted \in BOOLEAN : critic' = [critic EXCEPT ![s] = Says(s, ok, noted)]
  /\ ComesIn(s)
  /\ UNCHANGED <<stage, why, course, archetype, notes, draft, made, review, spoken, quality>>

\* tts_normalize_step: a text with another number of sentences is dropped.
SplitAlike(answer) == answer = "reworded"
NormalizeAnswers(s) ==
  /\ stage = "normalize" /\ IsOut(s)
  /\ \E answer \in {"reworded", "resplit"} :
       /\ IF answer = "resplit" THEN Mishap("length") ELSE Sound
       /\ spoken' = [spoken EXCEPT ![s] = IF SplitAlike(answer) THEN answer ELSE "original"]
  /\ ComesIn(s)
  /\ UNCHANGED <<stage, why, course, archetype, notes, draft, made, review, critic, quality>>

-----------------------------------------------------------------------------
(* The node between its awaits.                                             *)

Then(from, to, S) ==
  /\ stage = from /\ AllIn
  /\ Goes(to, S)
  /\ UNCHANGED <<course, product, mishaps>>

Written == Then("writing", "breakdown", Scenes)
BrokenDown == Then("breakdown", "review", Scenes)
Reviewed == Then("review", "critic", Scenes)

\* _retry_scope: the scenes with an issue or a note, the passing ones too.
Findings == {s \in Scenes : review[s].noted \/ critic[s].noted}
Negative == \E s \in Scenes : ~review[s].ok \/ ~critic[s].ok
Rejected == stage = "critic" /\ AllIn /\ pass = 1 /\ Negative

ScopedRepair ==
  /\ Rejected /\ Findings # {}
  /\ Goes("repair", {Whole})
  /\ pass' = 2 /\ scope' = "scene" /\ flagged' = Findings
  /\ UNCHANGED <<product, mishaps>>

FullFallback ==
  /\ Rejected /\ Findings = {}
  /\ FullRewrite("full-fallback")
  /\ UNCHANGED mishaps

\* _build_quality, before tts_normalize rewrites the text.
\* Mutant: the critic's word is left out.
VerdictOfReview ==
  LET negative == \E s \in Scenes : ~review[s].ok
  IN [said |-> TRUE, negative |-> negative, warning |-> pass = 2 /\ negative]
Verdict == [said |-> TRUE, negative |-> Negative, warning |-> pass = 2 /\ Negative]
Judged ==
  /\ stage = "critic" /\ AllIn /\ ~Rejected
  /\ Goes("normalize", Scenes)
  /\ quality' = Verdict
  /\ UNCHANGED <<course, archetype, notes, draft, made, review, critic, spoken, mishaps>>

\* build_scenes and the node's return.
BuildScenes ==
  /\ stage = "normalize" /\ AllIn
  /\ Goes("done", {})
  /\ UNCHANGED <<course, product, mishaps>>

\* So that a deadlock is a stage that stopped half-way.
Ended == stage \in {"done", "failed"} /\ UNCHANGED chainVars

Answers(c) ==
  \/ Truncated(c) \/ ProviderFails(c) \/ Broken(c)
  \/ ResearchAnswers(c) \/ ArchetypeUnknown(c)
  \/ OutlineAnswers(c) \/ OutlineUnquoted(c) \/ LedgerBroken(c)
  \/ WriteAnswers(c) \/ RepairAnswers(c) \/ RepairMiscounts(c)
  \/ CastAnswers(c) \/ ShotsAnswer(c)
  \/ ReviewAnswers(c) \/ ReviewUnquoted(c) \/ CriticAnswers(c) \/ NormalizeAnswers(c)

ChainNext ==
  \/ \E c \in DOMAIN calls : Answers(c)
  \/ Written \/ BrokenDown \/ Reviewed
  \/ ScopedRepair \/ FullFallback \/ Judged \/ BuildScenes
  \/ Ended

ChainSpec == ChainInit /\ [][ChainNext]_chainVars
-----------------------------------------------------------------------------

TypeOK ==
  /\ stage \in Gathers \cup Single \cup {"done", "failed"}
  /\ pass \in 1..2 /\ flagged \subseteq Scenes
  /\ scope \in {"none", "scene", "full-fallback", "scene-repair-truncated-fallback",
                "scene-repair-coverage-fallback"}
  /\ \E S \in SUBSET (Scenes \cup {Whole}) : calls \in [S -> Call]
  /\ archetype \in {"chosen", "fallback"} /\ notes \in BOOLEAN
  /\ {draft, made} \subseteq [Scenes -> Narration]
  /\ spoken \in [Scenes -> {"nothing", "original", "reworded", "resplit"}]
  /\ {review, critic} \subseteq [Scenes -> Report]
  /\ quality \in [said : BOOLEAN, negative : BOOLEAN, warning : BOOLEAN]
  /\ why \in Errors \cup {"none"} /\ mishaps \in 0..MaxMishaps

(* What is handed on fits together: every scene's shots were broken down   *)
(* from its final text, sentence for sentence with what will be spoken,    *)
(* whichever of the repair, the fallbacks and the normalisation ran.  And  *)
(* the verdict shown at the gate is on this text and these shots, all of   *)
(* them; it warns when the second pass is still negative, and after a      *)
(* first pass only a clean one is handed on.                               *)
ShotsFitTheSpeech ==
  \A s \in Scenes : /\ made[s] = draft[s] /\ draft[s] # Unwritten
                    /\ spoken[s] \in {"original", "reworded"}
VerdictIsOfTheFinalDraft ==
  /\ quality.said
  /\ \A s \in Scenes, report \in {review, critic} :
       report[s].text = draft[s] /\ report[s].shots = made[s]
  /\ quality.negative <=> Negative
  /\ quality.warning <=> pass = 2 /\ quality.negative
  /\ pass = 1 => ~quality.negative
HandedOnFits == stage = "done" => ShotsFitTheSpeech /\ VerdictIsOfTheFinalDraft

\* What the second pass owes.
ContradictionIsRepaired ==
  /\ pass = 1 /\ stage \in {"normalize", "done"} => \A s \in Scenes : ~review[s].claim
  /\ stage = "repair" => \A s \in Scenes : review[s].claim => s \in flagged
  /\ pass = 2 /\ stage \in {"review", "critic", "normalize", "done"} =>
       \A s \in IF scope = "scene" THEN flagged ELSE Scenes : draft[s] = 2
UnflaggedIsKept ==
  scope = "scene" /\ scope' = "scene" =>
    \A s \in Scenes \ flagged : draft'[s] = draft[s] /\ made'[s] = made[s]

\* How near its end the stage is.
Progress ==
  CASE stage = "research" -> 0 [] stage = "structure" -> 1
    [] stage = "writing" -> 5 * pass - 3 [] stage = "breakdown" -> 5 * pass - 2
    [] stage = "review" -> 5 * pass - 1 [] stage = "critic" -> 5 * pass
    [] stage = "repair" -> 6
    [] stage = "normalize" -> 11
    [] OTHER -> 12
Left(call) ==
  IF call.st = "in" THEN 0
  ELSE (IF call.part = "cast" THEN 5 ELSE 1) + 2 * (2 - call.roll) + (2 - call.try)

EveryAnswerCounts ==
  \/ Progress' > Progress
  \/ /\ Progress' = Progress
     /\ \E c \in DOMAIN calls :
          /\ Left(calls'[c]) < Left(calls[c])
          /\ calls' = [calls EXCEPT ![c] = calls'[c]]
OutlineSurvivesItsEvidence == (\A s \in Scenes : draft[s] = Unwritten) => why # "evidence"

(* A contradiction the review quoted from both sides sends its scene into   *)
(* the second pass, whatever else the model said of it, what is sent there  *)
(* is rewritten, and the scoped repair changes nothing of another scene.    *)
(* Every answer, sound or not, brings the stage nearer its end, for a call  *)
(* is asked at most four times and there is no third pass; and a model that *)
(* cannot quote its evidence does not fail the outline.                     *)
RewritingIsSound ==
  [][ContradictionIsRepaired' /\ UnflaggedIsKept /\ EveryAnswerCounts /\ OutlineSurvivesItsEvidence']_chainVars
=============================================================================
