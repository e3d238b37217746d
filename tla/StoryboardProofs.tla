--------------------------- MODULE StoryboardProofs ---------------------------
(***************************************************************************)
(* Theorems about Storyboard, for every number of scenes, every answer of  *)
(* the models the bound allows, and every outline and camera asked for.    *)
(***************************************************************************)
EXTENDS Storyboard, WellFoundedInduction, FiniteSetTheorems, TLAPS

-----------------------------------------------------------------------------
(* The chain of the scenario node.  Which calls are out is decided by the   *)
(* stage and the scope.                                                     *)

Scopes ==
  {"none", "scene", "full-fallback", "scene-repair-truncated-fallback",
   "scene-repair-coverage-fallback"}
Over == {"done", "failed"}
AskedOf ==
  IF stage \in Single THEN {Whole}
  ELSE IF stage \in Over THEN {}
  ELSE IF stage = "breakdown" /\ scope = "scene" THEN flagged ELSE Scenes

ChainShape ==
  /\ stage \in Gathers \cup Single \cup Over
  /\ pass \in 1..2 /\ scope \in Scopes /\ flagged \in SUBSET Scenes
  /\ calls \in [AskedOf -> Call]
  /\ draft \in [Scenes -> Narration] /\ made \in [Scenes -> Narration]
  /\ review \in [Scenes -> Report] /\ critic \in [Scenes -> Report]
  /\ spoken \in [Scenes -> {"nothing", "original", "reworded", "resplit"}]
  /\ quality \in [said : BOOLEAN, negative : BOOLEAN, warning : BOOLEAN]
  /\ why \in Errors \cup {"none"} /\ mishaps \in 0..MaxMishaps

\* A second pass has a reason, and only the scoped repair a selection.
CourseHolds ==
  /\ pass = 1 <=> scope = "none"
  /\ scope # "scene" => flagged = {}
  /\ stage \in {"research", "structure"} => pass = 1
  /\ stage = "repair" => scope = "scene"
  /\ stage = "writing" => scope # "scene"
  /\ stage # "failed" => why = "none"

Second == IF scope = "scene" THEN flagged ELSE Scenes
DraftsHold ==
  /\ stage = "writing" => \A s \in Scenes : calls[s].st = "in" => draft[s] = pass
  /\ stage = "breakdown" => \A s \in AskedOf : draft[s] = pass
  /\ stage \in {"repair", "breakdown", "review", "critic", "normalize", "done"} =>
       \A s \in Scenes : draft[s] # Unwritten
  /\ stage \in {"review", "critic", "normalize", "done"} /\ pass = 2 =>
       \A s \in Second : draft[s] = 2
  /\ why = "evidence" => \E s \in Scenes : draft[s] # Unwritten
ShotsHold ==
  /\ stage = "breakdown" =>
       \A s \in Scenes : (s \in AskedOf => calls[s].st = "in") => made[s] = draft[s]
  /\ stage \in {"repair", "review", "critic", "normalize", "done"} =>
       \A s \in Scenes : made[s] = draft[s]

\* A claim of a contradiction is a finding and a failure, and the scoped
\* repair is for every finding.
Of(report, s) == report[s].text = draft[s] /\ report[s].shots = made[s]
ReportsHold ==
  /\ \A s \in Scenes : review[s].claim => ~review[s].ok /\ review[s].noted
  /\ stage = "repair" => flagged = Findings
  /\ stage = "review" => \A s \in Scenes : calls[s].st = "in" => Of(review, s)
  /\ stage \in {"critic", "normalize", "done"} => \A s \in Scenes : Of(review, s)
  /\ stage = "critic" => \A s \in Scenes : calls[s].st = "in" => Of(critic, s)
  /\ stage \in {"normalize", "done"} => \A s \in Scenes : Of(critic, s)
VerdictHolds ==
  stage \in {"normalize", "done"} => quality = Verdict /\ (pass = 1 => ~Negative)
SpokenHolds ==
  /\ stage = "normalize" =>
       \A s \in Scenes : calls[s].st = "in" => spoken[s] \in {"original", "reworded"}
  /\ stage = "done" => \A s \in Scenes : spoken[s] \in {"original", "reworded"}

ChainInv ==
  ChainShape /\ CourseHolds /\ DraftsHold /\ ShotsHold /\ ReportsHold /\ VerdictHolds /\ SpokenHolds

\* What ChainInv says of the handed on, and of the second pass.
LEMMA ChainFits == ChainInv => HandedOnFits
  BY DEF ChainInv, ChainShape, DraftsHold, ShotsHold, ReportsHold, VerdictHolds, SpokenHolds, Of,
         HandedOnFits, ShotsFitTheSpeech, VerdictIsOfTheFinalDraft, Verdict
LEMMA ChainRepairs == ChainInv => ContradictionIsRepaired /\ OutlineSurvivesItsEvidence
<1> SUFFICES ASSUME ChainInv
             PROVE  ContradictionIsRepaired /\ OutlineSurvivesItsEvidence
  OBVIOUS
<1>1. pass = 1 /\ stage \in {"normalize", "done"} => \A s \in Scenes : ~review[s].claim
  BY DEF ChainInv, VerdictHolds, ReportsHold, Negative
<1>2. stage = "repair" => \A s \in Scenes : review[s].claim => s \in flagged
  BY DEF ChainInv, ReportsHold, Findings
<1>3. pass = 2 /\ stage \in {"review", "critic", "normalize", "done"} =>
        \A s \in IF scope = "scene" THEN flagged ELSE Scenes : draft[s] = 2
  BY DEF ChainInv, DraftsHold, Second
<1>4. OutlineSurvivesItsEvidence
  BY DEF ChainInv, DraftsHold, OutlineSurvivesItsEvidence
<1> QED  BY <1>1, <1>2, <1>3, <1>4 DEF ContradictionIsRepaired

-----------------------------------------------------------------------------
(* The ways a call may end.                                                 *)

LEMMA ChainStarts == ChainInit => ChainInv
<1> SUFFICES ASSUME ChainInit
             PROVE  ChainInv
  OBVIOUS
<1>0. N \in Nat \ {0} /\ MaxMishaps \in Nat
  BY Sizes
<1>1. ChainShape
  BY <1>0 DEF ChainInit, ChainShape, AskedOf, Single, Gathers, Over, Scopes, AskEach, Asked, Call,
              Report, NoReport, Narration, Unwritten, NoQuality, Errors, Whole
<1>2. CourseHolds /\ DraftsHold /\ ShotsHold /\ VerdictHolds /\ SpokenHolds
  BY DEF ChainInit, CourseHolds, DraftsHold, ShotsHold, VerdictHolds, SpokenHolds
<1>3. ReportsHold
  BY DEF ChainInit, ReportsHold, NoReport
<1> QED  BY <1>1, <1>2, <1>3 DEF ChainInv

LEMMA FailureKeeps ==
  ASSUME ChainInv, NEW error \in Errors, Fails(error), mishaps' \in 0..MaxMishaps,
         error = "evidence" => \E s \in Scenes : draft[s] # Unwritten
  PROVE  ChainInv'
<1>1. ChainShape'
  BY DEF ChainInv, ChainShape, Fails, AskedOf, AskEach, product, course, Gathers, Single, Over, Errors
<1>2. CourseHolds' /\ ShotsHold' /\ VerdictHolds' /\ SpokenHolds'
  BY DEF ChainInv, Fails, product, course, CourseHolds, ShotsHold, VerdictHolds, SpokenHolds
<1>3. DraftsHold'
  BY DEF ChainInv, Fails, product, course, DraftsHold
<1>4. ReportsHold'
  BY DEF ChainInv, Fails, product, course, ReportsHold
<1> QED  BY <1>1, <1>2, <1>3, <1>4 DEF ChainInv

\* A call that is asked again, or for its other half.
Again(c, call) ==
  /\ IsOut(c) /\ Stays
  /\ call \in Call /\ call.st = "out"
  /\ calls' = [calls EXCEPT ![c] = call]
LEMMA AgainKeeps ==
  ASSUME ChainInv, NEW c, NEW call, Again(c, call), mishaps' \in 0..MaxMishaps
  PROVE  ChainInv'
<1> USE DEF ChainInv, Again, IsOut, Stays, product, course
<1>1. \A s \in AskedOf : calls'[s].st = calls[s].st
  BY DEF ChainShape
<1>2. AskedOf' = AskedOf
  BY DEF AskedOf
<1>3. ChainShape'
  BY <1>2 DEF ChainShape
<1>4. CourseHolds' /\ VerdictHolds'
  BY DEF CourseHolds, VerdictHolds, Verdict, Negative
<1>5. stage \in Gathers => stage \notin Single \cup Over
  BY DEF Gathers, Single, Over
<1>6. stage \in Gathers \ {"breakdown"} => \A s \in Scenes : calls'[s].st = calls[s].st
  BY <1>1, <1>5 DEF AskedOf
<1>7. SpokenHolds'
  BY <1>6 DEF SpokenHolds, Gathers
<1>8. DraftsHold'
  BY <1>2, <1>6 DEF DraftsHold, Gathers, Second
<1>9. ShotsHold'
  BY <1>1, <1>2 DEF ShotsHold
<1>10. ReportsHold'
  BY <1>6 DEF ReportsHold, Of, Findings, Gathers
<1> QED  BY <1>3, <1>4, <1>7, <1>8, <1>9, <1>10

LEMMA RewriteKeeps ==
  ASSUME ChainInv, NEW reason \in Scopes \ {"none", "scene"}, FullRewrite(reason),
         stage # "failed", mishaps' \in 0..MaxMishaps
  PROVE  ChainInv'
<1> USE DEF ChainInv, FullRewrite, Goes, product
<1>1. AskedOf' = Scenes /\ calls' = [s \in Scenes |-> Asked]
  BY DEF AskedOf, AskEach, Single, Over
<1>2. Asked \in Call /\ Asked.st = "out"
  BY DEF Asked, Call
<1>3. ChainShape'
  BY <1>1, <1>2 DEF ChainShape, Gathers, Scopes
<1>4. CourseHolds' /\ VerdictHolds' /\ SpokenHolds' /\ ShotsHold'
  BY DEF CourseHolds, VerdictHolds, SpokenHolds, ShotsHold, Scopes
<1>5. DraftsHold'
  BY <1>1, <1>2 DEF DraftsHold, CourseHolds
<1>6. ReportsHold'
  BY DEF ReportsHold
<1> QED  BY <1>3, <1>4, <1>5, <1>6

-----------------------------------------------------------------------------
(* One lemma per answer.                                                    *)

LEMMA Counted ==
  ASSUME ChainInv
  PROVE  /\ Sound => mishaps' \in 0..MaxMishaps
         /\ \A kind : Mishap(kind) => mishaps' \in 0..MaxMishaps
  BY Sizes DEF ChainInv, ChainShape, Sound, Mishap

LEMMA CallRerolled ==
  ASSUME NEW old \in Call, NEW roll \in 1..2, NEW try \in 1..2
  PROVE  /\ [old EXCEPT !.roll = roll, !.try = try] \in Call
         /\ [old EXCEPT !.roll = roll, !.try = try].st = old.st
<1>1. [old EXCEPT !.roll = roll] \in Call /\ [old EXCEPT !.roll = roll].st = old.st
  BY DEF Call
<1>2. SUFFICES ASSUME NEW u \in Call, u = [old EXCEPT !.roll = roll], u.st = old.st
               PROVE  [u EXCEPT !.try = try] \in Call /\ [u EXCEPT !.try = try].st = u.st
  BY <1>1
<1> QED  BY DEF Call
LEMMA CallCorrected ==
  ASSUME NEW old \in Call, NEW try \in 1..2, NEW judged \in 0..1
  PROVE  /\ [old EXCEPT !.try = try, !.judged = judged] \in Call
         /\ [old EXCEPT !.try = try, !.judged = judged].st = old.st
<1>1. [old EXCEPT !.try = try] \in Call /\ [old EXCEPT !.try = try].st = old.st
  BY DEF Call
<1>2. SUFFICES ASSUME NEW u \in Call, u = [old EXCEPT !.try = try], u.st = old.st
               PROVE  [u EXCEPT !.judged = judged] \in Call /\ [u EXCEPT !.judged = judged].st = u.st
  BY <1>1
<1> QED  BY DEF Call
LEMMA CallFields ==
  ASSUME NEW call \in Call
  PROVE  /\ call.st \in {"out", "in"} /\ call.part \in {"cast", "shots"}
         /\ call.roll \in 1..2 /\ call.try \in 1..2 /\ call.judged \in 0..1
  BY DEF Call

\* The calls that are changed without an answer being taken.
LEMMA CorrectedIsAgain ==
  ASSUME ChainInv, NEW c \in DOMAIN calls, IsOut(c), NEW judged \in 0..1, Corrects(c, judged)
  PROVE  \E call : Again(c, call)
<1> DEFINE call == [calls[c] EXCEPT !.try = 2, !.judged = judged]
<1>1. calls[c] \in Call
  BY DEF ChainInv, ChainShape, IsOut
<1>2. call \in Call /\ call.st = "out"
  <2>1. 2 \in 1..2 /\ calls[c].st = "out"
    BY DEF IsOut
  <2>2. call \in Call /\ call.st = calls[c].st
    BY <1>1, <2>1, CallCorrected, Zenon
  <2> QED  BY <2>1, <2>2
<1>3. calls' = [calls EXCEPT ![c] = call]
  <2>1. calls' = [[calls EXCEPT ![c].try = 2] EXCEPT ![c].judged = judged]
    BY DEF Corrects
  <2>2. calls' = [x \in AskedOf |-> IF x = c THEN call ELSE calls[x]]
    BY <2>1 DEF ChainInv, ChainShape
  <2> QED  BY <2>2 DEF ChainInv, ChainShape
<1> QED  BY <1>2, <1>3 DEF Again, Corrects
LEMMA RerolledIsAgain ==
  ASSUME ChainInv, NEW c \in DOMAIN calls, IsOut(c), calls' = Rerolled(c), Stays
  PROVE  \E call : Again(c, call)
<1> DEFINE call == [calls[c] EXCEPT !.roll = 2, !.try = 1]
<1>1. calls[c] \in Call
  BY DEF ChainInv, ChainShape, IsOut
<1>2. call \in Call /\ call.st = "out"
  <2>1. 2 \in 1..2 /\ 1 \in 1..2 /\ calls[c].st = "out"
    BY DEF IsOut
  <2>2. call \in Call /\ call.st = calls[c].st
    BY <1>1, <2>1, CallRerolled, Zenon
  <2> QED  BY <2>1, <2>2
<1>3. calls' = [calls EXCEPT ![c] = call]
  <2>1. calls' = [[calls EXCEPT ![c].roll = 2] EXCEPT ![c].try = 1]
    BY DEF Rerolled
  <2>2. calls' = [x \in AskedOf |-> IF x = c THEN call ELSE calls[x]]
    BY <2>1 DEF ChainInv, ChainShape
  <2> QED  BY <2>2 DEF ChainInv, ChainShape
<1> QED  BY <1>2, <1>3 DEF Again
LEMMA CastIsAgain ==
  ASSUME ChainInv, NEW s, CastAnswers(s)
  PROVE  \E call : Again(s, call)
<1> DEFINE call == [Asked EXCEPT !.part = "shots"]
<1>1. call \in Call /\ call.st = "out"
  BY DEF Asked, Call
<1>2. calls' = [calls EXCEPT ![s] = call]
  BY DEF CastAnswers
<1> QED  BY <1>1, <1>2 DEF Again, CastAnswers

LEMMA NobodyAnswersTheEnd ==
  ASSUME ChainInv, NEW c \in DOMAIN calls
  PROVE  stage \notin Over
  BY DEF ChainInv, ChainShape, AskedOf, Over, Single

LEMMA UnsoundKeeps ==
  ASSUME ChainInv, NEW c \in DOMAIN calls,
         Truncated(c) \/ ProviderFails(c) \/ Broken(c) \/ ArchetypeUnknown(c)
           \/ OutlineUnquoted(c) \/ LedgerBroken(c) \/ RepairMiscounts(c) \/ ReviewUnquoted(c)
  PROVE  ChainInv'
<1>0. /\ {"truncated", "provider", "contract", "evidence", "retention"} \subseteq Errors
      /\ {"scene-repair-truncated-fallback", "scene-repair-coverage-fallback"} \subseteq Scopes \ {"none", "scene"}
      /\ stage \notin Over
  BY NobodyAnswersTheEnd DEF Errors, Scopes
<1>1. CASE Truncated(c)
  <2>1. IsOut(c) /\ mishaps' \in 0..MaxMishaps
    BY <1>1, Counted DEF Truncated
  <2>2. CASE calls' = Rerolled(c) /\ Stays
    BY <2>1, <2>2, RerolledIsAgain, AgainKeeps
  <2>3. CASE FullRewrite("scene-repair-truncated-fallback")
    BY <1>0, <2>1, <2>3, RewriteKeeps DEF Over
  <2>4. CASE Fails("truncated")
    BY <1>0, <2>1, <2>4, FailureKeeps
  <2> QED  BY <1>1, <2>2, <2>3, <2>4 DEF Truncated
<1>2. CASE ProviderFails(c)
  BY <1>0, <1>2, Counted, FailureKeeps DEF ProviderFails
<1>3. CASE Broken(c)
  <2>1. IsOut(c) /\ mishaps' \in 0..MaxMishaps
    BY <1>3, Counted DEF Broken
  <2>2. calls[c].judged \in 0..1
    BY CallFields DEF ChainInv, ChainShape
  <2>3. CASE Corrects(c, calls[c].judged)
    BY <2>1, <2>2, <2>3, CorrectedIsAgain, AgainKeeps
  <2>4. CASE Fails("contract")
    BY <1>0, <2>1, <2>4, FailureKeeps
  <2> QED  BY <1>3, <2>3, <2>4 DEF Broken
<1>4. CASE ArchetypeUnknown(c)
  BY <1>4, Counted, CorrectedIsAgain, AgainKeeps DEF ArchetypeUnknown
<1>5. CASE OutlineUnquoted(c)
  BY <1>5, Counted, CorrectedIsAgain, AgainKeeps DEF OutlineUnquoted, CorrectsEvidence
<1>6. CASE LedgerBroken(c)
  BY <1>0, <1>6, Counted, FailureKeeps DEF LedgerBroken
<1>7. CASE RepairMiscounts(c)
  <2>1. IsOut(c) /\ mishaps' \in 0..MaxMishaps
    BY <1>7, Counted DEF RepairMiscounts
  <2>3. CASE Corrects(c, 0)
    BY <2>1, <2>3, CorrectedIsAgain, AgainKeeps
  <2>4. CASE FullRewrite("scene-repair-coverage-fallback")
    BY <1>0, <2>1, <2>4, RewriteKeeps DEF Over
  <2> QED  BY <1>7, <2>3, <2>4 DEF RepairMiscounts
<1>8. CASE ReviewUnquoted(c)
  <2>1. IsOut(c) /\ mishaps' \in 0..MaxMishaps
    BY <1>8, Counted DEF ReviewUnquoted
  <2>3. CASE Corrects(c, 1)
    BY <2>1, <2>3, CorrectedIsAgain, AgainKeeps
  <2>4. CASE Fails("evidence")
    <3>1. c \in Scenes /\ draft[c] # Unwritten
      BY <1>8 DEF ReviewUnquoted, ChainInv, ChainShape, DraftsHold, AskedOf, Single, Over
    <3> QED  BY <1>0, <2>1, <2>4, <3>1, FailureKeeps
  <2> QED  BY <1>8, <2>3, <2>4 DEF ReviewUnquoted
<1> QED  BY <1>1, <1>2, <1>3, <1>4, <1>5, <1>6, <1>7, <1>8

\* The calls of a stage that begins.
LEMMA FreshCalls ==
  ASSUME NEW S
  PROVE  /\ AskEach(S) \in [S -> Call]
         /\ \A s \in S : AskEach(S)[s].st = "out"
  BY DEF AskEach, Asked, Call

\* An answer that is kept.
LEMMA AnswerComesIn ==
  ASSUME ChainInv, NEW c \in AskedOf, ComesIn(c)
  PROVE  /\ calls' \in [AskedOf -> Call]
         /\ \A o \in AskedOf : calls'[o].st = IF o = c THEN "in" ELSE calls[o].st
<1>1. calls[c] \in Call /\ calls \in [AskedOf -> Call]
  BY DEF ChainInv, ChainShape
<1>2. [calls[c] EXCEPT !.st = "in"] \in Call /\ [calls[c] EXCEPT !.st = "in"].st = "in"
  BY <1>1 DEF Call
<1>3. calls' = [calls EXCEPT ![c] = [calls[c] EXCEPT !.st = "in"]]
  BY DEF ComesIn
<1> QED  BY <1>1, <1>2, <1>3

LEMMA OpeningKeeps ==
  ASSUME ChainInv, NEW c, ResearchAnswers(c) \/ OutlineAnswers(c)
  PROVE  ChainInv'
<1>1. mishaps' \in 0..MaxMishaps
  BY Counted DEF ResearchAnswers, OutlineAnswers
<1>2. /\ stage \in {"research", "structure"} /\ pass = 1 /\ pass' = 1 /\ scope' = scope /\ why' = why
      /\ flagged' = flagged /\ UNCHANGED <<draft, made, review, critic, spoken, quality>>
  BY DEF ResearchAnswers, OutlineAnswers, Goes, ChainInv, CourseHolds, course
<1>3. \/ stage' = "structure" /\ calls' = AskEach({Whole})
      \/ stage' = "writing" /\ calls' = AskEach(Scenes)
  BY DEF ResearchAnswers, OutlineAnswers, Goes
<1>4. AskedOf' = IF stage' = "structure" THEN {Whole} ELSE Scenes
  BY <1>3 DEF AskedOf, Single, Over
<1>5. calls' \in [AskedOf' -> Call]
  BY <1>3, <1>4, FreshCalls
<1>6. ChainShape'
  BY <1>1, <1>2, <1>3, <1>5 DEF ChainInv, ChainShape, Gathers, Single
<1>7. CourseHolds'
  BY <1>2, <1>3 DEF ChainInv, CourseHolds
<1>8. stage' = "writing" => \A s \in Scenes : calls'[s].st = "out"
  BY <1>3, FreshCalls
<1>9. DraftsHold'
  BY <1>2, <1>3, <1>8 DEF ChainInv, DraftsHold
<1>10. ReportsHold'
  BY <1>2, <1>3 DEF ChainInv, ReportsHold
<1>11. ShotsHold' /\ VerdictHolds' /\ SpokenHolds'
  BY <1>2, <1>3 DEF ShotsHold, VerdictHolds, SpokenHolds
<1> QED  BY <1>6, <1>7, <1>9, <1>10, <1>11 DEF ChainInv

LEMMA WriteKeeps ==
  ASSUME ChainInv, NEW s, WriteAnswers(s)
  PROVE  ChainInv'
<1> USE DEF ChainInv, WriteAnswers, course, ComesIn
<1>1. mishaps' \in 0..MaxMishaps
  BY Counted
<1>2. AskedOf = Scenes /\ AskedOf' = Scenes /\ s \in Scenes
  BY DEF AskedOf, Single, Over, IsOut, ChainShape
<1>3. calls' \in [Scenes -> Call] /\ \A o \in Scenes : calls'[o].st = "in" => o = s \/ calls[o].st = "in"
  BY <1>2, AnswerComesIn DEF IsOut
<1>4. draft' \in [Scenes -> Narration]
  <2>1. pass \in Narration
    BY DEF ChainShape, Narration
  <2> QED  BY <2>1 DEF ChainShape
<1>5. ChainShape'
  BY <1>1, <1>2, <1>3, <1>4 DEF ChainShape
<1>6. \A o \in Scenes : calls'[o].st = "in" => draft'[o] = pass
  BY <1>2, <1>3 DEF DraftsHold, ChainShape
<1>7. DraftsHold'
  BY <1>6 DEF DraftsHold, CourseHolds
<1>8. CourseHolds' /\ ShotsHold' /\ VerdictHolds' /\ SpokenHolds' /\ ReportsHold'
  BY DEF CourseHolds, ShotsHold, VerdictHolds, SpokenHolds, ReportsHold
<1> QED  BY <1>5, <1>7, <1>8

LEMMA RepairKeeps ==
  ASSUME ChainInv, NEW c, RepairAnswers(c)
  PROVE  ChainInv'
<1> USE DEF ChainInv, RepairAnswers, course, Goes
<1>1. mishaps' \in 0..MaxMishaps
  BY Counted
<1>2. scope = "scene" /\ pass = 2
  BY DEF CourseHolds, ChainShape
<1>3. AskedOf' = flagged
  BY <1>2 DEF AskedOf, Single, Over
<1>4. draft' \in [Scenes -> Narration]
  BY <1>2 DEF ChainShape, Narration
<1>5. calls' \in [flagged -> Call] /\ \A s \in flagged : calls'[s].st = "out"
  BY FreshCalls
<1>6. ChainShape'
  BY <1>1, <1>3, <1>4, <1>5 DEF ChainShape, Gathers
<1>7. \A s \in Scenes : draft'[s] = IF s \in flagged THEN 2 ELSE draft[s]
  BY <1>2 DEF Repaired
<1>8. flagged \subseteq Scenes /\ \A s \in Scenes : draft[s] # Unwritten /\ made[s] = draft[s]
  BY DEF ChainShape, DraftsHold, ShotsHold
<1>9. DraftsHold'
  BY <1>2, <1>3, <1>7, <1>8 DEF DraftsHold, CourseHolds, Unwritten
<1>10. ShotsHold'
  BY <1>3, <1>5, <1>7, <1>8 DEF ShotsHold
<1>11. CourseHolds' /\ VerdictHolds' /\ SpokenHolds' /\ ReportsHold'
  BY <1>2 DEF CourseHolds, VerdictHolds, SpokenHolds, ReportsHold
<1> QED  BY <1>6, <1>9, <1>10, <1>11

LEMMA ShotsKeep ==
  ASSUME ChainInv, NEW s, ShotsAnswer(s)
  PROVE  ChainInv'
<1> USE DEF ChainInv, ShotsAnswer, course, ComesIn
<1>1. mishaps' \in 0..MaxMishaps
  BY Counted
<1>2. AskedOf' = AskedOf /\ s \in AskedOf /\ AskedOf \subseteq Scenes
  BY DEF AskedOf, Single, Over, IsOut, ChainShape
<1>3. calls' \in [AskedOf -> Call] /\ \A o \in AskedOf : calls'[o].st = "in" => o = s \/ calls[o].st = "in"
  BY <1>2, AnswerComesIn
<1>4. made' \in [Scenes -> Narration]
  BY <1>2 DEF ChainShape
<1>5. ChainShape'
  BY <1>1, <1>2, <1>3, <1>4 DEF ChainShape
<1>6. ShotsHold'
  BY <1>2, <1>3 DEF ShotsHold, ChainShape
<1>7. DraftsHold'
  BY <1>2 DEF DraftsHold
<1>8. CourseHolds' /\ VerdictHolds' /\ SpokenHolds' /\ ReportsHold'
  BY DEF CourseHolds, VerdictHolds, SpokenHolds, ReportsHold
<1> QED  BY <1>5, <1>6, <1>7, <1>8

LEMMA SaysIsReport ==
  ASSUME ChainInv, NEW s \in Scenes, NEW ok \in BOOLEAN, NEW noted \in BOOLEAN
  PROVE  /\ Says(s, ok, noted) \in Report /\ Claim(s, ok, noted) \in Report
         /\ Says(s, ok, noted).text = draft[s] /\ Says(s, ok, noted).shots = made[s]
         /\ Claim(s, ok, noted).text = draft[s] /\ Claim(s, ok, noted).shots = made[s]
         /\ ~Says(s, ok, noted).claim
         /\ ~Claim(s, ok, noted).ok /\ Claim(s, ok, noted).noted
<1>1. draft[s] \in Narration /\ made[s] \in Narration
  BY DEF ChainInv, ChainShape
<1> QED  BY <1>1 DEF Says, Claim, Report

LEMMA ReviewKeeps ==
  ASSUME ChainInv, NEW s, ReviewAnswers(s)
  PROVE  ChainInv'
<1>1. /\ stage = "review" /\ IsOut(s) /\ ComesIn(s)
      /\ UNCHANGED <<stage, why, pass, scope, flagged, archetype, notes, draft, made, critic, spoken, quality>>
  BY DEF ReviewAnswers, course
<1>2. mishaps' \in 0..MaxMishaps
  BY Counted DEF ReviewAnswers
<1>3. AskedOf = Scenes /\ AskedOf' = Scenes /\ s \in Scenes
  BY <1>1 DEF AskedOf, Single, Over, IsOut, ChainInv, ChainShape
<1>4. /\ calls' \in [Scenes -> Call]
      /\ \A o \in Scenes : calls'[o].st = "in" => o = s \/ calls[o].st = "in"
  BY <1>1, <1>3, AnswerComesIn
<1>5. PICK report \in Report : /\ review' = [review EXCEPT ![s] = report]
                               /\ report.text = draft[s] /\ report.shots = made[s]
                               /\ report.claim => ~report.ok /\ report.noted
  <2>1. PICK ok \in BOOLEAN, noted \in BOOLEAN :
          review' = [review EXCEPT ![s] = Says(s, ok, noted)] \/ review' = [review EXCEPT ![s] = Claim(s, ok, noted)]
    BY DEF ReviewAnswers
  <2>2. CASE review' = [review EXCEPT ![s] = Says(s, ok, noted)]
    <3>1. SUFFICES ASSUME NEW report, report = Says(s, ok, noted)
                   PROVE  report \in Report /\ report.text = draft[s] /\ report.shots = made[s] /\ ~report.claim
      BY <2>2
    <3> QED  BY <1>3, <3>1, SaysIsReport
  <2>3. CASE review' = [review EXCEPT ![s] = Claim(s, ok, noted)]
    <3>1. SUFFICES ASSUME NEW report, report = Claim(s, ok, noted)
                   PROVE  /\ report \in Report /\ report.text = draft[s] /\ report.shots = made[s]
                          /\ ~report.ok /\ report.noted
      BY <2>3
    <3> QED  BY <1>3, <3>1, SaysIsReport
  <2> QED  BY <2>1, <2>2, <2>3
<1>6. review' \in [Scenes -> Report] /\ \A o \in Scenes : review'[o] = IF o = s THEN report ELSE review[o]
  <2>1. review' = [review EXCEPT ![s] = report] /\ review \in [Scenes -> Report]
    BY <1>5 DEF ChainInv, ChainShape
  <2> QED  BY <1>3, <2>1
<1>7. ChainShape'
  BY <1>1, <1>2, <1>3, <1>4, <1>6 DEF ChainInv, ChainShape
<1>8. ReportsHold'
  <2>1. \A o \in Scenes : review'[o].claim => ~review'[o].ok /\ review'[o].noted
    BY <1>5, <1>6 DEF ChainInv, ReportsHold
  <2>2. \A o \in Scenes : calls'[o].st = "in" => Of(review, o)'
    BY <1>1, <1>4, <1>5, <1>6 DEF ChainInv, ReportsHold, Of
  <2> QED  BY <1>1, <2>1, <2>2 DEF ReportsHold
<1>9. CourseHolds' /\ DraftsHold' /\ ShotsHold' /\ VerdictHolds' /\ SpokenHolds'
  BY <1>1 DEF ChainInv, CourseHolds, DraftsHold, ShotsHold, VerdictHolds, SpokenHolds, Second
<1> QED  BY <1>7, <1>8, <1>9 DEF ChainInv

LEMMA CriticKeeps ==
  ASSUME ChainInv, NEW s, CriticAnswers(s)
  PROVE  ChainInv'
<1>1. /\ stage = "critic" /\ IsOut(s) /\ ComesIn(s)
      /\ UNCHANGED <<stage, why, pass, scope, flagged, archetype, notes, draft, made, review, spoken, quality>>
  BY DEF CriticAnswers, course
<1>2. mishaps' \in 0..MaxMishaps
  BY Counted DEF CriticAnswers
<1>3. AskedOf = Scenes /\ AskedOf' = Scenes /\ s \in Scenes
  BY <1>1 DEF AskedOf, Single, Over, IsOut, ChainInv, ChainShape
<1>4. /\ calls' \in [Scenes -> Call]
      /\ \A o \in Scenes : calls'[o].st = "in" => o = s \/ calls[o].st = "in"
  BY <1>1, <1>3, AnswerComesIn
<1>5. PICK report \in Report : /\ critic' = [critic EXCEPT ![s] = report]
                               /\ report.text = draft[s] /\ report.shots = made[s]
  <2>1. PICK ok \in BOOLEAN, noted \in BOOLEAN : critic' = [critic EXCEPT ![s] = Says(s, ok, noted)]
    BY DEF CriticAnswers
  <2> QED  BY <1>3, <2>1, SaysIsReport
<1>6. critic' \in [Scenes -> Report] /\ \A o \in Scenes : critic'[o] = IF o = s THEN report ELSE critic[o]
  BY <1>3, <1>5 DEF ChainInv, ChainShape
<1>7. ChainShape'
  BY <1>1, <1>2, <1>3, <1>4, <1>6 DEF ChainInv, ChainShape
<1>8. ReportsHold'
  BY <1>1, <1>4, <1>5, <1>6 DEF ChainInv, ReportsHold, Of
<1>9. CourseHolds' /\ DraftsHold' /\ ShotsHold' /\ VerdictHolds' /\ SpokenHolds'
  BY <1>1 DEF ChainInv, CourseHolds, DraftsHold, ShotsHold, VerdictHolds, SpokenHolds, Second
<1> QED  BY <1>7, <1>8, <1>9 DEF ChainInv

LEMMA NormalizeKeeps ==
  ASSUME ChainInv, NEW s, NormalizeAnswers(s)
  PROVE  ChainInv'
<1>1. /\ stage = "normalize" /\ IsOut(s) /\ ComesIn(s)
      /\ UNCHANGED <<stage, why, pass, scope, flagged, archetype, notes, draft, made, review, critic, quality>>
  BY DEF NormalizeAnswers, course
<1>2. mishaps' \in 0..MaxMishaps
  BY Counted DEF NormalizeAnswers
<1>3. AskedOf = Scenes /\ AskedOf' = Scenes /\ s \in Scenes
  BY <1>1 DEF AskedOf, Single, Over, IsOut, ChainInv, ChainShape
<1>4. /\ calls' \in [Scenes -> Call]
      /\ \A o \in Scenes : calls'[o].st = "in" => o = s \/ calls[o].st = "in"
  BY <1>1, <1>3, AnswerComesIn
<1>5. PICK said \in {"original", "reworded"} : spoken' = [spoken EXCEPT ![s] = said]
  BY DEF NormalizeAnswers, SplitAlike
<1>6. spoken' \in [Scenes -> {"nothing", "original", "reworded", "resplit"}]
      /\ \A o \in Scenes : spoken'[o] = IF o = s THEN said ELSE spoken[o]
  BY <1>3, <1>5 DEF ChainInv, ChainShape
<1>7. ChainShape'
  BY <1>1, <1>2, <1>3, <1>4, <1>6 DEF ChainInv, ChainShape
<1>8. SpokenHolds'
  BY <1>1, <1>4, <1>6 DEF ChainInv, SpokenHolds
<1>9. CourseHolds' /\ DraftsHold' /\ ShotsHold' /\ ReportsHold'
  BY <1>1 DEF ChainInv, CourseHolds, DraftsHold, ShotsHold, ReportsHold, Second, Of
<1>10. VerdictHolds'
  BY <1>1 DEF ChainInv, VerdictHolds, Verdict, Negative
<1> QED  BY <1>7, <1>8, <1>9, <1>10 DEF ChainInv

-----------------------------------------------------------------------------
(* The node between its awaits.                                             *)

LEMMA AllInMeans ==
  ASSUME ChainInv, AllIn
  PROVE  \A s \in AskedOf : calls[s].st = "in"
  BY DEF ChainInv, ChainShape, AllIn

LEMMA NodeKeeps ==
  ASSUME ChainInv,
         Written \/ BrokenDown \/ Reviewed \/ ScopedRepair \/ FullFallback \/ Judged \/ BuildScenes
  PROVE  ChainInv'
<1>0. mishaps' = mishaps /\ AllIn
  BY DEF Written, BrokenDown, Reviewed, ScopedRepair, FullFallback, Judged, BuildScenes, Then, Rejected
<1>1. CASE Written
  <2>1. /\ stage = "writing" /\ stage' = "breakdown" /\ calls' = AskEach(Scenes)
        /\ UNCHANGED <<why, pass, scope, flagged, archetype, notes, draft, made, review, critic, spoken, quality, mishaps>>
    BY <1>1 DEF Written, Then, Goes, course, product
  <2>2. AskedOf = Scenes /\ AskedOf' = Scenes /\ scope # "scene"
    BY <2>1 DEF AskedOf, Single, Over, ChainInv, CourseHolds
  <2>3. calls' \in [Scenes -> Call] /\ \A s \in Scenes : calls'[s].st = "out"
    BY <2>1, FreshCalls
  <2>4. ChainShape'
    BY <2>1, <2>2, <2>3 DEF ChainInv, ChainShape, Gathers
  <2>5. \A s \in Scenes : draft[s] = pass /\ draft[s] # Unwritten
    BY <1>0, <2>1, <2>2, AllInMeans DEF ChainInv, ChainShape, DraftsHold, Unwritten
  <2>6. CourseHolds' /\ DraftsHold' /\ VerdictHolds' /\ SpokenHolds' /\ ReportsHold'
    BY <2>1, <2>2, <2>5 DEF ChainInv, CourseHolds, DraftsHold, VerdictHolds, SpokenHolds, ReportsHold
  <2>7. ShotsHold'
    BY <2>1, <2>2, <2>3 DEF ChainInv, ShotsHold
  <2> QED  BY <2>4, <2>6, <2>7 DEF ChainInv
<1>2. CASE BrokenDown
  <2>1. /\ stage = "breakdown" /\ stage' = "review" /\ calls' = AskEach(Scenes)
        /\ UNCHANGED <<why, pass, scope, flagged, archetype, notes, draft, made, review, critic, spoken, quality, mishaps>>
    BY <1>2 DEF BrokenDown, Then, Goes, course, product
  <2>2. AskedOf = Second /\ AskedOf' = Scenes
    BY <2>1 DEF AskedOf, Single, Over, Second
  <2>3. calls' \in [Scenes -> Call] /\ \A s \in Scenes : calls'[s].st = "out"
    BY <2>1, FreshCalls
  <2>4. ChainShape'
    BY <2>1, <2>2, <2>3 DEF ChainInv, ChainShape, Gathers
  <2>5. DraftsHold'
    BY <2>1, <2>2 DEF ChainInv, DraftsHold, CourseHolds, Second
  <2>6. ShotsHold'
    BY <1>0, <2>1, AllInMeans DEF ChainInv, ShotsHold
  <2>7. ReportsHold'
    BY <2>1, <2>3 DEF ChainInv, ReportsHold
  <2>8. CourseHolds' /\ VerdictHolds' /\ SpokenHolds'
    BY <2>1 DEF ChainInv, CourseHolds, VerdictHolds, SpokenHolds
  <2> QED  BY <2>4, <2>5, <2>6, <2>7, <2>8 DEF ChainInv
<1>3. CASE Reviewed
  <2>1. /\ stage = "review" /\ stage' = "critic" /\ calls' = AskEach(Scenes)
        /\ UNCHANGED <<why, pass, scope, flagged, archetype, notes, draft, made, review, critic, spoken, quality, mishaps>>
    BY <1>3 DEF Reviewed, Then, Goes, course, product
  <2>2. AskedOf = Scenes /\ AskedOf' = Scenes
    BY <2>1 DEF AskedOf, Single, Over
  <2>3. calls' \in [Scenes -> Call] /\ \A s \in Scenes : calls'[s].st = "out"
    BY <2>1, FreshCalls
  <2>4. ChainShape'
    BY <2>1, <2>2, <2>3 DEF ChainInv, ChainShape, Gathers
  <2>5. DraftsHold' /\ ShotsHold'
    BY <2>1 DEF ChainInv, DraftsHold, ShotsHold, CourseHolds, Second
  <2>6. ReportsHold'
    BY <1>0, <2>1, <2>2, <2>3, AllInMeans DEF ChainInv, ReportsHold, Of
  <2>7. CourseHolds' /\ VerdictHolds' /\ SpokenHolds'
    BY <2>1 DEF ChainInv, CourseHolds, VerdictHolds, SpokenHolds
  <2> QED  BY <2>4, <2>5, <2>6, <2>7 DEF ChainInv
<1>4. CASE ScopedRepair
  <2>1. /\ stage = "critic" /\ stage' = "repair" /\ calls' = AskEach({Whole}) /\ why' = why
        /\ pass' = 2 /\ scope' = "scene" /\ flagged' = Findings
        /\ UNCHANGED <<archetype, notes, draft, made, review, critic, spoken, quality, mishaps>>
    BY <1>4 DEF ScopedRepair, Rejected, Goes, product
  <2>2. AskedOf' = {Whole}
    BY <2>1 DEF AskedOf, Single
  <2>3. calls' \in [{Whole} -> Call]
    BY <2>1, FreshCalls
  <2>4. Findings \in SUBSET Scenes /\ Findings' = Findings
    BY <2>1 DEF Findings
  <2>5. ChainShape'
    BY <2>1, <2>2, <2>3, <2>4 DEF ChainInv, ChainShape, Single, Scopes
  <2>6. DraftsHold' /\ ShotsHold'
    BY <2>1 DEF ChainInv, DraftsHold, ShotsHold, CourseHolds
  <2>7. ReportsHold'
    BY <2>1, <2>4 DEF ChainInv, ReportsHold
  <2>8. CourseHolds' /\ VerdictHolds' /\ SpokenHolds'
    BY <2>1 DEF ChainInv, CourseHolds, VerdictHolds, SpokenHolds
  <2> QED  BY <2>5, <2>6, <2>7, <2>8 DEF ChainInv
<1>5. CASE FullFallback
  <2>1. "full-fallback" \in Scopes \ {"none", "scene"} /\ stage # "failed" /\ mishaps' \in 0..MaxMishaps
    BY <1>0, <1>5 DEF Scopes, FullFallback, Rejected, ChainInv, ChainShape
  <2> QED  BY <1>5, <2>1, RewriteKeeps DEF FullFallback
<1>6. CASE Judged
  <2>1. /\ stage = "critic" /\ stage' = "normalize" /\ calls' = AskEach(Scenes) /\ ~Rejected
        /\ quality' = Verdict
        /\ UNCHANGED <<why, pass, scope, flagged, archetype, notes, draft, made, review, critic, spoken, mishaps>>
    BY <1>6 DEF Judged, Goes, course
  <2>2. AskedOf = Scenes /\ AskedOf' = Scenes
    BY <2>1 DEF AskedOf, Single, Over
  <2>3. calls' \in [Scenes -> Call] /\ \A s \in Scenes : calls'[s].st = "out"
    BY <2>1, FreshCalls
  <2>4. Negative \in BOOLEAN /\ Verdict' = Verdict /\ Negative' = Negative
        /\ Verdict \in [said : BOOLEAN, negative : BOOLEAN, warning : BOOLEAN]
    BY <2>1 DEF Negative, Verdict
  <2>5. ChainShape'
    BY <2>1, <2>2, <2>3, <2>4 DEF ChainInv, ChainShape, Gathers
  <2>6. VerdictHolds'
    BY <1>0, <2>1, <2>4 DEF VerdictHolds, Rejected
  <2>7. DraftsHold' /\ ShotsHold'
    BY <2>1 DEF ChainInv, DraftsHold, ShotsHold, CourseHolds, Second
  <2>8. ReportsHold'
    BY <1>0, <2>1, <2>2, AllInMeans DEF ChainInv, ReportsHold, Of
  <2>9. CourseHolds' /\ SpokenHolds'
    BY <2>1, <2>3 DEF ChainInv, CourseHolds, SpokenHolds
  <2> QED  BY <2>5, <2>6, <2>7, <2>8, <2>9 DEF ChainInv
<1>7. CASE BuildScenes
  <2>1. /\ stage = "normalize" /\ stage' = "done" /\ calls' = AskEach({})
        /\ UNCHANGED <<why, pass, scope, flagged, archetype, notes, draft, made, review, critic, spoken, quality, mishaps>>
    BY <1>7 DEF BuildScenes, Goes, course, product
  <2>2. AskedOf = Scenes /\ AskedOf' = {}
    BY <2>1 DEF AskedOf, Single, Over
  <2>3. calls' \in [{} -> Call]
    BY <2>1, FreshCalls
  <2>4. ChainShape'
    BY <2>1, <2>2, <2>3 DEF ChainInv, ChainShape, Over
  <2>5. SpokenHolds'
    BY <1>0, <2>1, <2>2, AllInMeans DEF ChainInv, SpokenHolds
  <2>6. DraftsHold' /\ ShotsHold'
    BY <2>1 DEF ChainInv, DraftsHold, ShotsHold, CourseHolds, Second
  <2>7. ReportsHold'
    BY <2>1 DEF ChainInv, ReportsHold, Of
  <2>8. CourseHolds' /\ VerdictHolds'
    BY <2>1 DEF ChainInv, CourseHolds, VerdictHolds, Verdict, Negative
  <2> QED  BY <2>4, <2>5, <2>6, <2>7, <2>8 DEF ChainInv
<1> QED  BY <1>1, <1>2, <1>3, <1>4, <1>5, <1>6, <1>7

-----------------------------------------------------------------------------
LEMMA AnswerKeeps ==
  ASSUME ChainInv, NEW c \in DOMAIN calls, Answers(c)
  PROVE  ChainInv'
<1>1. CASE CastAnswers(c)
  BY <1>1, Counted, CastIsAgain, AgainKeeps DEF CastAnswers
<1> QED
  BY <1>1, UnsoundKeeps, OpeningKeeps, WriteKeeps, RepairKeeps, ShotsKeep, ReviewKeeps, CriticKeeps,
     NormalizeKeeps DEF Answers

LEMMA StillKeeps ==
  ASSUME ChainInv, UNCHANGED chainVars
  PROVE  ChainInv'
<1> USE DEF ChainInv, chainVars
<1>1. AskedOf' = AskedOf
  BY DEF AskedOf
<1>2. ChainShape' /\ CourseHolds'
  BY <1>1 DEF ChainShape, CourseHolds
<1>3. DraftsHold' /\ ShotsHold'
  BY <1>1 DEF DraftsHold, ShotsHold, Second
<1>4. ReportsHold'
  BY DEF ReportsHold, Of, Findings
<1>5. VerdictHolds' /\ SpokenHolds'
  BY DEF VerdictHolds, SpokenHolds, Verdict, Negative
<1> QED  BY <1>2, <1>3, <1>4, <1>5

LEMMA ChainKeeps ==
  ASSUME ChainInv, [ChainNext]_chainVars
  PROVE  ChainInv'
  BY AnswerKeeps, NodeKeeps, StillKeeps DEF ChainNext, Ended

(* The invariant of the chain: every behaviour of the scenario stage, with  *)
(* the answers of its models in any order, keeps it.                        *)
THEOREM ChainIsKept == ChainSpec => []ChainInv
<1>1. ChainInit => ChainInv
  BY ChainStarts
<1>2. ChainInv /\ [ChainNext]_chainVars => ChainInv'
  BY ChainKeeps
<1> QED  BY <1>1, <1>2, PTL DEF ChainSpec

-----------------------------------------------------------------------------
(* Every answer counts.                                                     *)

\* A step to another stage, or to the second pass, is nearer the end.
LEMMA Onward ==
  ASSUME ChainInv, ChainInv', stage \notin Over,
         \/ stage' = "failed"
         \/ pass' = pass /\ <<stage, stage'>> \in
              {<<"research", "structure">>, <<"structure", "writing">>, <<"writing", "breakdown">>,
               <<"repair", "breakdown">>, <<"breakdown", "review">>, <<"review", "critic">>,
               <<"critic", "normalize">>, <<"normalize", "done">>}
         \/ stage = "repair" /\ stage' = "writing" /\ pass' = 2
         \/ stage = "critic" /\ pass = 1 /\ stage' \in {"repair", "writing"} /\ pass' = 2
  PROVE  EveryAnswerCounts
<1>1. pass \in 1..2 /\ pass' \in 1..2 /\ stage \in Gathers \cup Single \cup Over
  BY DEF ChainInv, ChainShape
<1>2. stage \in {"research", "structure"} => pass = 1
  BY DEF ChainInv, CourseHolds
<1>3. stage = "repair" => pass = 2
  BY <1>1 DEF ChainInv, CourseHolds
<1> HIDE DEF ChainInv
<1>4. Progress' > Progress
  BY <1>1, <1>2, <1>3 DEF Progress, Gathers, Single, Over
<1> QED  BY <1>4 DEF EveryAnswerCounts

LEMMA AgainCounts ==
  ASSUME ChainInv, NEW c, NEW call, Again(c, call), Left(call) < Left(calls[c])
  PROVE  EveryAnswerCounts
<1>1. c \in DOMAIN calls /\ calls' = [calls EXCEPT ![c] = call] /\ calls'[c] = call
  BY DEF Again, IsOut, ChainInv, ChainShape
<1>2. Progress' = Progress /\ pass \in 1..2
  BY DEF Again, Stays, Progress, course, ChainInv, ChainShape
<1> QED  BY <1>1, <1>2 DEF EveryAnswerCounts

LEMMA InCounts ==
  ASSUME ChainInv, NEW c, IsOut(c), ComesIn(c), stage' = stage, pass' = pass
  PROVE  EveryAnswerCounts
<1>1. c \in DOMAIN calls /\ calls[c] \in Call /\ calls[c].st = "out"
  BY DEF IsOut, ChainInv, ChainShape
<1> DEFINE call == [calls[c] EXCEPT !.st = "in"]
<1>2. call.st = "in"
  BY <1>1 DEF Call
<1>3. calls' = [calls EXCEPT ![c] = call] /\ calls'[c] = call
  BY <1>1 DEF ComesIn
<1>4. Left(calls[c]) > 0 /\ Left(call) = 0
  BY <1>1, <1>2, CallFields DEF Left
<1>5. Progress' = Progress
  BY DEF Progress
<1> QED  BY <1>1, <1>3, <1>4, <1>5 DEF EveryAnswerCounts

LEMMA CorrectedCounts ==
  ASSUME ChainInv, NEW c \in DOMAIN calls, IsOut(c), NEW judged \in 0..1, Corrects(c, judged),
         RetryRemains(c)
  PROVE  EveryAnswerCounts
<1> DEFINE call == [calls[c] EXCEPT !.try = 2, !.judged = judged]
<1>1. calls[c] \in Call /\ calls[c].st = "out" /\ calls[c].try = 1
  BY DEF ChainInv, ChainShape, IsOut, RetryRemains
<1>2. PICK old \in Call : old = calls[c]
  BY <1>1
<1>3. calls' = [[calls EXCEPT ![c].try = 2] EXCEPT ![c].judged = judged]
  BY DEF Corrects
<1>4. calls' = [calls EXCEPT ![c] = call] /\ calls'[c] = call
  <2>1. calls' = [x \in AskedOf |-> IF x = c THEN call ELSE calls[x]]
    BY <1>3 DEF ChainInv, ChainShape
  <2> QED  BY <2>1 DEF ChainInv, ChainShape
<1>5. call.st = "out" /\ call.part = old.part /\ call.roll = old.roll /\ call.try = 2
  <2>1. PICK mid \in Call : mid = [old EXCEPT !.try = 2]
    <3>1. [old EXCEPT !.try = 2] \in Call
      BY DEF Call
    <3> QED  BY <3>1
  <2>2. mid.st = "out" /\ mid.part = old.part /\ mid.roll = old.roll /\ mid.try = 2
    BY <1>1, <1>2, <2>1 DEF Call
  <2>3. call = [mid EXCEPT !.judged = judged]
    BY <1>2, <2>1
  <2> QED  BY <2>2, <2>3 DEF Call
<1>6. Left(call) < Left(calls[c])
  BY <1>1, <1>2, <1>5, CallFields DEF Left
<1>7. Progress' = Progress
  BY DEF Corrects, Stays, Progress, course
<1> QED  BY <1>4, <1>6, <1>7 DEF EveryAnswerCounts

LEMMA RerolledCounts ==
  ASSUME ChainInv, NEW c \in DOMAIN calls, IsOut(c), calls' = Rerolled(c), Stays, calls[c].roll = 1
  PROVE  EveryAnswerCounts
<1> DEFINE call == [calls[c] EXCEPT !.roll = 2, !.try = 1]
<1>1. calls[c] \in Call /\ calls[c].st = "out"
  BY DEF ChainInv, ChainShape, IsOut
<1>2. PICK old \in Call : old = calls[c]
  BY <1>1
<1>3. calls' = [[calls EXCEPT ![c].roll = 2] EXCEPT ![c].try = 1]
  BY DEF Rerolled
<1>4. calls' = [calls EXCEPT ![c] = call] /\ calls'[c] = call
  <2>1. calls' = [x \in AskedOf |-> IF x = c THEN call ELSE calls[x]]
    BY <1>3 DEF ChainInv, ChainShape
  <2> QED  BY <2>1 DEF ChainInv, ChainShape
<1>5. call.st = "out" /\ call.part = old.part /\ call.roll = 2 /\ call.try = 1
  <2>1. PICK mid \in Call : mid = [old EXCEPT !.roll = 2]
    <3>1. [old EXCEPT !.roll = 2] \in Call
      BY DEF Call
    <3> QED  BY <3>1
  <2>2. mid.st = "out" /\ mid.part = old.part /\ mid.roll = 2
    BY <1>1, <1>2, <2>1 DEF Call
  <2>3. call = [mid EXCEPT !.try = 1]
    BY <1>2, <2>1
  <2> QED  BY <2>2, <2>3 DEF Call
<1>6. Left(call) < Left(calls[c])
  BY <1>1, <1>2, <1>5, CallFields DEF Left
<1>7. Progress' = Progress
  BY DEF Stays, Progress, course
<1> QED  BY <1>4, <1>6, <1>7 DEF EveryAnswerCounts

LEMMA CastCounts ==
  ASSUME ChainInv, NEW s, CastAnswers(s)
  PROVE  EveryAnswerCounts
<1> DEFINE call == [Asked EXCEPT !.part = "shots"]
<1>1. calls[s] \in Call /\ calls[s].st = "out" /\ calls[s].part = "cast"
  BY DEF CastAnswers, IsOut, ChainInv, ChainShape
<1>2. Left(call) = 4 /\ call.st = "out" /\ call \in Call
  BY DEF Asked, Left, Call
<1>3. Left(calls[s]) >= 5
  BY <1>1, CallFields DEF Left
<1>4. Again(s, call)
  BY <1>2 DEF CastAnswers, Again
<1>5. Left(call) < Left(calls[s])
  BY <1>1, <1>2, <1>3, CallFields DEF Left
<1> QED  BY <1>4, <1>5, AgainCounts

LEMMA AnswerCounts ==
  ASSUME ChainInv, ChainInv', NEW c \in DOMAIN calls, Answers(c)
  PROVE  EveryAnswerCounts
<1>0. stage \notin Over
  BY NobodyAnswersTheEnd
<1>1. ASSUME NEW error, Fails(error)  PROVE EveryAnswerCounts
  BY <1>0, <1>1, Onward DEF Fails
<1>2. ASSUME NEW reason, FullRewrite(reason), stage = "repair"  PROVE EveryAnswerCounts
  BY <1>0, <1>2, Onward DEF FullRewrite, Goes
<1>3. CASE Truncated(c)
  BY <1>1, <1>2, <1>3, RerolledCounts DEF Truncated
<1>4. CASE ProviderFails(c)
  BY <1>1, <1>4 DEF ProviderFails
<1>5. CASE Broken(c)
  <2>1. calls[c].judged \in 0..1
    BY CallFields DEF ChainInv, ChainShape
  <2> QED  BY <1>1, <1>5, <2>1, CorrectedCounts DEF Broken
<1>6. CASE ArchetypeUnknown(c)
  BY <1>6, CorrectedCounts DEF ArchetypeUnknown
<1>7. CASE OutlineUnquoted(c)
  BY <1>1, <1>7, CorrectedCounts DEF OutlineUnquoted
<1>8. CASE LedgerBroken(c)
  BY <1>1, <1>8 DEF LedgerBroken
<1>9. CASE RepairMiscounts(c)
  BY <1>2, <1>9, CorrectedCounts DEF RepairMiscounts
<1>10. CASE ReviewUnquoted(c)
  BY <1>1, <1>10, CorrectedCounts DEF ReviewUnquoted
<1>11. CASE ResearchAnswers(c) \/ OutlineAnswers(c) \/ RepairAnswers(c)
  BY <1>0, <1>11, Onward DEF ResearchAnswers, OutlineAnswers, RepairAnswers, Goes, course
<1>12. CASE WriteAnswers(c) \/ ShotsAnswer(c) \/ ReviewAnswers(c) \/ CriticAnswers(c) \/ NormalizeAnswers(c)
  BY <1>12, InCounts DEF WriteAnswers, ShotsAnswer, ReviewAnswers, CriticAnswers, NormalizeAnswers, course
<1>13. CASE CastAnswers(c)
  BY <1>13, CastCounts
<1> QED
  BY <1>3, <1>4, <1>5, <1>6, <1>7, <1>8, <1>9, <1>10, <1>11, <1>12, <1>13 DEF Answers

LEMMA NodeCounts ==
  ASSUME ChainInv, ChainInv',
         Written \/ BrokenDown \/ Reviewed \/ ScopedRepair \/ FullFallback \/ Judged \/ BuildScenes
  PROVE  EveryAnswerCounts
<1>1. stage \notin Over
  BY DEF Written, BrokenDown, Reviewed, ScopedRepair, FullFallback, Judged, BuildScenes, Then, Rejected, Over
<1>2. CASE ScopedRepair \/ FullFallback
  BY <1>1, <1>2, Onward DEF ScopedRepair, FullFallback, FullRewrite, Rejected, Goes
<1>3. CASE Written \/ BrokenDown \/ Reviewed
  BY <1>1, <1>3, Onward DEF Written, BrokenDown, Reviewed, Then, Goes, course
<1>4. CASE Judged \/ BuildScenes
  BY <1>1, <1>4, Onward DEF Judged, BuildScenes, Goes, course
<1> QED  BY <1>2, <1>3, <1>4

LEMMA UnflaggedStays ==
  ASSUME ChainInv, ChainNext
  PROVE  UnflaggedIsKept
<1>1. ASSUME NEW c \in DOMAIN calls, Answers(c)  PROVE UnflaggedIsKept
  <2>1. CASE RepairAnswers(c)
    BY <2>1 DEF RepairAnswers, UnflaggedIsKept, Repaired
  <2>2. CASE ShotsAnswer(c)
    <3>1. scope = "scene" => c \in flagged
      BY <2>2 DEF ShotsAnswer, IsOut, ChainInv, ChainShape, AskedOf, Single, Over
    <3> QED  BY <2>2, <3>1 DEF ShotsAnswer, UnflaggedIsKept, ChainInv, ChainShape
  <2>3. CASE WriteAnswers(c)
    BY <2>3 DEF WriteAnswers, UnflaggedIsKept, ChainInv, CourseHolds
  <2>4. CASE Truncated(c) \/ ProviderFails(c) \/ Broken(c) \/ ArchetypeUnknown(c) \/ OutlineUnquoted(c)
             \/ LedgerBroken(c) \/ RepairMiscounts(c) \/ CastAnswers(c) \/ ReviewUnquoted(c)
    <3>1. UNCHANGED product
      BY <2>4 DEF Truncated, ProviderFails, Broken, ArchetypeUnknown, OutlineUnquoted, LedgerBroken,
                  RepairMiscounts, CastAnswers, ReviewUnquoted, Fails, FullRewrite, Corrects, Stays
    <3> QED  BY <3>1 DEF product, UnflaggedIsKept
  <2>5. CASE ResearchAnswers(c) \/ OutlineAnswers(c) \/ ReviewAnswers(c) \/ CriticAnswers(c) \/ NormalizeAnswers(c)
    BY <2>5 DEF ResearchAnswers, OutlineAnswers, ReviewAnswers, CriticAnswers, NormalizeAnswers, UnflaggedIsKept
  <2> QED  BY <1>1, <2>1, <2>2, <2>3, <2>4, <2>5 DEF Answers
<1>2. CASE Written \/ BrokenDown \/ Reviewed \/ ScopedRepair \/ FullFallback \/ Judged \/ BuildScenes \/ Ended
  BY <1>2 DEF Written, BrokenDown, Reviewed, ScopedRepair, FullFallback, FullRewrite, Judged, BuildScenes,
              Ended, Then, product, chainVars, UnflaggedIsKept
<1> QED  BY <1>1, <1>2 DEF ChainNext

(* The rewriting of ScenarioStage, for every number of scenes and whatever  *)
(* the models answer: RewritingIsSound holds of every step.                 *)
LEMMA RewritingStep ==
  ASSUME ChainInv, [ChainNext]_chainVars
  PROVE  [ContradictionIsRepaired' /\ UnflaggedIsKept /\ EveryAnswerCounts
            /\ OutlineSurvivesItsEvidence']_chainVars
<1>1. ChainInv'
  BY ChainKeeps
<1>2. ContradictionIsRepaired' /\ OutlineSurvivesItsEvidence'
  BY <1>1, ChainRepairs, PTL
<1>3. CASE Ended \/ UNCHANGED chainVars
  BY <1>3 DEF Ended
<1>4. CASE ChainNext /\ ~Ended
  <2>1. EveryAnswerCounts
    BY <1>1, <1>4, AnswerCounts, NodeCounts DEF ChainNext
  <2> QED  BY <1>2, <1>4, <2>1, UnflaggedStays
<1> QED  BY <1>3, <1>4

LEMMA StoryboardChains == Spec => ChainSpec
<1>1. Init => ChainInit
  BY DEF Init
<1>2. [Next]_allVars => [ChainNext]_chainVars
  BY DEF Next, allVars
<1> QED  BY <1>1, <1>2, PTL DEF Spec, ChainSpec

\* What a review quoted from both sides is rewritten before anything goes on, a scoped
\* repair changes nothing of another scene, every answer brings the stage nearer its
\* end, and evidence a model cannot quote does not fail the outline (RewritingIsSound):
\* for any number of scenes and whatever the models answer.
THEOREM RewritingKept == Spec => RewritingIsSound
<1>1. ChainInv /\ [ChainNext]_chainVars =>
        [ContradictionIsRepaired' /\ UnflaggedIsKept /\ EveryAnswerCounts
           /\ OutlineSurvivesItsEvidence']_chainVars
  BY RewritingStep
<1> QED  BY <1>1, StoryboardChains, ChainIsKept, PTL DEF ChainSpec, RewritingIsSound

-----------------------------------------------------------------------------
(* Facts about numbers and small sets.                                      *)

LEMMA NaturalsAreOrdered ==
  \E R : /\ IsWellFoundedOn(R, Nat)
         /\ \A x, y \in Nat : <<x, y>> \in R <=> x < y
<1>1. IsWellFoundedOn(OpToRel(<, Nat), Nat)
  BY NatLessThanWellFounded
<1>2. \A x, y \in Nat : <<x, y>> \in OpToRel(<, Nat) <=> x < y
  BY DEF OpToRel
<1> QED  BY <1>1, <1>2, Zenon

LEMMA LeastIsThere ==
  ASSUME NEW S \in SUBSET Nat, S # {}
  PROVE  \E x \in S : \A y \in S : x <= y
<1>1. PICK R : IsWellFoundedOn(R, Nat) /\ \A x, y \in Nat : <<x, y>> \in R <=> x < y
  BY NaturalsAreOrdered, Zenon
<1>0. IsWellFoundedOn(R, Nat) /\ S \subseteq Nat
  BY <1>1
<1>2. PICK x \in S : \A y \in S : ~ (<<y, x>> \in R)
  BY <1>0, WFMin, Zenon
<1>3. ASSUME NEW y \in S PROVE x <= y
  <2>1. x \in Nat /\ y \in Nat
    OBVIOUS
  <2>2. ~ (y < x)
    BY <2>1, <1>1, <1>2
  <2> QED  BY <2>1, <2>2
<1> QED  BY <1>3, Zenon

LEMMA GreatestIsThere ==
  ASSUME NEW n \in Nat, NEW S \in SUBSET (0 .. n), S # {}
  PROVE  \E x \in S : \A y \in S : x >= y
<1> DEFINE T == {n - x : x \in S}
<1>1. T \in SUBSET Nat /\ T # {}
  <2>1. \A x \in S : x \in 0 .. n /\ n - x \in Nat
    OBVIOUS
  <2> QED  BY <2>1
<1>2. PICK t \in T : \A u \in T : t <= u
  BY <1>1, LeastIsThere
<1>3. PICK x \in S : t = n - x
  BY <1>2
<1>4. ASSUME NEW y \in S  PROVE x >= y
  <2>1. n - y \in T /\ y \in 0 .. n /\ x \in 0 .. n
    OBVIOUS
  <2>2. n - x <= n - y
    BY <1>2, <1>3, <2>1
  <2> QED  BY <2>1, <2>2
<1> QED  BY <1>4

LEMMA MinIsLeast ==
  ASSUME NEW S \in SUBSET Nat, S # {}
  PROVE  Min(S) \in S /\ \A y \in S : Min(S) <= y
<1>1. \E x \in S : \A y \in S : x <= y
  BY LeastIsThere
<1> QED  BY <1>1, Zenon DEF Min

LEMMA MaxIsGreatest ==
  ASSUME NEW n \in Nat, NEW S \in SUBSET (0 .. n), S # {}
  PROVE  Max(S) \in S /\ \A y \in S : Max(S) >= y
<1>1. \E x \in S : \A y \in S : x >= y
  BY GreatestIsThere
<1> QED  BY <1>1, Zenon DEF Max

-----------------------------------------------------------------------------
(* The outline: what every scene that is read keeps of the whole.           *)

PlannedScene ==
  [hook : {beat.hook : beat \in Beats}, interrupt : Interrupts, budget : SceneBudget,
   plants : {ledger.plants : ledger \in Ledgers}, closes : {ledger.closes : ledger \in Ledgers}]

\* A loop is planted once, and closed once, after that.
LoopsInOrder(list) ==
  /\ \A i, j \in DOMAIN list : i # j => /\ list[i].plants \cap list[j].plants = {}
                                       /\ list[i].closes \cap list[j].closes = {}
  /\ \A c \in DOMAIN list : \A loop \in list[c].closes : \E p \in 1 .. c - 1 : loop \in list[p].plants
PaceOf(list) ==
  \A i \in 2 .. Len(list) - MaxQuiet : \E j \in i .. i + MaxQuiet : list[j].interrupt # "none"

OutlineInv ==
  /\ outline \in Seq(PlannedScene)
  /\ LoopsInOrder(outline) /\ PaceOf(outline)
  /\ planning \in {"planned", "written"} => OutlineHolds(outline) /\ devices = Allocated(outline)
  /\ planning = "written" => briefs = [i \in DOMAIN outline |-> Owed(outline, i)]

LEMMA Appended ==
  ASSUME NEW S, NEW list \in Seq(S), NEW scene \in S, NEW longer, longer = Append(list, scene)
  PROVE  /\ longer \in Seq(S) /\ Len(longer) = Len(list) + 1 /\ DOMAIN longer = 1 .. Len(list) + 1
         /\ Len(list) \in Nat /\ DOMAIN list = 1 .. Len(list)
         /\ \A i \in DOMAIN list : longer[i] = list[i]
         /\ longer[Len(list) + 1] = scene
  OBVIOUS

LEMMA OrderKept ==
  ASSUME NEW list \in Seq(PlannedScene), NEW scene \in PlannedScene, LoopsInOrder(list),
         LedgerHolds(list, scene), NEW longer, longer = Append(list, scene)
  PROVE  LoopsInOrder(longer)
<1> DEFINE n == Len(list)
<1>1. /\ n \in Nat /\ DOMAIN longer = 1 .. n + 1 /\ DOMAIN list = 1 .. n
      /\ \A i \in 1 .. n : longer[i] = list[i]
      /\ longer[n + 1] = scene
  BY Appended
<1>2. /\ \A i \in 1 .. n : scene.plants \cap list[i].plants = {} /\ scene.closes \cap list[i].closes = {}
      /\ \A loop \in scene.closes : \E p \in 1 .. n : loop \in list[p].plants
  BY <1>1 DEF LedgerHolds, PlantedIn, ClosedIn
<1> HIDE DEF n
<1>3. ASSUME NEW i \in 1 .. n + 1, NEW j \in 1 .. n + 1, i # j
      PROVE  longer[i].plants \cap longer[j].plants = {} /\ longer[i].closes \cap longer[j].closes = {}
  <2>1. CASE i \in 1 .. n /\ j \in 1 .. n
    BY <1>1, <1>3, <2>1 DEF LoopsInOrder
  <2>2. CASE i = n + 1
    <3>1. j \in 1 .. n
      BY <1>1, <1>3, <2>2
    <3> QED  BY <1>1, <1>2, <2>2, <3>1
  <2>3. CASE j = n + 1
    <3>1. i \in 1 .. n
      BY <1>1, <1>3, <2>3
    <3> QED  BY <1>1, <1>2, <2>3, <3>1
  <2> QED  BY <1>1, <2>1, <2>2, <2>3
<1>4. ASSUME NEW c \in 1 .. n + 1, NEW loop \in longer[c].closes
      PROVE  \E p \in 1 .. c - 1 : loop \in longer[p].plants
  <2>1. CASE c \in 1 .. n
    <3>1. PICK p \in 1 .. c - 1 : loop \in list[p].plants
      BY <1>1, <1>4, <2>1 DEF LoopsInOrder
    <3>2. p \in 1 .. n
      BY <1>1, <2>1
    <3> QED  BY <1>1, <3>1, <3>2
  <2>2. CASE c = n + 1
    <3>1. PICK p \in 1 .. n : loop \in list[p].plants
      BY <1>1, <1>2, <1>4, <2>2
    <3>2. c - 1 = n
      BY <1>1, <2>2
    <3> QED  BY <1>1, <3>1, <3>2
  <2> QED  BY <1>1, <2>1, <2>2
<1> QED  BY <1>1, <1>3, <1>4 DEF LoopsInOrder

LEMMA PaceKept ==
  ASSUME NEW list \in Seq(PlannedScene), NEW scene \in PlannedScene, PaceOf(list),
         NEW longer, longer = Append(list, scene), Quiet(longer) <= MaxQuiet
  PROVE  PaceOf(longer)
<1> DEFINE n == Len(list)
           loud == {1} \cup {i \in DOMAIN longer : longer[i].interrupt # "none"}
<1>1. /\ n \in Nat /\ DOMAIN longer = 1 .. n + 1 /\ Len(longer) = n + 1 /\ DOMAIN list = 1 .. n
      /\ \A i \in 1 .. n : longer[i] = list[i]
  BY Appended
<1>2. n + 1 \in Nat /\ loud \in SUBSET (0 .. n + 1) /\ loud # {}
  BY <1>1
<1>3. Max(loud) \in loud /\ Max(loud) \in 0 .. n + 1
  BY <1>2, MaxIsGreatest
<1>4. n + 1 - Max(loud) <= 2
  <2>1. Len(longer) - Max(loud) <= 2
    BY DEF Quiet, MaxQuiet
  <2> HIDE DEF loud
  <2> QED  BY <1>1, <1>3, <2>1
<1>6. \A i \in 2 .. n - 2 : \E j \in i .. i + 2 : list[j].interrupt # "none"
  BY DEF PaceOf, MaxQuiet
<1> HIDE DEF n
<1>5. ASSUME NEW i \in 2 .. n + 1 - 2
      PROVE  \E j \in i .. i + 2 : longer[j].interrupt # "none"
  <2>1. CASE i <= n - 2
    <3>1. PICK j \in i .. i + 2 : list[j].interrupt # "none"
      <4>1. i \in 2 .. n - 2
        BY <1>1, <2>1
      <4> QED  BY <1>6, <4>1
    <3>2. j \in 1 .. n
      BY <1>1, <2>1
    <3> QED  BY <1>1, <3>1, <3>2
  <2>2. CASE i = n - 1
    <3> HIDE DEF loud
    <3>2. Max(loud) \in i .. i + 2 /\ Max(loud) # 1
      BY <1>1, <1>3, <1>4, <2>2
    <3>3. longer[Max(loud)].interrupt # "none"
      BY <1>3, <3>2 DEF loud
    <3> QED  BY <3>2, <3>3
  <2> QED  BY <1>1, <2>1, <2>2
<1>7. ASSUME NEW i \in 2 .. Len(longer) - MaxQuiet
      PROVE  \E j \in i .. i + MaxQuiet : longer[j].interrupt # "none"
  <2>1. i \in 2 .. n + 1 - 2
    BY <1>1 DEF MaxQuiet
  <2>2. \E j \in i .. i + 2 : longer[j].interrupt # "none"
    BY <1>5, <2>1
  <2> QED  BY <2>2 DEF MaxQuiet
<1> QED  BY <1>7 DEF PaceOf

LEMMA OutlineKeeps ==
  ASSUME OutlineInv, [OutlineNext]_outlineVars
  PROVE  OutlineInv'
<1>1. <<>> \in Seq(PlannedScene) /\ LoopsInOrder(<<>>) /\ PaceOf(<<>>)
  <2>1. <<>> \in Seq(PlannedScene) /\ Len(<<>>) = 0 /\ DOMAIN <<>> = {}
    OBVIOUS
  <2>2. LoopsInOrder(<<>>)
    BY <2>1 DEF LoopsInOrder
  <2>3. 2 .. Len(<<>>) - MaxQuiet = {}
    BY <2>1 DEF MaxQuiet
  <2> QED  BY <2>1, <2>2, <2>3 DEF PaceOf
<1>2. ASSUME NEW how \in {"outline", "refused", "predates 12.6", "predates 12.7", "predates 12.8"}, Ends(how)
      PROVE  OutlineInv'
  BY <1>1, <1>2 DEF Ends, OutlineInv
<1>3. CASE RequireBudgetVariables
  BY <1>2, <1>3 DEF RequireBudgetVariables
<1>4. CASE ReadScene
  <2>1. PICK beat \in Beats, ledger \in Ledgers :
          LET scene == [hook |-> beat.hook, interrupt |-> beat.interrupt, budget |-> beat.budget,
                        plants |-> ledger.plants, closes |-> ledger.closes]
          IN IF SceneHolds(outline, scene)
             THEN outline' = Append(outline, scene) /\ UNCHANGED <<planning, devices, briefs>>
             ELSE Ends("refused")
    BY <1>4 DEF ReadScene
  <2>2. PICK scene : scene = [hook |-> beat.hook, interrupt |-> beat.interrupt, budget |-> beat.budget,
                              plants |-> ledger.plants, closes |-> ledger.closes]
    OBVIOUS
  <2>3. CASE SceneHolds(outline, scene) /\ outline' = Append(outline, scene) /\ UNCHANGED <<planning, devices, briefs>>
    <3>1. scene.interrupt \in Interrupts /\ scene.budget \in SceneBudget
      BY <2>3 DEF SceneHolds
    <3>2. scene \in PlannedScene
      BY <2>2, <3>1 DEF PlannedScene
    <3>3. PICK list \in Seq(PlannedScene) : list = outline
      BY DEF OutlineInv
    <3>4. PICK longer : longer = Append(list, scene)
      OBVIOUS
    <3>5. longer \in Seq(PlannedScene) /\ outline' = longer
      BY <2>3, <3>2, <3>3, <3>4, Appended
    <3>6. LoopsInOrder(longer)
      BY <2>3, <3>2, <3>3, <3>4, OrderKept DEF OutlineInv, SceneHolds
    <3>7. PaceOf(longer)
      BY <2>3, <3>2, <3>3, <3>4, PaceKept DEF OutlineInv, SceneHolds
    <3>8. planning = "outline" /\ planning' = planning
      BY <1>4, <2>3 DEF ReadScene
    <3> QED  BY <3>5, <3>6, <3>7, <3>8 DEF OutlineInv
  <2> QED  BY <1>2, <2>1, <2>2, <2>3
<1>5. CASE SceneMalformed
  BY <1>2, <1>5 DEF SceneMalformed
<1>6. CASE ReadWhole
  <2>1. CASE ~OutlineHolds(outline)
    BY <1>2, <1>6, <2>1 DEF ReadWhole
  <2>2. CASE OutlineHolds(outline)
    BY <1>6, <2>2 DEF ReadWhole, OutlineInv
  <2> QED  BY <2>1, <2>2
<1>7. CASE WriteScenes
  <2>1. CASE Ends("predates 12.7")
    BY <1>2, <2>1
  <2>2. CASE /\ briefs' = [i \in DOMAIN outline |-> Owed(outline, i)]
             /\ planning' = "written"
             /\ UNCHANGED <<outline, devices>>
    BY <1>7, <2>2 DEF WriteScenes, OutlineInv
  <2> QED  BY <1>7, <2>1, <2>2 DEF WriteScenes
<1>8. CASE UNCHANGED outlineVars
  BY <1>8 DEF outlineVars, OutlineInv
<1> QED  BY <1>3, <1>4, <1>5, <1>6, <1>7, <1>8 DEF OutlineNext

-----------------------------------------------------------------------------
(* The floor on the number of scenes.                                       *)

LEMMA TotalOfFew ==
  ASSUME NEW list, NEW n \in 1 .. 3, Len(list) = n, \A i \in 1 .. n : list[i].budget \in Int
  PROVE  Total(list) = IF n = 1 THEN list[1].budget
                       ELSE IF n = 2 THEN list[1].budget + list[2].budget
                       ELSE list[1].budget + list[2].budget + list[3].budget
<1> DEFINE Sums(f) == f = [i \in 0 .. n |-> IF i = 0 THEN 0 ELSE f[i - 1] + list[i].budget]
           w == [i \in 0 .. n |->
                   IF i = 0 THEN 0 ELSE IF i = 1 THEN list[1].budget
                   ELSE IF i = 2 THEN list[1].budget + list[2].budget
                   ELSE list[1].budget + list[2].budget + list[3].budget]
<1>1. Sums(w)
  <2>1. ASSUME NEW i \in 0 .. n
        PROVE  w[i] = IF i = 0 THEN 0 ELSE w[i - 1] + list[i].budget
    <3>1. CASE i = 0
      BY <3>1
    <3>2. CASE i = 1
      BY <3>2
    <3>3. CASE i = 2
      BY <3>3
    <3>4. CASE i = 3
      BY <3>4
    <3> QED  BY <3>1, <3>2, <3>3, <3>4
  <2> QED  BY <2>1
<1>2. PICK f : Sums(f) /\ Total(list) = f[n]
  BY <1>1, Zenon DEF Total
<1>3. f[0] = 0
  BY <1>2
<1>4. f[1] = list[1].budget
  BY <1>2, <1>3
<1>5. n >= 2 => f[2] = list[1].budget + list[2].budget
  BY <1>2, <1>4
<1>6. n = 3 => f[3] = list[1].budget + list[2].budget + list[3].budget
  BY <1>2, <1>5
<1> QED  BY <1>2, <1>4, <1>5, <1>6

LEMMA FloorFollows ==
  ASSUME NEW list \in Seq(PlannedScene), NEW n \in 1 .. 3, n <= Len(list)
  PROVE  ~BudgetsHold(SubSeq(list, 1, n))
<1>1. PICK part : part = SubSeq(list, 1, n)
  OBVIOUS
<1>2. Len(part) = n /\ \A i \in 1 .. n : part[i] = list[i] /\ i \in 1 .. Len(list)
  BY <1>1
<1>3. \A i \in 1 .. n : part[i].budget \in 22 .. 130 /\ part[i].budget \in Int
  <2>1. \A scene \in PlannedScene : scene.budget \in 22 .. 130
    BY DEF PlannedScene, SceneBudget
  <2>2. ASSUME NEW i \in 1 .. n  PROVE part[i] \in PlannedScene
    BY <1>2
  <2>3. ASSUME NEW i \in 1 .. n  PROVE part[i].budget \in 22 .. 130
    BY <2>1, <2>2
  <2>4. \A b \in 22 .. 130 : b \in Int
    OBVIOUS
  <2> QED  BY <2>3, <2>4
<1>4. SUFFICES ASSUME Total(part) \in 370 .. 500, 5 * part[1].budget <= Total(part),
                      5 * part[n].budget <= Total(part)
               PROVE  FALSE
  BY <1>1, <1>2 DEF BudgetsHold, TotalBudget
<1>5. Total(part) = IF n = 1 THEN part[1].budget
                    ELSE IF n = 2 THEN part[1].budget + part[2].budget
                    ELSE part[1].budget + part[2].budget + part[3].budget
  <2>1. Len(part) = n /\ \A i \in 1 .. n : part[i].budget \in Int
    BY <1>2, <1>3
  <2> QED  BY <2>1, TotalOfFew
<1>6. CASE n = 1
  <2>1. PICK b1 \in 22 .. 130 : part[1].budget = b1
    BY <1>3, <1>6
  <2>2. PICK sum \in 370 .. 500 : Total(part) = sum
    BY <1>4
  <2>3. sum = b1
    BY <1>5, <1>6, <2>1, <2>2
  <2>4. 5 * b1 <= sum /\ 5 * b1 <= sum
    BY <1>4, <1>6, <2>1, <2>2
  <2> QED  BY <2>3, <2>4
<1>7. CASE n = 2
  <2>1. PICK b1 \in 22 .. 130 : part[1].budget = b1
    BY <1>3, <1>7
  <2>2. PICK b2 \in 22 .. 130 : part[2].budget = b2
    BY <1>3, <1>7
  <2>3. PICK sum \in 370 .. 500 : Total(part) = sum
    BY <1>4
  <2>4. sum = b1 + b2
    BY <1>5, <1>7, <2>1, <2>2, <2>3
  <2>5. 5 * b1 <= sum /\ 5 * b2 <= sum
    BY <1>4, <1>7, <2>1, <2>2, <2>3
  <2> QED  BY <2>4, <2>5
<1>8. CASE n = 3
  <2>1. PICK b1 \in 22 .. 130 : part[1].budget = b1
    BY <1>3, <1>8
  <2>2. PICK b2 \in 22 .. 130 : part[2].budget = b2
    BY <1>3, <1>8
  <2>3. PICK b3 \in 22 .. 130 : part[3].budget = b3
    BY <1>3, <1>8
  <2>4. PICK sum \in 370 .. 500 : Total(part) = sum
    BY <1>4
  <2>5. sum = b1 + b2 + b3
    BY <1>5, <1>8, <2>1, <2>2, <2>3, <2>4
  <2>6. 5 * b1 <= sum /\ 5 * b3 <= sum
    BY <1>4, <1>8, <2>1, <2>2, <2>3, <2>4
  <2> QED  BY <2>5, <2>6
<1> QED  BY <1>6, <1>7, <1>8

-----------------------------------------------------------------------------
(* The promises.                                                            *)

LEMMA PromisesFollow ==
  ASSUME outline \in Seq(PlannedScene), LoopsInOrder(outline), LoopsHold(outline), Len(outline) >= 4,
         briefs = [i \in DOMAIN outline |-> Owed(outline, i)]
  PROVE  PromisesAreKept
<1>0. DOMAIN outline = 1 .. Len(outline) /\ Len(outline) \in Nat
  OBVIOUS
<1>1. ASSUME NEW i \in DOMAIN outline, NEW loop
      PROVE  (\E owed \in briefs[i] : owed.loop = loop) <=> loop \in outline[i].closes /\ Planters(outline, i, loop) # {}
  <2>1. briefs[i] = {[loop |-> l, planted |-> Min(Planters(outline, i, l))] :
                       l \in {l \in outline[i].closes : Planters(outline, i, l) # {}}}
    BY <1>1 DEF Owed
  <2>2. ASSUME NEW owed \in briefs[i], owed.loop = loop
        PROVE  loop \in outline[i].closes /\ Planters(outline, i, loop) # {}
    <3>1. PICK l \in {l \in outline[i].closes : Planters(outline, i, l) # {}} :
            owed = [loop |-> l, planted |-> Min(Planters(outline, i, l))]
      BY <2>1, <2>2
    <3>2. owed.loop = l
      BY <3>1
    <3> QED  BY <2>2, <3>1, <3>2
  <2>3. ASSUME loop \in outline[i].closes, Planters(outline, i, loop) # {}
        PROVE  \E owed \in briefs[i] : owed.loop = loop
    <3>1. [loop |-> loop, planted |-> Min(Planters(outline, i, loop))] \in briefs[i]
      BY <2>1, <2>3
    <3> QED  BY <3>1
  <2> QED  BY <2>2, <2>3
<1>2. ASSUME NEW loop, NEW p \in DOMAIN outline, loop \in outline[p].plants
      PROVE  \E c \in DOMAIN outline :
               /\ p < c
               /\ {i \in DOMAIN outline : loop \in outline[i].plants} = {p}
               /\ {i \in DOMAIN outline : \E owed \in briefs[i] : owed.loop = loop} = {c}
               /\ [loop |-> loop, planted |-> p] \in briefs[c]
  <2>1. \A i \in DOMAIN outline : loop \in outline[i].plants => i = p
    BY <1>2 DEF LoopsInOrder
  <2>2. PICK c \in DOMAIN outline : loop \in outline[c].closes
    BY <1>2 DEF LoopsHold, ClosedIn, PlantedIn
  <2>3. PICK q \in 1 .. c - 1 : loop \in outline[q].plants
    BY <2>2 DEF LoopsInOrder
  <2>4. q = p /\ p < c
    BY <1>0, <2>1, <2>3
  <2>5. \A i \in DOMAIN outline : loop \in outline[i].closes => i = c
    BY <2>2 DEF LoopsInOrder
  <2>6. Planters(outline, c, loop) = {p}
    BY <1>0, <2>1, <2>3, <2>4 DEF Planters
  <2>7. {i \in DOMAIN outline : \E owed \in briefs[i] : owed.loop = loop} = {c}
    <3>1. Planters(outline, c, loop) # {}
      BY <2>6, Zenon
    <3>2. \E owed \in briefs[c] : owed.loop = loop
      BY <1>1, <2>2, <3>1, Zenon
    <3>3. \A i \in DOMAIN outline :
            (\E owed \in briefs[i] : owed.loop = loop) => i = c
      BY <1>1, <2>5, Zenon
    <3> QED  BY <3>2, <3>3, Zenon
  <2>8. Min({p}) = p
    <3>1. {p} \in SUBSET Nat /\ {p} # {}
      BY <1>0
    <3> QED  BY <3>1, MinIsLeast
  <2>9. [loop |-> loop, planted |-> p] \in briefs[c]
    BY <2>2, <2>6, <2>8 DEF Owed
  <2> QED  BY <1>2, <2>1, <2>4, <2>7, <2>9
<1>3. \A loop \in PlantedIn(outline) : \E p \in DOMAIN outline : loop \in outline[p].plants
  BY DEF PlantedIn
<1>4. \E i \in DOMAIN outline : \E owed \in briefs[i] : owed.planted = 1
  <2>1. 1 \in DOMAIN outline
    BY <1>0
  <2>2. PICK loop : loop \in outline[1].plants
    BY DEF LoopsHold
  <2>3. PICK c \in DOMAIN outline : [loop |-> loop, planted |-> 1] \in briefs[c]
    BY <1>2, <2>1, <2>2
  <2> QED  BY <2>3
<1>5. ASSUME NEW loop \in PlantedIn(outline)
      PROVE  \E p, c \in DOMAIN outline :
               /\ p < c
               /\ {i \in DOMAIN outline : loop \in outline[i].plants} = {p}
               /\ {i \in DOMAIN outline : \E owed \in briefs[i] : owed.loop = loop} = {c}
               /\ [loop |-> loop, planted |-> p] \in briefs[c]
  <2>1. PICK p \in DOMAIN outline : loop \in outline[p].plants
    BY <1>3
  <2> QED  BY <1>2, <2>1, Zenon
<1> QED  BY <1>4, <1>5 DEF PromisesAreKept

-----------------------------------------------------------------------------
(* The devices.                                                             *)

\* Of some scenes one has the largest budget, and one comes first.
LEMMA BestIsThere ==
  ASSUME NEW list \in Seq(PlannedScene), NEW S \in SUBSET (DOMAIN list), S # {}
  PROVE  \E best \in S : \A j \in S : ~Larger(list, j, best)
<1> DEFINE budgets == {list[i].budget : i \in S}
<1>0. DOMAIN list = 1 .. Len(list) /\ Len(list) \in Nat
  OBVIOUS
<1>1. \A i \in S : list[i].budget \in 0 .. 130
  <2>1. ASSUME NEW scene \in PlannedScene  PROVE scene.budget \in 0 .. 130
    BY DEF PlannedScene, SceneBudget
  <2>2. \A i \in S : list[i] \in PlannedScene
    BY <1>0
  <2> QED  BY <2>1, <2>2
<1>2. budgets \in SUBSET (0 .. 130) /\ budgets # {} /\ 130 \in Nat
  BY <1>1
<1>3. PICK most \in budgets : \A b \in budgets : most >= b
  BY <1>2, GreatestIsThere
<1> DEFINE tops == {i \in S : list[i].budget = most}
<1>4. tops \in SUBSET Nat /\ tops # {}
  BY <1>0, <1>3
<1>5. PICK best \in tops : \A i \in tops : best <= i
  BY <1>4, LeastIsThere
<1>6. ASSUME NEW j \in S, Larger(list, j, best)  PROVE FALSE
  <2>1. list[best].budget = most /\ list[j].budget \in budgets /\ best \in Nat /\ j \in Nat
    <3>1. best \in S /\ list[best].budget = most /\ j \in 1 .. Len(list) /\ best \in 1 .. Len(list)
      BY <1>0, <1>5
    <3> QED  BY <1>0, <3>1
  <2>2. list[j].budget <= most /\ list[j].budget \in 0 .. 130 /\ most \in 0 .. 130
    BY <1>1, <1>3, <2>1
  <2>3. list[j].budget = most /\ j < best
    <3>1. list[j].budget > most \/ (list[j].budget = most /\ j < best)
      BY <1>6, <2>1 DEF Larger
    <3>2. PICK b \in 0 .. 130, m \in 0 .. 130 : b = list[j].budget /\ m = most
      BY <2>2
    <3>3. b <= m /\ (b > m \/ (b = m /\ j < best))
      BY <2>2, <3>1, <3>2
    <3>4. b = m /\ j < best
      BY <3>3
    <3> QED  BY <3>2, <3>4
  <2>4. j \in tops
    BY <2>3
  <2> QED  BY <1>5, <2>1, <2>3, <2>4
<1> QED  BY <1>5, <1>6

LEMMA FewBefore ==
  /\ Cardinality({}) = 0
  /\ \A S, b : S \subseteq {b} => IsFiniteSet(S) /\ Cardinality(S) \in {0, 1}
<1>1. Cardinality({}) = 0
  BY FS_EmptySet
<1>2. ASSUME NEW S, NEW b, S \subseteq {b}  PROVE IsFiniteSet(S) /\ Cardinality(S) \in {0, 1}
  <2>1. S = {} \/ S = {b}
    BY <1>2
  <2> QED  BY <2>1, FS_EmptySet, FS_Singleton
<1> QED  BY <1>1, <1>2

LEMMA PairCounts ==
  ASSUME NEW S, IsFiniteSet(S), NEW a \in S, NEW b \in S, a # b
  PROVE  Cardinality(S) \in Nat /\ Cardinality(S) >= 2
<1>1. Cardinality({a, b}) = 2 /\ IsFiniteSet({a, b})
  <2>1. IsFiniteSet({a}) /\ Cardinality({a}) = 1
    BY FS_Singleton
  <2>2. {a, b} = {a} \cup {b} /\ b \notin {a}
    OBVIOUS
  <2>3. IsFiniteSet({a} \cup {b}) /\ Cardinality({a} \cup {b}) = 2
    BY <2>1, <2>2, FS_AddElement
  <2> QED  BY <2>2, <2>3
<1>2. {a, b} \subseteq S
  OBVIOUS
<1>3. Cardinality({a, b}) <= Cardinality(S) /\ Cardinality(S) \in Nat
  BY <1>2, FS_Subset, FS_CardinalityType
<1> QED  BY <1>1, <1>3

\* What Largest and Earliest find.
LEMMA LargestFinds ==
  ASSUME NEW list \in Seq(PlannedScene), NEW S \in SUBSET (DOMAIN list), S # {}
  PROVE  \E best \in S : best \in Largest(list, S, 1) /\ best \in Largest(list, S, 2)
<1>1. PICK best \in S : \A j \in S : ~Larger(list, j, best)
  BY BestIsThere
<1>2. {j \in S : Larger(list, j, best)} = {}
  BY <1>1
<1>3. Cardinality({j \in S : Larger(list, j, best)}) = 0
  BY <1>2, FewBefore
<1>4. Cardinality({j \in S : Larger(list, j, best)}) < 1 /\ Cardinality({j \in S : Larger(list, j, best)}) < 2
  BY <1>3
<1> QED  BY <1>4, Zenon DEF Largest

LEMMA LargestFindsTwo ==
  ASSUME NEW list \in Seq(PlannedScene), NEW S \in SUBSET (DOMAIN list),
         NEW x \in S, NEW y \in S, x # y
  PROVE  \E a, b \in Largest(list, S, 2) : a # b
<1>1. PICK a \in S : \A j \in S : ~Larger(list, j, a)
  <2>1. S # {}
    OBVIOUS
  <2> QED  BY <2>1, BestIsThere
<1>2. S \ {a} \in SUBSET (DOMAIN list) /\ S \ {a} # {}
  OBVIOUS
<1>3. PICK b \in S \ {a} : \A j \in S \ {a} : ~Larger(list, j, b)
  BY <1>2, BestIsThere
<1>4. {j \in S : Larger(list, j, a)} \subseteq {a} /\ {j \in S : Larger(list, j, b)} \subseteq {a}
  BY <1>1, <1>3
<1>5. Cardinality({j \in S : Larger(list, j, a)}) \in {0, 1} /\ Cardinality({j \in S : Larger(list, j, b)}) \in {0, 1}
  BY <1>4, FewBefore, Zenon
<1>6. \A n \in {0, 1} : n < 2
  OBVIOUS
<1>7. a \in Largest(list, S, 2) /\ b \in Largest(list, S, 2)
  BY <1>3, <1>5, <1>6, Zenon DEF Largest
<1> QED  BY <1>3, <1>7

LEMMA EarliestFinds ==
  ASSUME NEW S \in SUBSET Nat, S # {}
  PROVE  Earliest(S, 2) # {}
<1>1. PICK least \in S : \A j \in S : least <= j
  BY LeastIsThere
<1>2. {j \in S : j < least} = {}
  <2>1. ASSUME NEW j \in S  PROVE ~(j < least)
    <3>1. j \in Nat /\ least \in Nat /\ least <= j
      BY <1>1
    <3> QED  BY <3>1
  <2> QED  BY <2>1
<1>3. Cardinality({j \in S : j < least}) < 2
  <2>1. Cardinality({j \in S : j < least}) = 0
    BY <1>2, FewBefore
  <2> QED  BY <2>1
<1> QED  BY <1>3, Zenon DEF Earliest

\* Whom each device is given to, of four scenes or more.
LEMMA OwnersAre ==
  ASSUME outline \in Seq(PlannedScene), Len(outline) >= 4
  PROVE  LET middle == 2 .. Len(outline) - 1
             planned == Kinds(outline, {"direct_address"})
             shifts == Kinds(outline, {"tone_shift", "pov_shift"})
             second == SecondPerson(outline)
             reaction == Reaction(outline)
         IN /\ planned \subseteq second /\ second \subseteq planned \cup middle /\ second \subseteq DOMAIN outline
            /\ IsFiniteSet(second) /\ Cardinality(second) >= 2 /\ second # {}
            /\ reaction # {} /\ reaction \subseteq DOMAIN outline
            /\ \/ reaction \subseteq shifts
               \/ reaction \subseteq middle \ second
               \/ reaction \subseteq middle /\ middle \subseteq second
<1> DEFINE middle == 2 .. Len(outline) - 1
           planned == Kinds(outline, {"direct_address"})
           shifts == Kinds(outline, {"tone_shift", "pov_shift"})
           second == SecondPerson(outline)
           reaction == Reaction(outline)
           free == middle \ planned
           unused == middle \ second
<1>0. DOMAIN outline = 1 .. Len(outline) /\ Len(outline) \in Nat
  OBVIOUS
<1>1. middle \subseteq DOMAIN outline /\ 2 \in middle /\ 3 \in middle /\ 2 # 3
  BY <1>0
<1>2. planned \subseteq DOMAIN outline /\ shifts \subseteq DOMAIN outline
  BY DEF Kinds
<1>3. Pool(outline) = middle
  BY <1>1 DEF Pool
<1>4. second = planned \cup Largest(outline, free, 2 - Cardinality(planned))
  BY <1>3 DEF SecondPerson
<1>5. reaction = IF shifts # {} THEN Earliest(shifts, 2)
                 ELSE Largest(outline, IF unused # {} THEN unused ELSE middle, 1)
  BY <1>3 DEF Reaction
<1>6. IsFiniteSet(DOMAIN outline)
  BY <1>0, FS_Interval
<1>13. free = middle \ planned /\ unused = middle \ second
  OBVIOUS
<1> HIDE DEF middle, planned, shifts, second, reaction, free, unused
<1>7. planned \subseteq second /\ second \subseteq planned \cup middle
  BY <1>4, <1>13 DEF Largest
<1>8. second \subseteq DOMAIN outline /\ IsFiniteSet(second) /\ IsFiniteSet(planned) /\ Cardinality(planned) \in Nat
  <2>1. second \subseteq DOMAIN outline
    BY <1>1, <1>2, <1>7
  <2> QED  BY <1>2, <1>6, <2>1, FS_Subset, FS_CardinalityType
<1>9. \E a, b \in second : a # b
  <2>1. CASE \E a, b \in planned : a # b
    BY <1>7, <2>1
  <2>2. CASE planned = {}
    <3>1. Cardinality(planned) = 0 /\ 2 - Cardinality(planned) = 2 /\ free = middle
      <4>1. Cardinality(planned) = 0
        BY <2>2, FewBefore
      <4> QED  BY <1>13, <2>2, <4>1
    <3>2. \E a, b \in Largest(outline, middle, 2) : a # b
      <4>1. middle \in SUBSET (DOMAIN outline)
        BY <1>1
      <4> QED  BY <1>1, <4>1, LargestFindsTwo
    <3> QED  BY <1>4, <3>1, <3>2
  <2>3. ASSUME NEW d \in planned, planned = {d}  PROVE \E a, b \in second : a # b
    <3>1. 2 - Cardinality(planned) = 1
      <4>1. Cardinality(planned) = 1
        BY <2>3, FS_Singleton
      <4> QED  BY <4>1
    <3>2. free \in SUBSET (DOMAIN outline) /\ free # {}
      BY <1>1, <1>13, <2>3
    <3>3. PICK best \in free : best \in Largest(outline, free, 1)
      BY <3>2, LargestFinds
    <3>4. best \in second /\ d \in second /\ best # d
      BY <1>4, <1>13, <2>3, <3>1, <3>3
    <3> QED  BY <3>4
  <2> QED  BY <2>1, <2>2, <2>3
<1>10. Cardinality(second) >= 2
  <2>1. PICK a \in second, b \in second : a # b
    BY <1>9
  <2> QED  BY <1>8, <2>1, PairCounts
<1>11. /\ reaction # {}
       /\ \/ reaction \subseteq shifts
          \/ reaction \subseteq unused
          \/ reaction \subseteq middle /\ middle \subseteq second
  <2>1. CASE shifts # {}
    <3>1. shifts \in SUBSET Nat
      BY <1>0, <1>2
    <3>2. Earliest(shifts, 2) # {} /\ Earliest(shifts, 2) \subseteq shifts
      BY <2>1, <3>1, EarliestFinds DEF Earliest
    <3> QED  BY <1>5, <2>1, <3>2
  <2>2. CASE shifts = {} /\ unused # {}
    <3>1. unused \in SUBSET (DOMAIN outline)
      BY <1>1, <1>13
    <3>2. Largest(outline, unused, 1) # {} /\ Largest(outline, unused, 1) \subseteq unused
      BY <2>2, <3>1, LargestFinds DEF Largest
    <3> QED  BY <1>5, <2>2, <3>2
  <2>3. CASE shifts = {} /\ unused = {}
    <3>1. middle \in SUBSET (DOMAIN outline) /\ middle # {}
      BY <1>1
    <3>2. Largest(outline, middle, 1) # {} /\ Largest(outline, middle, 1) \subseteq middle
      BY <3>1, LargestFinds DEF Largest
    <3>3. middle \subseteq second
      BY <1>13, <2>3
    <3> QED  BY <1>5, <2>3, <3>2, <3>3
  <2> QED  BY <2>1, <2>2, <2>3
<1>12. reaction \subseteq DOMAIN outline /\ second # {}
  BY <1>1, <1>2, <1>9, <1>11, <1>13
<1>14. \/ reaction \subseteq shifts
       \/ reaction \subseteq middle \ second
       \/ reaction \subseteq middle /\ middle \subseteq second
  BY <1>11, <1>13
<1> QED  BY <1>7, <1>8, <1>10, <1>11, <1>12, <1>14, Zenon DEF middle, planned, shifts, second, reaction

LEMMA DevicesFollow ==
  ASSUME outline \in Seq(PlannedScene), Len(outline) >= 4, devices = Allocated(outline)
  PROVE  DevicesAreCarried
<1> DEFINE middle == 2 .. Len(outline) - 1
           planned == Kinds(outline, {"direct_address"})
           shifts == Kinds(outline, {"tone_shift", "pov_shift"})
           second == SecondPerson(outline)
           reaction == Reaction(outline)
<1>0. DOMAIN outline = 1 .. Len(outline) /\ Len(outline) \in Nat
  OBVIOUS
<1>1. /\ planned \subseteq second /\ second \subseteq planned \cup middle /\ second \subseteq DOMAIN outline
      /\ IsFiniteSet(second) /\ Cardinality(second) >= 2 /\ second # {}
      /\ reaction # {} /\ reaction \subseteq DOMAIN outline
      /\ \/ reaction \subseteq shifts
         \/ reaction \subseteq middle \ second
         \/ reaction \subseteq middle /\ middle \subseteq second
  BY OwnersAre
<1> HIDE DEF second, reaction
<1>2. Min(second) \in second
  <2>1. second \in SUBSET Nat
    BY <1>0, <1>1
  <2> QED  BY <1>1, <2>1, MinIsLeast
<1>3. devices = [i \in DOMAIN outline |-> {device \in Devices : i \in Owners(outline)[device]}]
  BY DEF Allocated
<1>4. Owners(outline) = [dramatic_question |-> {1, Len(outline)}, second_person |-> second,
                         narrator_reaction |-> reaction, hypothetical |-> {Min(second)}]
  BY DEF Owners, second, reaction
<1>5. ASSUME NEW device \in Devices, Owners(outline)[device] \subseteq DOMAIN outline
      PROVE  Carrying(device) = Owners(outline)[device]
  BY <1>3, <1>5 DEF Carrying
<1>6. /\ Carrying("dramatic_question") = {1, Len(outline)}
      /\ Carrying("second_person") = second
      /\ Carrying("narrator_reaction") = reaction
      /\ Carrying("hypothetical") = {Min(second)}
  BY <1>0, <1>1, <1>2, <1>4, <1>5 DEF Devices
<1>7. \A device \in Devices : Carrying(device) # {}
  BY <1>1, <1>6 DEF Devices
<1>8. \A i \in DOMAIN devices : \A device \in Devices : device \in devices[i] <=> i \in Carrying(device)
  BY <1>3 DEF Carrying
<1>9. devices[Len(devices)] # {}
  <2>1. Len(devices) = Len(outline) /\ Len(outline) \in DOMAIN devices
    BY <1>0, <1>3
  <2> QED  BY <1>6, <1>8, <2>1 DEF Devices
<1>10. ASSUME NEW i \in DOMAIN devices, devices[i] = Devices  PROVE FALSE
  <2>1. i \in {1, Len(outline)} /\ i \in second /\ i \in reaction
    BY <1>6, <1>8, <1>10 DEF Devices
  <2>2. i \notin middle
    BY <1>0, <2>1
  <2>3. i \in planned
    BY <1>1, <2>1, <2>2
  <2>4. i \in shifts
    BY <1>1, <2>1, <2>2
  <2> QED  BY <2>3, <2>4 DEF Kinds
<1>11. Cardinality({Min(second)}) = 1
  BY FS_Singleton
<1>12. ASSUME NEW i \in reaction \cap second
       PROVE  outline[i].interrupt \in {"tone_shift", "pov_shift"} \/ middle \subseteq second
  BY <1>1 DEF Kinds
<1> QED  BY <1>1, <1>2, <1>6, <1>7, <1>9, <1>10, <1>11, <1>12 DEF DevicesAreCarried

\* Each promise is kept and told to its scene, the pace and the floor hold,
\* and every device is carried.
LEMMA OutlineFollows == OutlineInv => OutlineIsKept
<1> SUFFICES ASSUME OutlineInv, planning = "written"
             PROVE  PromisesAreKept /\ PaceHolds /\ FloorIsImplied /\ DevicesAreCarried
  BY DEF OutlineIsKept
<1>1. /\ outline \in Seq(PlannedScene) /\ LoopsInOrder(outline) /\ PaceOf(outline)
      /\ LoopsHold(outline) /\ Len(outline) >= 4 /\ devices = Allocated(outline)
      /\ briefs = [i \in DOMAIN outline |-> Owed(outline, i)]
  BY DEF OutlineInv, OutlineHolds
<1>2. PromisesAreKept
  BY <1>1, PromisesFollow
<1>3. PaceHolds
  BY <1>1 DEF PaceOf, PaceHolds
<1>4. FloorIsImplied
  BY <1>1, FloorFollows DEF FloorIsImplied
<1>5. DevicesAreCarried
  BY <1>1, DevicesFollow
<1> QED  BY <1>2, <1>3, <1>4, <1>5

LEMMA OutlineStarts == OutlineInit => OutlineInv
<1> SUFFICES ASSUME OutlineInit  PROVE OutlineInv
  OBVIOUS
<1>1. planning = "none" /\ outline = <<>> /\ Len(outline) = 0 /\ DOMAIN outline = {}
  BY DEF OutlineInit
<1>2. outline \in Seq(PlannedScene)
  BY <1>1
<1>3. LoopsInOrder(outline) /\ PaceOf(outline)
  BY <1>1 DEF LoopsInOrder, PaceOf, MaxQuiet
<1> QED  BY <1>1, <1>2, <1>3 DEF OutlineInv

-----------------------------------------------------------------------------
(* The camera: what each closed scene shows, and that the last was asked.   *)

Moods == {"dread", "clinical", "escalation", "revelation"}
VariedScene(shown) ==
  /\ shown # <<>>
  /\ \A i \in 2 .. Len(shown) : shown[i] # shown[i - 1]
AsAsked(shown, list) ==
  \A i \in DOMAIN shown :
    list[i] \in Archetypes /\ (i = 1 \/ shown[i - 1] # list[i]) => shown[i] = list[i]

CameraInv ==
  /\ mood \in Moods \cup {"none"}
  /\ asked \in Seq(Archetypes \cup {"unknown"})
  /\ film \in Seq(Seq(Archetypes))
  /\ \A s \in DOMAIN film : VariedScene(film[s])
  /\ mood = "none" /\ film # <<>> => AsAsked(film[Len(film)], asked)

\* Every mood has two movements to choose from.
LEMMA MoodsOffer ==
  ASSUME NEW m \in Moods
  PROVE  /\ m \in DOMAIN CameraPreferences
         /\ \A movement : Resolved(movement, m) \in Archetypes
         /\ \A movement \in Archetypes : Resolved(movement, m) = movement
         /\ \A movement : Other(movement, m) \in Archetypes /\ Other(movement, m) # movement
<1>1. m \in DOMAIN CameraPreferences
  BY DEF Moods, CameraPreferences
<1>2. /\ CameraPreferences[m][1] \in Archetypes /\ CameraPreferences[m][2] \in Archetypes
      /\ CameraPreferences[m][1] # CameraPreferences[m][2]
  BY DEF Moods, CameraPreferences, Archetypes
<1>3. ASSUME NEW movement
      PROVE  /\ Resolved(movement, m) \in Archetypes
             /\ movement \in Archetypes => Resolved(movement, m) = movement
             /\ Other(movement, m) \in Archetypes /\ Other(movement, m) # movement
  BY <1>2 DEF Resolved, Other
<1> QED  BY <1>1, <1>3

LEMMA UnlikeVaries ==
  ASSUME NEW m \in Moods, NEW last \in Archetypes, NEW movement \in Archetypes
  PROVE  /\ Unlike(last, movement, m) \in Archetypes
         /\ Unlike(last, movement, m) # last
         /\ movement # last => Unlike(last, movement, m) = movement
BY MoodsOffer DEF Unlike

\* The scene's movements, up to any of its shots, are decided one by one.
Decided(f, list, m, n) ==
  /\ f \in [1 .. n -> Archetypes]
  /\ \A i \in 1 .. n :
       f[i] = IF i = 1 THEN Resolved(list[i], m) ELSE Unlike(f[i - 1], Resolved(list[i], m), m)

LEMMA OneMoreDecided ==
  ASSUME NEW m \in Moods, NEW list, NEW n \in Nat, NEW f, Decided(f, list, m, n)
  PROVE  \E g : Decided(g, list, m, n + 1)
<1> DEFINE next == IF n = 0 THEN Resolved(list[n + 1], m)
                   ELSE Unlike(f[n], Resolved(list[n + 1], m), m)
           g == [i \in 1 .. n + 1 |-> IF i = n + 1 THEN next ELSE f[i]]
<1>1. f \in [1 .. n -> Archetypes]
  BY DEF Decided
<1>2. next \in Archetypes
  <2>1. Resolved(list[n + 1], m) \in Archetypes
    BY MoodsOffer
  <2>2. n # 0 => f[n] \in Archetypes
    BY <1>1
  <2> QED  BY <2>1, <2>2, UnlikeVaries
<1>3. g \in [1 .. n + 1 -> Archetypes] /\ g[n + 1] = next /\ \A i \in 1 .. n : g[i] = f[i]
  BY <1>1, <1>2
<1>4. ASSUME NEW i \in 1 .. n + 1
      PROVE  g[i] = IF i = 1 THEN Resolved(list[i], m) ELSE Unlike(g[i - 1], Resolved(list[i], m), m)
  <2>1. CASE i = n + 1
    <3>1. CASE n = 0
      BY <1>3, <2>1, <3>1
    <3>2. CASE n # 0
      <4>1. i # 1 /\ i - 1 = n /\ g[n] = f[n]
        BY <1>3, <2>1, <3>2
      <4>2. g[i] = Unlike(f[n], Resolved(list[i], m), m)
        BY <1>3, <2>1, <3>2
      <4> QED  BY <4>1, <4>2
    <3> QED  BY <3>1, <3>2
  <2>2. CASE i # n + 1
    <3>1. i \in 1 .. n /\ g[i] = f[i]
      BY <1>3, <2>2
    <3>2. i # 1 => i - 1 \in 1 .. n /\ g[i - 1] = f[i - 1]
      BY <1>3, <3>1
    <3>3. f[i] = IF i = 1 THEN Resolved(list[i], m) ELSE Unlike(f[i - 1], Resolved(list[i], m), m)
      BY <3>1 DEF Decided
    <3>4. CASE i = 1
      BY <3>1, <3>3, <3>4
    <3>5. CASE i # 1
      BY <3>1, <3>2, <3>3, <3>5
    <3> QED  BY <3>4, <3>5
  <2> QED  BY <2>1, <2>2
<1> HIDE DEF g
<1>5. Decided(g, list, m, n + 1)
  BY <1>3, <1>4 DEF Decided
<1> QED  BY <1>5

LEMMA AllDecided ==
  ASSUME NEW m \in Moods, NEW list
  PROVE  \A n \in Nat : \E f : Decided(f, list, m, n)
<1> DEFINE open == {n \in Nat : ~ \E f : Decided(f, list, m, n)}
<1>1. SUFFICES ASSUME open # {}  PROVE FALSE
  OBVIOUS
<1>2. PICK least \in open : \A n \in open : least <= n
  <2>1. open \in SUBSET Nat
    OBVIOUS
  <2> HIDE DEF open
  <2> QED  BY <1>1, <2>1, LeastIsThere
<1>3. CASE least = 0
  <2>1. Decided([i \in 1 .. 0 |-> "locked"], list, m, 0)
    BY DEF Decided, Archetypes
  <2> QED  BY <1>3, <2>1
<1>4. CASE least # 0
  <2>1. least - 1 \in Nat /\ least - 1 \notin open /\ (least - 1) + 1 = least
    BY <1>2, <1>4
  <2>2. PICK f : Decided(f, list, m, least - 1)
    BY <2>1
  <2>3. \E g : Decided(g, list, m, (least - 1) + 1)
    BY <2>1, <2>2, OneMoreDecided
  <2> QED  BY <2>1, <2>3
<1> QED  BY <1>3, <1>4

LEMMA CamerasDecided ==
  ASSUME NEW m \in Moods, NEW list \in Seq(Archetypes \cup {"unknown"})
  PROVE  Decided(CamerasOf(list, m), list, m, Len(list))
<1> DEFINE Taken(f) ==
      f = [i \in DOMAIN list |->
             IF i = 1 THEN Resolved(list[i], m) ELSE Unlike(f[i - 1], Resolved(list[i], m), m)]
<1>1. DOMAIN list = 1 .. Len(list) /\ Len(list) \in Nat
  OBVIOUS
<1>2. PICK f : Decided(f, list, m, Len(list))
  BY <1>1, AllDecided
<1>3. Taken(f)
  BY <1>1, <1>2 DEF Decided
<1>4. Taken(CamerasOf(list, m))
  BY <1>3, Zenon DEF CamerasOf
<1>5. ASSUME NEW g, Taken(g)  PROVE g = f
  <2>0. DOMAIN g = 1 .. Len(list) /\ DOMAIN f = 1 .. Len(list)
    BY <1>1, <1>5, <1>3
  <2> DEFINE apart == {i \in 1 .. Len(list) : g[i] # f[i]}
  <2>1. SUFFICES ASSUME apart # {}  PROVE FALSE
    BY <2>0, <1>3, <1>5, <1>1
  <2>2. PICK least \in apart : \A i \in apart : least <= i
    <3>1. apart \in SUBSET Nat
      OBVIOUS
    <3> HIDE DEF apart
    <3> QED  BY <2>1, <3>1, LeastIsThere
  <2>3. least \in 1 .. Len(list)
    BY <2>2
  <2>4. CASE least = 1
    BY <1>1, <1>3, <1>5, <2>2, <2>3, <2>4
  <2>5. CASE least # 1
    <3>1. least - 1 \in 1 .. Len(list) /\ least - 1 \notin apart
      BY <1>1, <2>2, <2>3, <2>5
    <3>2. g[least - 1] = f[least - 1]
      BY <3>1
    <3>3. f[least] = Unlike(f[least - 1], Resolved(list[least], m), m)
      BY <1>1, <1>3, <2>3, <2>5
    <3>4. g[least] = Unlike(g[least - 1], Resolved(list[least], m), m)
      BY <1>1, <1>5, <2>3, <2>5
    <3>5. g[least] # f[least]
      BY <2>2
    <3> QED  BY <3>2, <3>3, <3>4, <3>5, Zenon
  <2> QED  BY <2>4, <2>5
<1>6. CamerasOf(list, m) = f
  BY <1>4, <1>5
<1> QED  BY <1>2, <1>6

\* A closed scene is varied, and is what it was asked to be where it can be.
LEMMA CamerasHold ==
  ASSUME NEW m \in Moods, NEW list \in Seq(Archetypes \cup {"unknown"}), list # <<>>,
         NEW shown, shown = CamerasOf(list, m)
  PROVE  shown \in Seq(Archetypes) /\ VariedScene(shown) /\ AsAsked(shown, list)
<1>1. Decided(shown, list, m, Len(list))
  BY CamerasDecided
<1>2. /\ Len(list) \in Nat /\ Len(list) > 0
      /\ shown \in [1 .. Len(list) -> Archetypes]
  <2>1. Len(list) \in Nat /\ Len(list) > 0
    OBVIOUS
  <2> QED  BY <1>1, <2>1 DEF Decided
<1>3. /\ shown \in Seq(Archetypes) /\ Len(shown) = Len(list) /\ DOMAIN shown = 1 .. Len(list)
      /\ shown # <<>>
  BY <1>2
<1>4. ASSUME NEW i \in 2 .. Len(shown)
      PROVE  /\ shown[i] # shown[i - 1]
             /\ list[i] \in Archetypes /\ shown[i - 1] # list[i] => shown[i] = list[i]
  <2>1. i \in 1 .. Len(list) /\ i # 1 /\ i - 1 \in 1 .. Len(list)
    BY <1>2, <1>3
  <2>2. shown[i] = Unlike(shown[i - 1], Resolved(list[i], m), m)
    BY <1>1, <2>1 DEF Decided
  <2>3. shown[i - 1] \in Archetypes
    BY <1>2, <2>1
  <2>4. /\ Resolved(list[i], m) \in Archetypes
        /\ list[i] \in Archetypes => Resolved(list[i], m) = list[i]
    BY MoodsOffer
  <2> QED  BY <2>2, <2>3, <2>4, UnlikeVaries
<1>5. list[1] \in Archetypes => shown[1] = list[1]
  <2>1. shown[1] = Resolved(list[1], m)
    BY <1>1, <1>2 DEF Decided
  <2> QED  BY <2>1, MoodsOffer
<1>6. VariedScene(shown)
  BY <1>3, <1>4 DEF VariedScene
<1>7. AsAsked(shown, list)
  <2> SUFFICES ASSUME NEW i \in DOMAIN shown, list[i] \in Archetypes,
                      i = 1 \/ shown[i - 1] # list[i]
               PROVE  shown[i] = list[i]
    BY DEF AsAsked
  <2>1. CASE i = 1
    BY <1>5, <2>1
  <2>2. CASE i # 1
    <3>1. i \in 2 .. Len(shown)
      BY <1>2, <1>3, <2>2
    <3> QED  BY <1>4, <2>2, <3>1
  <2> QED  BY <2>1, <2>2
<1> QED  BY <1>3, <1>6, <1>7

LEMMA CameraKeeps == CameraInv /\ [CameraNext]_cameraVars => CameraInv'
<1> SUFFICES ASSUME CameraInv, [CameraNext]_cameraVars  PROVE CameraInv'
  OBVIOUS
<1>1. ASSUME OpenScene  PROVE CameraInv'
  <2>1. mood' \in Moods /\ mood' # "none" /\ asked' = <<>> /\ film' = film
    BY <1>1 DEF OpenScene, CameraPreferences, Moods
  <2> QED  BY <2>1 DEF CameraInv
<1>2. ASSUME AddShot  PROVE CameraInv'
  <2>1. PICK movement \in Archetypes \cup {"unknown"} : asked' = Append(asked, movement)
    BY <1>2 DEF AddShot
  <2>2. mood' = mood /\ mood # "none" /\ film' = film
    BY <1>2 DEF AddShot
  <2>3. asked' \in Seq(Archetypes \cup {"unknown"})
    BY <2>1 DEF CameraInv
  <2> QED  BY <2>2, <2>3 DEF CameraInv
<1>3. ASSUME CloseScene  PROVE CameraInv'
  <2> DEFINE shown == CamerasOf(asked, mood)
  <2>1. mood \in Moods /\ asked # <<>> /\ asked \in Seq(Archetypes \cup {"unknown"})
    BY <1>3 DEF CloseScene, CameraInv
  <2>2. shown \in Seq(Archetypes) /\ VariedScene(shown) /\ AsAsked(shown, asked)
    BY <2>1, CamerasHold
  <2>3. mood' = "none" /\ asked' = asked /\ film' = Append(film, shown)
    BY <1>3 DEF CloseScene
  <2> HIDE DEF shown
  <2>4. /\ film' \in Seq(Seq(Archetypes)) /\ Len(film') = Len(film) + 1 /\ Len(film) \in Nat
        /\ DOMAIN film' = 1 .. Len(film) + 1 /\ DOMAIN film = 1 .. Len(film)
        /\ \A s \in DOMAIN film : film'[s] = film[s]
        /\ film'[Len(film) + 1] = shown
    <3>1. film \in Seq(Seq(Archetypes))
      BY DEF CameraInv
    <3> QED  BY <2>2, <2>3, <3>1, Appended
  <2>5. ASSUME NEW s \in DOMAIN film'  PROVE VariedScene(film'[s])
    <3>1. CASE s = Len(film) + 1
      BY <2>2, <2>4, <3>1
    <3>2. CASE s # Len(film) + 1
      <4>1. s \in DOMAIN film /\ film'[s] = film[s]
        BY <2>4, <3>2
      <4> QED  BY <4>1 DEF CameraInv
    <3> QED  BY <3>1, <3>2
  <2>6. AsAsked(film'[Len(film')], asked')
    BY <2>2, <2>3, <2>4
  <2>7. mood' \in Moods \cup {"none"} /\ asked' \in Seq(Archetypes \cup {"unknown"})
    BY <2>1, <2>3
  <2> QED  BY <2>4, <2>5, <2>6, <2>7 DEF CameraInv
<1>4. ASSUME UNCHANGED cameraVars  PROVE CameraInv'
  BY <1>4 DEF cameraVars, CameraInv
<1> QED  BY <1>1, <1>2, <1>3, <1>4 DEF CameraNext

LEMMA CameraStarts == CameraInit => CameraInv
BY DEF CameraInit, CameraInv

\* A shot that moves as the one before it is the first of a scene.
LEMMA RepeatsAtCuts ==
  ASSUME CameraInv, film # <<>>
  PROVE  Repeats <= Len(film) - 1
<1> DEFINE repeated ==
             {take \in Takes : Following(take) \in Takes /\ KeyOf(take) = KeyOf(Following(take))}
           last == [s \in 1 .. Len(film) - 1 |-> <<s, Len(film[s])>>]
           cuts == {last[s] : s \in 1 .. Len(film) - 1}
<1>1. /\ film \in Seq(Seq(Archetypes)) /\ Len(film) \in Nat /\ Len(film) >= 1
      /\ DOMAIN film = 1 .. Len(film)
      /\ \A s \in DOMAIN film : film[s] \in Seq(Archetypes) /\ VariedScene(film[s])
  BY DEF CameraInv
<1>2. ASSUME NEW take \in repeated  PROVE take \in cuts
  <2>0. PICK s \in DOMAIN film : take \in {s} \X DOMAIN film[s]
    BY DEF Takes
  <2>1. PICK i \in DOMAIN film[s] : take = <<s, i>>
    BY <2>0
  <2>2. /\ film[s] \in Seq(Archetypes) /\ Len(film[s]) \in Nat /\ i \in 1 .. Len(film[s])
        /\ VariedScene(film[s])
    BY <1>1
  <2>3. CASE i < Len(film[s])
    <3>1. Following(take) = <<s, i + 1>> /\ i + 1 \in 2 .. Len(film[s]) /\ (i + 1) - 1 = i
      BY <2>1, <2>2, <2>3 DEF Following
    <3>2. film[s][i + 1] # film[s][(i + 1) - 1]
      BY <2>2, <3>1 DEF VariedScene
    <3>3. film[s][i] \in Archetypes /\ film[s][i + 1] \in Archetypes
      BY <2>2, <3>1
    <3>4. KeyOf(take) = film[s][i] /\ KeyOf(Following(take)) = film[s][i + 1]
      BY <2>1, <3>1, <3>3 DEF KeyOf, MotionKey
    <3> QED  BY <3>1, <3>2, <3>4
  <2>4. CASE ~ (i < Len(film[s]))
    <3>1. i = Len(film[s]) /\ Following(take) = <<s + 1, 1>>
      BY <2>1, <2>2, <2>4 DEF Following
    <3>2. s + 1 \in DOMAIN film
      <4>1. <<s + 1, 1>> \in Takes
        BY <3>1
      <4> QED  BY <4>1 DEF Takes
    <3>3. s \in 1 .. Len(film) - 1
      BY <1>1, <3>2
    <3>4. last[s] = take
      BY <2>1, <3>1, <3>3
    <3> QED  BY <3>3, <3>4
  <2> QED  BY <2>3, <2>4
<1>3. IsFiniteSet(1 .. Len(film) - 1) /\ Cardinality(1 .. Len(film) - 1) = Len(film) - 1
  <2>1. 1 \in Int /\ Len(film) - 1 \in Int
    BY <1>1
  <2>2. /\ IsFiniteSet(1 .. Len(film) - 1)
        /\ Cardinality(1 .. Len(film) - 1) =
             IF 1 > Len(film) - 1 THEN 0 ELSE (Len(film) - 1) - 1 + 1
    BY <2>1, FS_Interval
  <2> QED  BY <1>1, <2>2
<1>4. last \in Surjection(1 .. Len(film) - 1, cuts)
  BY DEF Surjection
<1>5. repeated \subseteq cuts
  BY <1>2
<1>6. Repeats = Cardinality(repeated)
  BY DEF Repeats
<1> HIDE DEF repeated, last, cuts
<1>7. IsFiniteSet(cuts) /\ Cardinality(cuts) <= Cardinality(1 .. Len(film) - 1)
  BY <1>3, <1>4, FS_Surjection
<1>8. IsFiniteSet(repeated) /\ Cardinality(repeated) <= Cardinality(cuts)
  BY <1>5, <1>7, FS_Subset
<1>9. Cardinality(repeated) \in Nat /\ Cardinality(cuts) \in Nat
  BY <1>7, <1>8, FS_CardinalityType
<1> QED  BY <1>1, <1>3, <1>6, <1>7, <1>8, <1>9

\* Every shot of the run has an archetype, and a scene of two has two.
LEMMA ArchetypesUsed ==
  ASSUME CameraInv, film # <<>>
  PROVE  Cardinality(Used) >= IF \E s \in DOMAIN film : Len(film[s]) > 1 THEN 2 ELSE 1
<1>1. /\ DOMAIN film = 1 .. Len(film) /\ 1 \in DOMAIN film
      /\ \A s \in DOMAIN film : film[s] \in Seq(Archetypes) /\ VariedScene(film[s])
  BY DEF CameraInv
<1>2. ASSUME NEW s \in DOMAIN film, NEW i \in DOMAIN film[s]
      PROVE  film[s][i] \in Used
  <2>1. <<s, i>> \in Takes
    BY DEF Takes
  <2>2. film[s][i] \in Archetypes
    BY <1>1
  <2>3. KeyOf(<<s, i>>) = film[s][i]
    BY <2>2 DEF KeyOf, MotionKey
  <2>4. film[s][i] # "unmapped"
    BY <2>2 DEF Archetypes
  <2> QED  BY <2>1, <2>3, <2>4 DEF Used
<1>3. IsFiniteSet(Used)
  <2>1. Used \subseteq Archetypes
    <3>1. ASSUME NEW take \in Takes  PROVE KeyOf(take) \in Archetypes
      <4>0. PICK s \in DOMAIN film : take \in {s} \X DOMAIN film[s]
        BY DEF Takes
      <4>1. PICK i \in DOMAIN film[s] : take = <<s, i>>
        BY <4>0
      <4>2. film[s][i] \in Archetypes
        BY <1>1
      <4> QED  BY <4>1, <4>2 DEF KeyOf, MotionKey
    <3> QED  BY <3>1 DEF Used
  <2>2. IsFiniteSet(Archetypes)
    <3>1. IsFiniteSet({"push_in"})
      BY FS_Singleton
    <3>2. IsFiniteSet({"push_in"} \cup {"pull_back"})
      BY <3>1, FS_AddElement
    <3>3. IsFiniteSet({"push_in"} \cup {"pull_back"} \cup {"drift"})
      BY <3>2, FS_AddElement
    <3>4. IsFiniteSet({"push_in"} \cup {"pull_back"} \cup {"drift"} \cup {"locked"})
      BY <3>3, FS_AddElement
    <3>5. IsFiniteSet(
            {"push_in"} \cup {"pull_back"} \cup {"drift"} \cup {"locked"} \cup {"shake"})
      BY <3>4, FS_AddElement
    <3>6. Archetypes =
            {"push_in"} \cup {"pull_back"} \cup {"drift"} \cup {"locked"} \cup {"shake"}
      BY DEF Archetypes
    <3> QED  BY <3>5, <3>6
  <2> QED  BY <2>1, <2>2, FS_Subset
<1>4. CASE \E s \in DOMAIN film : Len(film[s]) > 1
  <2>1. PICK s \in DOMAIN film : Len(film[s]) > 1
    BY <1>4
  <2>2. 1 \in DOMAIN film[s] /\ 2 \in DOMAIN film[s] /\ film[s][2] # film[s][1]
    <3>1. film[s] \in Seq(Archetypes) /\ VariedScene(film[s]) /\ 2 - 1 = 1
      BY <1>1
    <3>2. 2 \in 2 .. Len(film[s]) /\ 1 \in DOMAIN film[s] /\ 2 \in DOMAIN film[s]
      BY <2>1, <3>1
    <3>3. film[s][2] # film[s][2 - 1]
      BY <3>1, <3>2 DEF VariedScene
    <3> QED  BY <3>1, <3>2, <3>3
  <2>3. film[s][1] \in Used /\ film[s][2] \in Used
    BY <1>2, <2>2
  <2>4. Cardinality(Used) >= 2
    BY <1>3, <2>2, <2>3, PairCounts
  <2> QED  BY <1>4, <2>4
<1>5. CASE ~ \E s \in DOMAIN film : Len(film[s]) > 1
  <2>1. film[1] \in Seq(Archetypes) /\ VariedScene(film[1])
    BY <1>1
  <2>2. 1 \in DOMAIN film[1]
    BY <2>1 DEF VariedScene
  <2>3. Used # {}
    BY <1>1, <1>2, <2>2
  <2>4. Cardinality(Used) \in Nat /\ Cardinality(Used) # 0
    BY <1>3, <2>3, FS_CardinalityType, FS_EmptySet
  <2>5. Cardinality(Used) >= 1
    BY <2>4
  <2> QED  BY <1>5, <2>5
<1> QED  BY <1>4, <1>5

LEMMA CameraFollows == CameraInv => CamerasVary
<1> SUFFICES ASSUME CameraInv, mood = "none", film # <<>>
             PROVE  LET shown == film[Len(film)]
                    IN /\ \A i \in 2 .. Len(shown) : shown[i] # shown[i - 1]
                       /\ \A i \in DOMAIN shown :
                            asked[i] \in Archetypes /\ (i = 1 \/ shown[i - 1] # asked[i])
                              => shown[i] = asked[i]
                       /\ Repeats <= Len(film) - 1
                       /\ Cardinality(Used) >= IF \E s \in DOMAIN film : Len(film[s]) > 1 THEN 2 ELSE 1
  BY DEF CamerasVary
<1>1. Len(film) \in DOMAIN film
  BY DEF CameraInv
<1>2. VariedScene(film[Len(film)]) /\ AsAsked(film[Len(film)], asked)
  BY <1>1 DEF CameraInv
<1> QED  BY <1>2, RepeatsAtCuts, ArchetypesUsed DEF VariedScene, AsAsked

-----------------------------------------------------------------------------
(* Recursion over 0 .. n: what holds of the first and goes from each to the *)
(* next holds of all, and a function so defined is there.                   *)

LEMMA FromEachToTheNext ==
  ASSUME NEW n \in Nat, NEW P, 0 \in P, \A i \in 1 .. n : i - 1 \in P => i \in P
  PROVE  \A i \in 0 .. n : i \in P
<1> DEFINE open == {i \in 0 .. n : i \notin P}
<1>1. SUFFICES ASSUME open # {}  PROVE FALSE
  OBVIOUS
<1>2. PICK least \in open : \A i \in open : least <= i
  <2>1. open \in SUBSET Nat
    OBVIOUS
  <2> HIDE DEF open
  <2> QED  BY <1>1, <2>1, LeastIsThere
<1>3. least \in 1 .. n
  BY <1>2
<1>4. least - 1 \in 0 .. n /\ least - 1 \notin open
  BY <1>2, <1>3
<1> QED  BY <1>2, <1>3, <1>4

Recurses(f, n, S, base, next) ==
  /\ f \in [0 .. n -> S] /\ f[0] = base
  /\ \A i \in 1 .. n : f[i] = next[i][f[i - 1]]

LEMMA OneMoreAnswered ==
  ASSUME NEW n \in Nat, NEW S, NEW base \in S, NEW next \in [1 .. n -> [S -> S]],
         NEW m \in 1 .. n, NEW f, Recurses(f, m - 1, S, base, next)
  PROVE  \E g : Recurses(g, m, S, base, next)
<1> DEFINE g == [i \in 0 .. m |-> IF i = m THEN next[m][f[m - 1]] ELSE f[i]]
<1>1. f \in [0 .. m - 1 -> S] /\ m - 1 \in 0 .. m - 1
  BY DEF Recurses
<1>2. next[m] \in [S -> S]
  OBVIOUS
<1>3. next[m][f[m - 1]] \in S
  BY <1>1, <1>2
<1>4. g \in [0 .. m -> S]
  BY <1>1, <1>3
<1>5. g[m] = next[m][f[m - 1]] /\ \A i \in 0 .. m - 1 : g[i] = f[i]
  OBVIOUS
<1>6. g[0] = base
  BY <1>5 DEF Recurses
<1>7. ASSUME NEW i \in 1 .. m  PROVE g[i] = next[i][g[i - 1]]
  <2>1. i - 1 \in 0 .. m - 1 /\ g[i - 1] = f[i - 1]
    BY <1>5
  <2>2. CASE i = m
    BY <1>5, <2>1, <2>2
  <2>3. CASE i # m
    <3>1. i \in 1 .. m - 1
      BY <2>3
    <3>2. f[i] = next[i][f[i - 1]] /\ g[i] = f[i]
      BY <1>5, <3>1 DEF Recurses
    <3> QED  BY <2>1, <3>2
  <2> QED  BY <2>2, <2>3
<1> HIDE DEF g
<1> QED  BY <1>4, <1>6, <1>7 DEF Recurses

Steps(n, S) == [1 .. n -> [S -> S]]
LEMMA RecursionIsAnswered ==
  ASSUME NEW n \in Nat, NEW S, NEW base \in S, NEW next \in Steps(n, S)
  PROVE  \E f : Recurses(f, n, S, base, next)
<1> DEFINE P == {m \in 0 .. n : \E f : Recurses(f, m, S, base, next)}
<1>0. next \in [1 .. n -> [S -> S]]
  BY DEF Steps
<1>1. 0 \in P
  <2>1. Recurses([i \in 0 .. 0 |-> base], 0, S, base, next)
    BY DEF Recurses
  <2> QED  BY <2>1
<1>2. ASSUME NEW i \in 1 .. n, i - 1 \in P  PROVE i \in P
  <2>1. PICK f : Recurses(f, i - 1, S, base, next)
    BY <1>2
  <2>2. \E g : Recurses(g, i, S, base, next)
    BY <1>0, <2>1, OneMoreAnswered
  <2> QED  BY <2>2
<1>3. n \in 0 .. n /\ \A i \in 1 .. n : i - 1 \in P => i \in P
  BY <1>2
<1> HIDE DEF P
<1>4. n \in P
  BY <1>1, <1>3, FromEachToTheNext
<1> QED  BY <1>4 DEF P
-----------------------------------------------------------------------------
(* What a division rounded down comes to.                                   *)

LEMMA ProductsGrow ==
  ASSUME NEW k \in Nat, NEW x \in Nat, NEW y \in Nat, x <= y
  PROVE  k * x \in Nat /\ k * y \in Nat /\ k * x <= k * y
<1>1. y = x + (y - x) /\ y - x \in Nat
  OBVIOUS
<1>2. k * (y - x) \in Nat /\ k * x \in Nat /\ k * y \in Nat
  BY <1>1
<1>3. k * y = k * x + k * (y - x)
  OBVIOUS
<1> QED  BY <1>2, <1>3

LEMMA Division ==
  ASSUME NEW a \in Nat, NEW k \in Nat \ {0}
  PROVE  a \div k \in Nat /\ k * (a \div k) <= a /\ a < k * (a \div k) + k
OBVIOUS

LEMMA DivisionIsLeast ==
  ASSUME NEW a \in Nat, NEW k \in Nat \ {0}, NEW c \in Nat
  PROVE  /\ k * c <= a => c <= a \div k
         /\ a < k * c => a \div k < c
<1> DEFINE q == a \div k
<1>1. q \in Nat /\ k * q <= a /\ a < k * q + k
  BY Division
<1> HIDE DEF q
<1>2. k * (q + 1) = k * q + k /\ k * q \in Nat
  BY <1>1
<1>3. ASSUME k * c <= a  PROVE c <= q
  <2>1. SUFFICES ASSUME q + 1 <= c  PROVE FALSE
    BY <1>1
  <2>2. k * (q + 1) <= k * c
    BY <1>1, <2>1, ProductsGrow
  <2>3. k * c \in Nat
    OBVIOUS
  <2> QED  BY <1>1, <1>2, <1>3, <2>2, <2>3
<1>4. ASSUME a < k * c  PROVE q < c
  <2>1. SUFFICES ASSUME c <= q  PROVE FALSE
    BY <1>1
  <2>2. k * c <= k * q
    BY <1>1, <2>1, ProductsGrow
  <2>3. k * c \in Nat
    OBVIOUS
  <2> QED  BY <1>1, <1>2, <1>4, <2>2, <2>3
<1> QED  BY <1>3, <1>4 DEF q

LEMMA DivisionAdds ==
  ASSUME NEW a \in Nat, NEW b \in Nat, NEW k \in Nat \ {0}
  PROVE  a \div k + b \div k <= (a + b) \div k
<1> DEFINE q == a \div k
           r == b \div k
<1>1. q \in Nat /\ k * q <= a /\ r \in Nat /\ k * r <= b
  BY Division
<1> HIDE DEF q, r
<1>2. k * (q + r) = k * q + k * r /\ k * q \in Nat /\ k * r \in Nat
  BY <1>1
<1>3. k * (q + r) <= a + b
  BY <1>1, <1>2
<1>4. q + r <= (a + b) \div k
  BY <1>1, <1>3, DivisionIsLeast
<1> QED  BY <1>4 DEF q, r
-----------------------------------------------------------------------------
(* The words of the sentences.                                              *)

Text == Seq(Nat \ {0}) \ {<<>>}

LEMMA TextIsOfWords ==
  ASSUME NEW text \in Text
  PROVE  /\ Len(text) \in Nat \ {0} /\ DOMAIN text = 1 .. Len(text)
         /\ \A s \in 1 .. Len(text) : text[s] \in Nat \ {0} /\ text[s] \in Nat
<1>1. text \in Seq(Nat \ {0}) /\ text # <<>>
  BY DEF Text
<1>2. Len(text) \in Nat /\ DOMAIN text = 1 .. Len(text) /\ text \in [1 .. Len(text) -> Nat \ {0}]
  BY <1>1
<1>3. Len(text) # 0
  BY <1>1
<1> QED  BY <1>2, <1>3

LEMMA WordsAreCounted ==
  ASSUME NEW text \in Text
  PROVE  /\ Upto(text) \in [0 .. Len(text) -> Nat] /\ Upto(text)[0] = 0
         /\ \A s \in 1 .. Len(text) : Upto(text)[s] = Upto(text)[s - 1] + text[s]
<1> DEFINE n == Len(text)
           Counts(w) == w = [s \in 0 .. n |-> IF s = 0 THEN 0 ELSE w[s - 1] + text[s]]
           next == [s \in 1 .. n |-> [c \in Nat |-> c + text[s]]]
<1>1. n \in Nat /\ \A s \in 1 .. n : text[s] \in Nat
  BY TextIsOfWords
<1>2. next \in [1 .. n -> [Nat -> Nat]] /\ \A s \in 1 .. n : \A c \in Nat : next[s][c] = c + text[s]
  BY <1>1
<1> HIDE DEF next
<1>3. PICK w : Recurses(w, n, Nat, 0, next)
  <2>1. n \in Nat /\ 0 \in Nat /\ next \in Steps(n, Nat)
    BY <1>1, <1>2 DEF Steps
  <2> HIDE DEF n
  <2> QED  BY <2>1, RecursionIsAnswered
<1>4. \A s \in 1 .. n : w[s] = w[s - 1] + text[s]
  <2> TAKE s \in 1 .. n
  <2>1. w \in [0 .. n -> Nat] /\ w[s] = next[s][w[s - 1]]
    BY <1>3 DEF Recurses
  <2>2. s - 1 \in 0 .. n
    BY <1>1
  <2>3. w[s - 1] \in Nat
    BY <2>1, <2>2
  <2> QED  BY <1>2, <2>1, <2>3
<1>5. Counts(w)
  BY <1>1, <1>3, <1>4 DEF Recurses
<1>6. Counts(Upto(text))
  BY <1>5, Zenon DEF Upto
<1>7. DOMAIN Upto(text) = 0 .. n /\ Upto(text)[0] = 0
        /\ \A s \in 1 .. n : Upto(text)[s] = Upto(text)[s - 1] + text[s]
  <2> DEFINE u == Upto(text)
  <2>1. Counts(u)
    BY <1>6
  <2> HIDE DEF u
  <2>2. DOMAIN u = 0 .. n /\ u[0] = 0 /\ \A s \in 1 .. n : u[s] = u[s - 1] + text[s]
    BY <1>1, <2>1
  <2> QED  BY <2>2 DEF u
<1>8. \A s \in 0 .. n : Upto(text)[s] \in Nat
  <2> DEFINE P == {s \in 0 .. n : Upto(text)[s] \in Nat}
  <2>1. 0 \in P
    BY <1>1, <1>7
  <2>2. ASSUME NEW s \in 1 .. n, s - 1 \in P  PROVE s \in P
    BY <1>1, <1>7, <2>2
  <2>3. n \in Nat /\ \A s \in 1 .. n : s - 1 \in P => s \in P
    BY <1>1, <2>2
  <2> HIDE DEF P
  <2>4. \A s \in 0 .. n : s \in P
    BY <2>1, <2>3, FromEachToTheNext
  <2> QED  BY <2>4 DEF P
<1>9. Upto(text) = [s \in 0 .. n |-> Upto(text)[s]]
  BY <1>6, <1>7
<1> QED  BY <1>7, <1>8, <1>9

LEMMA WordsGrow ==
  ASSUME NEW text \in Text, NEW s \in 1 .. Len(text)
  PROVE  /\ Upto(text)[s - 1] + 1 <= Upto(text)[s] /\ Upto(text)[s] <= Words(text)
         /\ Upto(text)[s - 1] \in Nat /\ Upto(text)[s] \in Nat /\ Words(text) \in Nat \ {0}
<1> DEFINE n == Len(text)
           P == {t \in 0 .. n : \A q \in 0 .. t : Upto(text)[q] <= Upto(text)[t]}
<1>1. n \in Nat /\ \A t \in 1 .. n : text[t] \in Nat \ {0}
  BY TextIsOfWords
<1>2. /\ \A t \in 0 .. n : Upto(text)[t] \in Nat
      /\ \A t \in 1 .. n : Upto(text)[t] = Upto(text)[t - 1] + text[t]
  BY WordsAreCounted
<1>3. 0 \in P
  BY <1>1, <1>2
<1>4. ASSUME NEW t \in 1 .. n, t - 1 \in P  PROVE t \in P
  <2>1. SUFFICES ASSUME NEW q \in 0 .. t  PROVE Upto(text)[q] <= Upto(text)[t]
    BY <1>1
  <2>2. Upto(text)[t - 1] \in Nat /\ Upto(text)[t - 1] <= Upto(text)[t] /\ Upto(text)[t] \in Nat
    BY <1>1, <1>2
  <2>3. CASE q = t
    BY <1>1, <1>2, <2>3
  <2>4. CASE q # t
    <3>1. q \in 0 .. t - 1 /\ q \in 0 .. n
      BY <2>4, <1>1
    <3>2. Upto(text)[q] <= Upto(text)[t - 1] /\ Upto(text)[q] \in Nat
      BY <1>2, <1>4, <3>1
    <3> QED  BY <2>2, <3>2
  <2> QED  BY <2>3, <2>4
<1>5. n \in 0 .. n /\ \A t \in 1 .. n : t - 1 \in P => t \in P
  BY <1>1, <1>4
<1> HIDE DEF P
<1>6. n \in P
  BY <1>1, <1>3, <1>5, FromEachToTheNext
<1>7. s \in 1 .. n /\ s \in 0 .. n /\ s - 1 \in 0 .. n
  BY <1>1
<1>8. Upto(text)[s] <= Upto(text)[n]
  BY <1>6, <1>7 DEF P
<1>9. Upto(text)[s] = Upto(text)[s - 1] + text[s] /\ text[s] \in Nat \ {0}
  BY <1>1, <1>2, <1>7
<1> QED  BY <1>1, <1>2, <1>7, <1>8, <1>9 DEF Words
-----------------------------------------------------------------------------
(* Times that follow one another: of words, and of sentences.               *)

Follow(times, n) ==
  /\ times \in [1 .. n -> [from : Nat, till : Nat]]
  /\ \A i \in 1 .. n : /\ times[i].from < times[i].till /\ times[i].till <= D
                       /\ i > 1 => times[i - 1].till <= times[i].from

LEMMA TimesGrow ==
  ASSUME NEW n \in Nat, NEW times, Follow(times, n), NEW j \in 1 .. n, NEW i \in 1 .. j
  PROVE  /\ times[i].till <= times[j].till /\ times[i].from < times[j].till
         /\ i < j => times[i].till <= times[j].from
         /\ times[i].from \in Nat /\ times[i].till \in Nat /\ times[j].from \in Nat /\ times[j].till \in Nat
<1> DEFINE P == {k \in 0 .. n : \A q \in 1 .. k : times[q].till <= times[k].till}
<1>0. \A k \in 1 .. n : /\ times[k].from \in Nat /\ times[k].till \in Nat
                        /\ times[k].from < times[k].till
                        /\ k > 1 => times[k - 1].till <= times[k].from
  BY DEF Follow
<1>1. 0 \in P
  OBVIOUS
<1>2. ASSUME NEW k \in 1 .. n, k - 1 \in P  PROVE k \in P
  <2>1. SUFFICES ASSUME NEW q \in 1 .. k  PROVE times[q].till <= times[k].till
    OBVIOUS
  <2>2. times[k].till \in Nat /\ times[k].from \in Nat /\ times[k].from < times[k].till
    BY <1>0
  <2>3. CASE q = k
    BY <2>2, <2>3
  <2>4. CASE q # k
    <3>1. q \in 1 .. k - 1 /\ q \in 1 .. n /\ k - 1 \in 1 .. n /\ k > 1
      BY <2>4
    <3>2. times[q].till <= times[k - 1].till
      BY <1>2, <3>1
    <3>3. times[k - 1].till <= times[k].from /\ times[k - 1].till \in Nat /\ times[q].till \in Nat
      BY <1>0, <3>1
    <3> QED  BY <2>2, <3>2, <3>3
  <2> QED  BY <2>3, <2>4
<1>3. \A k \in 1 .. n : k - 1 \in P => k \in P
  BY <1>2
<1> HIDE DEF P
<1>4. \A k \in 0 .. n : k \in P
  BY <1>1, <1>3, FromEachToTheNext
<1>5. \A k \in 1 .. n : \A q \in 1 .. k : times[q].till <= times[k].till
  BY <1>4 DEF P
<1>6. i \in 1 .. n /\ times[i].till <= times[j].till
  BY <1>5
<1>7. ASSUME i < j  PROVE times[i].till <= times[j].from
  <2>1. j - 1 \in 1 .. n /\ i \in 1 .. j - 1 /\ j > 1
    BY <1>7
  <2>2. times[i].till <= times[j - 1].till /\ times[j - 1].till <= times[j].from
    BY <1>0, <1>5, <2>1
  <2>3. times[i].till \in Nat /\ times[j - 1].till \in Nat /\ times[j].from \in Nat
    BY <1>0, <1>6, <2>1
  <2> QED  BY <2>2, <2>3
<1> QED  BY <1>0, <1>6, <1>7

LEMMA WindowsFollow ==
  ASSUME NEW text \in Text, NEW times, Follow(times, Words(text))
  PROVE  Follow(Windows(text, times), Len(text))
<1> DEFINE n == Len(text)
           u == Upto(text)
           w == Windows(text, times)
<1>1. n \in Nat
  BY TextIsOfWords
<1>2. ASSUME NEW s \in 1 .. n
      PROVE  /\ u[s - 1] + 1 \in 1 .. Words(text) /\ u[s] \in 1 .. Words(text) /\ u[s - 1] + 1 \in 1 .. u[s]
             /\ Words(text) \in Nat /\ u[s - 1] \in Nat
  BY WordsGrow
<1> HIDE DEF u
<1>3. w = [s \in 1 .. n |-> [from |-> times[u[s - 1] + 1].from, till |-> times[u[s]].till]]
  BY DEF Windows, Sentences, u
<1> HIDE DEF w
<1>4. ASSUME NEW s \in 1 .. n
      PROVE  /\ w[s].from = times[u[s - 1] + 1].from /\ w[s].till = times[u[s]].till
             /\ w[s] \in [from : Nat, till : Nat] /\ w[s].from < w[s].till /\ w[s].till <= D
  <2>1. times[u[s - 1] + 1].from \in Nat /\ times[u[s]].till \in Nat
          /\ times[u[s - 1] + 1].from < times[u[s]].till
    BY <1>2, TimesGrow
  <2>2. times[u[s]].till <= D
    BY <1>2 DEF Follow
  <2>3. w[s] = [from |-> times[u[s - 1] + 1].from, till |-> times[u[s]].till]
    BY <1>3
  <2> QED  BY <2>1, <2>2, <2>3
<1>5. ASSUME NEW s \in 1 .. n, s > 1  PROVE w[s - 1].till <= w[s].from
  <2>1. s - 1 \in 1 .. n
    BY <1>1, <1>5
  <2>2. w[s - 1].till = times[u[s - 1]].till /\ w[s].from = times[u[s - 1] + 1].from
    BY <1>4, <2>1
  <2>3. u[s - 1] \in 1 .. Words(text) /\ u[s - 1] + 1 \in 1 .. Words(text) /\ Words(text) \in Nat
    BY <1>2, <2>1
  <2>4. times[(u[s - 1] + 1) - 1].till <= times[u[s - 1] + 1].from
    BY <2>3 DEF Follow
  <2>5. (u[s - 1] + 1) - 1 = u[s - 1]
    BY <2>3
  <2> QED  BY <2>2, <2>4, <2>5
<1>6. w \in [1 .. n -> [from : Nat, till : Nat]]
  BY <1>3, <1>4
<1>7. Follow(w, n)
  BY <1>4, <1>5, <1>6 DEF Follow
<1> QED  BY <1>7 DEF w
-----------------------------------------------------------------------------
(* The times of the words: spread evenly, or as heard and reconciled.       *)

LEMMA RoundedSteps ==
  ASSUME NEW n \in 1 .. D, NEW p \in Nat
  PROVE  Rounded(p, n) \in Nat /\ Rounded(p, n) < Rounded(p + D, n) /\ Rounded(p + D, n) \in Nat
<1> DEFINE a == 2 * p + n
           b == 2 * D
           k == 2 * n
<1>1. D \in Nat /\ n \in Nat \ {0} /\ n <= D
  BY TimesAreTicks
<1>2. a \in Nat /\ b \in Nat /\ k \in Nat \ {0} /\ k * 1 <= b
  BY <1>1
<1>3. Rounded(p, n) = a \div k /\ Rounded(p + D, n) = (a + b) \div k
  <2>1. 2 * (p + D) + n = a + b
    BY <1>1
  <2> QED  BY <2>1 DEF Rounded
<1> HIDE DEF a, b, k
<1>4. 1 <= b \div k
  BY <1>2, DivisionIsLeast
<1>5. a \div k + b \div k <= (a + b) \div k
  BY <1>2, DivisionAdds
<1>6. a \div k \in Nat /\ b \div k \in Nat
  BY <1>2, Division
<1>7. a + b \in Nat
  BY <1>2
<1>8. (a + b) \div k \in Nat
  BY <1>2, <1>7, Division
<1> QED  BY <1>3, <1>4, <1>5, <1>6, <1>8

LEMMA RoundedEnds ==
  ASSUME NEW n \in 1 .. D, NEW i \in 0 .. n - 1
  PROVE  i * D \in Nat /\ Rounded(i * D, n) < D
<1> DEFINE m == n - 1
           a == 2 * (i * D) + n
           k == 2 * n
<1>1. D \in Nat /\ n \in Nat \ {0} /\ n <= D /\ m \in Nat /\ i \in Nat /\ i <= m /\ n = m + 1 /\ D # 0
  BY TimesAreTicks
<1> HIDE DEF m
<1>2. D * i <= D * m /\ D * i \in Nat /\ D * m \in Nat
  BY <1>1, ProductsGrow
<1>3. i * D = D * i
  BY <1>1
<1>4. D * n = D * m + D
  BY <1>1
<1>5. k * D = 2 * (D * n)
  BY <1>1
<1>6. a \in Nat /\ k \in Nat \ {0} /\ a < k * D
  <2>1. a = 2 * (D * i) + n
    BY <1>3
  <2>2. k * D = 2 * (D * m) + 2 * D
    BY <1>1, <1>2, <1>4, <1>5
  <2> HIDE DEF a
  <2>3. k \in Nat \ {0}
    BY <1>1
  <2> HIDE DEF k
  <2> QED  BY <1>1, <1>2, <2>1, <2>2, <2>3
<1> HIDE DEF a, k
<1>7. a \div k < D
  BY <1>1, <1>6, DivisionIsLeast
<1> QED  BY <1>2, <1>3, <1>7 DEF a, k, Rounded

LEMMA ProvisionalFollows ==
  ASSUME NEW n \in 1 .. D
  PROVE  Follow(Provisional(n), n)
<1> DEFINE times == Provisional(n)
<1>1. D \in Nat /\ n \in Nat /\ n <= D
  BY TimesAreTicks
<1>2. times = [i \in 1 .. n |-> [from |-> Rounded((i - 1) * D, n),
                                 till |-> IF i = n THEN D ELSE Rounded(i * D, n)]]
  BY DEF Provisional
<1> HIDE DEF times
<1>3. ASSUME NEW i \in 1 .. n
      PROVE  /\ times[i].from = Rounded((i - 1) * D, n) /\ times[i].from \in Nat
             /\ times[i].till = (IF i = n THEN D ELSE Rounded(i * D, n)) /\ times[i].till \in Nat
             /\ times[i].from < times[i].till /\ times[i].till <= D
             /\ times[i] \in [from : Nat, till : Nat]
  <2>0. times[i] = [from |-> Rounded((i - 1) * D, n), till |-> IF i = n THEN D ELSE Rounded(i * D, n)]
    BY <1>2
  <2>1. /\ times[i].from = Rounded((i - 1) * D, n)
        /\ times[i].till = IF i = n THEN D ELSE Rounded(i * D, n)
    BY <2>0
  <2>2. i - 1 \in 0 .. n - 1
    BY <1>1
  <2>3. (i - 1) * D \in Nat /\ Rounded((i - 1) * D, n) < D
    BY <2>2, RoundedEnds
  <2>4. (i - 1) * D + D = i * D
    BY <1>1
  <2>5. Rounded((i - 1) * D, n) \in Nat /\ Rounded((i - 1) * D, n) < Rounded(i * D, n) /\ Rounded(i * D, n) \in Nat
    BY <2>3, <2>4, RoundedSteps
  <2>6. i # n => Rounded(i * D, n) < D
    <3>1. i # n => i \in 0 .. n - 1
      BY <1>1
    <3> QED  BY <3>1, RoundedEnds
  <2>7. times[i] \in [from : Nat, till : Nat]
    BY <1>1, <2>0, <2>5
  <2> QED  BY <1>1, <2>1, <2>3, <2>5, <2>6, <2>7
<1>4. ASSUME NEW i \in 1 .. n, i > 1  PROVE times[i - 1].till <= times[i].from
  <2>1. i - 1 \in 1 .. n /\ i - 1 # n
    BY <1>1, <1>4
  <2>2. times[i - 1].till = Rounded((i - 1) * D, n) /\ times[i].from = Rounded((i - 1) * D, n)
    BY <1>3, <2>1
  <2>3. times[i].from \in Nat
    BY <1>3
  <2> QED  BY <2>2, <2>3
<1>5. times \in [1 .. n -> [from : Nat, till : Nat]]
  BY <1>2, <1>3
<1> QED  BY <1>3, <1>4, <1>5 DEF Follow, times
LEMMA PairEnds ==
  ASSUME NEW x \in Int, NEW y \in Int
  PROVE  /\ Max({x, y}) \in Int /\ Max({x, y}) \in {x, y} /\ Max({x, y}) >= x /\ Max({x, y}) >= y
         /\ Min({x, y}) \in Int /\ Min({x, y}) \in {x, y} /\ Min({x, y}) <= x /\ Min({x, y}) <= y
<1>1. \E z \in {x, y} : \A w \in {x, y} : z >= w
  OBVIOUS
<1>2. Max({x, y}) \in {x, y} /\ \A w \in {x, y} : Max({x, y}) >= w
  BY <1>1, Zenon DEF Max
<1>3. \E z \in {x, y} : \A w \in {x, y} : z <= w
  OBVIOUS
<1>4. Min({x, y}) \in {x, y} /\ \A w \in {x, y} : Min({x, y}) <= w
  BY <1>3, Zenon DEF Min
<1> QED  BY <1>2, <1>4

LEMMA FilledIsInTicks ==
  ASSUME NEW n \in Nat, NEW heard \in [1 .. n -> Heard], NEW i \in 1 .. n
  PROVE  Filled(heard)[i].from \in Int /\ Filled(heard)[i].till \in Int
<1>1. Len(heard) = n
  OBVIOUS
<1>2. \A j \in 1 .. n : Known(heard, j) => heard[j].from \in Nat /\ heard[j].till \in Nat
  BY TimesAreTicks DEF Known
<1> DEFINE B == {0} \cup {j \in 1 .. i - 1 : Known(heard, j)}
           A == {n + 1} \cup {j \in i + 1 .. n : Known(heard, j)}
           left == Max(B)
           right == Min(A)
           lo == IF left = 0 THEN 0 ELSE heard[left].till
           hi == IF right = n + 1 THEN D ELSE heard[right].from
           gap == Max({hi - lo, 0})
           share(k) == lo + (gap * k) \div (right - left - 1)
<1>3. Filled(heard)[i] = IF Known(heard, i) THEN heard[i]
                         ELSE [from |-> share(i - left - 1), till |-> share(i - left)]
  BY <1>1 DEF Filled
<1>4. left \in 0 .. i - 1 /\ (left # 0 => left \in 1 .. n /\ Known(heard, left))
  <2>1. i - 1 \in Nat /\ B \in SUBSET (0 .. i - 1) /\ B # {}
    OBVIOUS
  <2>2. left \in B
    <3> HIDE DEF B
    <3> QED  BY <2>1, MaxIsGreatest
  <2> HIDE DEF left
  <2> QED  BY <2>2
<1>5. right \in i + 1 .. n + 1 /\ (right # n + 1 => right \in 1 .. n /\ Known(heard, right))
  <2>1. A \in SUBSET Nat /\ A # {}
    OBVIOUS
  <2>2. right \in A
    <3> HIDE DEF A
    <3> QED  BY <2>1, MinIsLeast
  <2> HIDE DEF right
  <2> QED  BY <2>2
<1> HIDE DEF left, right
<1>6. lo \in Int /\ hi \in Int
  BY <1>2, <1>4, <1>5, TimesAreTicks
<1> HIDE DEF lo, hi
<1>7. gap \in Int /\ right - left - 1 \in Nat \ {0}
  <2>1. hi - lo \in Int /\ 0 \in Int
    BY <1>6
  <2>2. Max({hi - lo, 0}) \in Int
    BY <2>1, PairEnds
  <2> QED  BY <1>4, <1>5, <2>2
<1> HIDE DEF gap
<1>8. \A k \in Int : share(k) \in Int
  <2> TAKE k \in Int
  <2> DEFINE d == right - left - 1
             x == gap * k
  <2>1. x \in Int /\ d \in Nat \ {0}
    BY <1>7
  <2> HIDE DEF d, x
  <2>2. x \div d \in Int
    BY <2>1
  <2> QED  BY <1>6, <2>2 DEF d, x
<1>9. i - left - 1 \in Int /\ i - left \in Int
  BY <1>4
<1> HIDE DEF share
<1>10. share(i - left - 1) \in Int /\ share(i - left) \in Int
  BY <1>8, <1>9
<1> QED  BY <1>2, <1>3, <1>10
\* Whatever was heard, what comes of it follows, or nothing does.
LEMMA ReconciledFollows ==
  ASSUME NEW n \in Nat, NEW heard \in [1 .. n -> Heard], Reconciled(heard) # NoTimings
  PROVE  Follow(Reconciled(heard), n)
<1> DEFINE filled == Filled(heard)
           Times == [from : Nat, till : Nat]
           zero == [from |-> 0, till |-> 0]
           start(i, was) == Max({filled[i].from, was.till})
           end(i) == Min({filled[i].till, D})
           after(i, was) ==
             [from |-> start(i, was),
              till |-> IF end(i) <= start(i, was) THEN Min({start(i, was) + 1, D}) ELSE end(i)]
           Fixed(f) == f = [i \in 0 .. Len(heard) |-> IF i = 0 THEN zero ELSE after(i, f[i - 1])]
           next == [i \in 1 .. n |-> [was \in Times |-> after(i, was)]]
           fixed == CHOOSE f : Fixed(f)
<1>1. Len(heard) = n
  OBVIOUS
<1>2. D \in Nat /\ \A i \in 1 .. n : filled[i].from \in Int /\ filled[i].till \in Int
  BY FilledIsInTicks, TimesAreTicks
<1>3. Reconciled(heard) = IF \E i \in 1 .. Len(heard) : fixed[i].till <= fixed[i].from THEN NoTimings
                          ELSE [i \in 1 .. Len(heard) |-> fixed[i]]
  BY Zenon DEF Reconciled
<1> HIDE DEF filled
<1>4. ASSUME NEW i \in 1 .. n, NEW was \in Times
      PROVE  /\ after(i, was) \in Times /\ after(i, was).till <= D
             /\ was.till <= after(i, was).from
  <2>1. was.till \in Nat /\ filled[i].from \in Int /\ filled[i].till \in Int
    BY <1>2
  <2> DEFINE x == filled[i].from
             y == was.till
             z == filled[i].till
  <2>21. x \in Int /\ y \in Nat /\ z \in Int /\ D \in Nat
    BY <1>2, <2>1
  <2> HIDE DEF x, y, z
  <2>22. y \in Int /\ D \in Int
    BY <2>21
  <2>23. Max({x, y}) \in Int /\ Max({x, y}) >= y /\ Min({z, D}) \in Int /\ Min({z, D}) <= D
    BY <2>21, <2>22, PairEnds
  <2>24. Max({x, y}) \in Nat /\ y <= Max({x, y})
    BY <2>21, <2>23
  <2>2. start(i, was) \in Nat /\ was.till <= start(i, was)
    BY <2>24 DEF x, y
  <2>3. end(i) \in Int /\ end(i) <= D
    BY <2>23 DEF z
  <2> HIDE DEF start, end
  <2>4. start(i, was) + 1 \in Int /\ D \in Int
    BY <1>2, <2>2
  <2>5. Min({start(i, was) + 1, D}) \in {start(i, was) + 1, D} /\ Min({start(i, was) + 1, D}) <= D
    BY <2>4, PairEnds
  <2>6. Min({start(i, was) + 1, D}) \in Nat
    BY <1>2, <2>2, <2>5
  <2> DEFINE m == Min({start(i, was) + 1, D})
             t == IF end(i) <= start(i, was) THEN m ELSE end(i)
  <2>7. m \in Nat /\ m <= D
    BY <2>5, <2>6
  <2> HIDE DEF m
  <2>8. t \in Nat /\ t <= D
    BY <2>2, <2>3, <2>7
  <2>9. after(i, was) = [from |-> start(i, was), till |-> t]
    BY DEF m
  <2> HIDE DEF t, after
  <2> QED  BY <2>2, <2>8, <2>9
<1> HIDE DEF after
<1>5. \E f : Fixed(f)
  <2>1. next \in [1 .. n -> [Times -> Times]]
    <3>1. \A i \in 1 .. n : \A was \in Times : after(i, was) \in Times
      BY <1>4
    <3> HIDE DEF Times
    <3> QED  BY <3>1
  <2>2. \A i \in 1 .. n : \A was \in Times : next[i][was] = after(i, was)
    OBVIOUS
  <2>3. n \in Nat /\ zero \in Times /\ next \in Steps(n, Times)
    BY <2>1 DEF Steps
  <2> HIDE DEF Times, zero, next
  <2>4. PICK f : Recurses(f, n, Times, zero, next)
    BY <2>3, RecursionIsAnswered
  <2>5. f \in [0 .. n -> Times] /\ f[0] = zero /\ \A i \in 1 .. n : f[i] = next[i][f[i - 1]]
    BY <2>4 DEF Recurses
  <2>6. \A i \in 1 .. n : f[i] = after(i, f[i - 1])
    <3> TAKE i \in 1 .. n
    <3>1. i - 1 \in 0 .. n
      OBVIOUS
    <3>2. f[i - 1] \in Times
      BY <2>5, <3>1
    <3> QED  BY <2>2, <2>5, <3>2
  <2>7. Fixed(f)
    BY <1>1, <2>5, <2>6
  <2> QED  BY <2>7
<1>6. Fixed(fixed)
  BY <1>5, Zenon
<1> HIDE DEF fixed
<1>7. DOMAIN fixed = 0 .. n /\ fixed[0] = zero /\ \A i \in 1 .. n : fixed[i] = after(i, fixed[i - 1])
  <2> HIDE DEF zero
  <2> QED  BY <1>1, <1>6
<1>8. \A i \in 0 .. n : fixed[i] \in Times
  <2> DEFINE P == {i \in 0 .. n : fixed[i] \in Times}
  <2>1. 0 \in P
    BY <1>7
  <2>2. ASSUME NEW i \in 1 .. n, i - 1 \in P  PROVE i \in P
    <3>1. fixed[i - 1] \in Times
      BY <2>2
    <3>2. after(i, fixed[i - 1]) \in Times
      BY <3>1, <1>4
    <3>3. fixed[i] \in Times
      BY <1>7, <3>2
    <3> HIDE DEF Times
    <3> QED  BY <3>3
  <2>3. \A i \in 1 .. n : i - 1 \in P => i \in P
    BY <2>2
  <2> HIDE DEF P
  <2>4. \A i \in 0 .. n : i \in P
    BY <2>1, <2>3, FromEachToTheNext
  <2> QED  BY <2>4 DEF P
<1>9. Reconciled(heard) = [i \in 1 .. n |-> fixed[i]]
        /\ \A i \in 1 .. n : ~ fixed[i].till <= fixed[i].from
  BY <1>1, <1>3
<1> DEFINE times == Reconciled(heard)
<1>10. \A i \in 1 .. n : times[i] = fixed[i] /\ times[i] \in Times
  BY <1>8, <1>9
<1>11. times \in [1 .. n -> Times]
  <2> HIDE DEF Times
  <2> QED  BY <1>9, <1>10
<1> HIDE DEF times
<1>12. ASSUME NEW i \in 1 .. n
       PROVE  /\ times[i].from < times[i].till /\ times[i].till <= D
              /\ i > 1 => times[i - 1].till <= times[i].from
  <2>1. i - 1 \in 0 .. n /\ (i > 1 => i - 1 \in 1 .. n)
    OBVIOUS
  <2>2. fixed[i - 1] \in Times /\ fixed[i] \in Times /\ fixed[i] = after(i, fixed[i - 1])
    BY <1>7, <1>8, <2>1
  <2>3. fixed[i].till <= D
    BY <1>4, <2>2
  <2>4. fixed[i - 1].till <= fixed[i].from
    BY <1>4, <2>2
  <2>5. ~ fixed[i].till <= fixed[i].from /\ fixed[i].till \in Nat /\ fixed[i].from \in Nat
    BY <1>9, <2>2
  <2>6. times[i] = fixed[i] /\ (i > 1 => times[i - 1] = fixed[i - 1])
    BY <1>10, <2>1
  <2> QED  BY <2>3, <2>4, <2>5, <2>6
<1> QED  BY <1>11, <1>12 DEF Follow, times
-----------------------------------------------------------------------------
(* The shots come in the order of the story.                                *)

Shot == [first : Nat \ {0}, last : Nat]
InStory(list) ==
  list \in Seq(Shot) /\ \A i \in 2 .. Len(list) : list[i - 1].first <= list[i].first

LEMMA ListsAreSequences ==
  ASSUME NEW n \in Nat, NEW S, NEW list \in [1 .. n -> S]
  PROVE  list \in Seq(S) /\ Len(list) = n
OBVIOUS

Widened(was, panel) ==
  [was EXCEPT ![Len(was)].first = Min({@, panel.first}), ![Len(was)].last = Max({@, panel.last})]
LEMMA ShotSetAnew ==
  ASSUME NEW f, NEW l, NEW low, NEW high
  PROVE  [[[first |-> f, last |-> l] EXCEPT !.first = low] EXCEPT !.last = high]
           = [first |-> low, last |-> high]
<1>1. [[first |-> f, last |-> l] EXCEPT !.first = low] = [first |-> low, last |-> l]
  OBVIOUS
<1>2. [[first |-> low, last |-> l] EXCEPT !.last = high] = [first |-> low, last |-> high]
  OBVIOUS
<1> QED  BY <1>1, <1>2, Zenon

LEMMA WidenedIsOfShots ==
  ASSUME NEW was \in Seq(Shot), was # <<>>, NEW panel \in Shot
  PROVE  /\ Widened(was, panel) \in Seq(Shot) /\ Len(Widened(was, panel)) = Len(was)
         /\ \A i \in 1 .. Len(was) : i # Len(was) => Widened(was, panel)[i] = was[i]
         /\ was[Len(was)].first <= panel.first =>
              Widened(was, panel)[Len(was)].first = was[Len(was)].first
<1> DEFINE wider == Widened(was, panel)
           n == Len(was)
           end == was[n]
           low == Min({end.first, panel.first})
           high == Max({end.last, panel.last})
           new == [first |-> low, last |-> high]
<1>1. n \in Nat \ {0} /\ DOMAIN was = 1 .. n /\ was \in [1 .. n -> Shot] /\ n \in 1 .. n
  OBVIOUS
<1>2. end \in Shot
  BY <1>1
<1>3. end.first \in Nat \ {0} /\ end.last \in Nat /\ panel.first \in Nat \ {0} /\ panel.last \in Nat
  BY <1>2 DEF Shot
<1> HIDE DEF end
<1>4. low \in Nat \ {0} /\ high \in Nat /\ (end.first <= panel.first => low = end.first)
  <2> DEFINE a == end.first
             b == panel.first
             c == end.last
             d == panel.last
  <2>1. a \in Int /\ b \in Int /\ c \in Int /\ d \in Int
          /\ a \in Nat \ {0} /\ b \in Nat \ {0} /\ c \in Nat /\ d \in Nat
    BY <1>3
  <2> HIDE DEF a, b, c, d
  <2>2. Min({a, b}) \in {a, b} /\ Min({a, b}) <= a /\ Max({c, d}) \in {c, d}
    BY <2>1, PairEnds
  <2>3. Min({a, b}) \in Nat \ {0} /\ Max({c, d}) \in Nat /\ (a <= b => Min({a, b}) = a)
    BY <2>1, <2>2
  <2> QED  BY <2>3 DEF a, b, c, d
<1>5. wider = [was EXCEPT ![n] = new]
  <2>1. PICK f \in Nat, l \in Nat : end = [first |-> f, last |-> l]
    BY <1>2 DEF Shot
  <2> HIDE DEF low, high
  <2>2. [[end EXCEPT !.first = low] EXCEPT !.last = high] = new
    BY <2>1, ShotSetAnew
  <2>3. [[was EXCEPT ![n] = [was[n] EXCEPT !.first = low]] EXCEPT
           ![n] = [[was EXCEPT ![n] = [was[n] EXCEPT !.first = low]][n] EXCEPT !.last = high]]
          = [was EXCEPT ![n] = [[was[n] EXCEPT !.first = low] EXCEPT !.last = high]]
    BY <1>1
  <2>4. wider = [was EXCEPT ![n] = [[was[n] EXCEPT !.first = low] EXCEPT !.last = high]]
    BY <2>3 DEF low, high, end, Widened
  <2> QED  BY <2>2, <2>4 DEF end
<1> HIDE DEF low, high, wider
<1>6. new \in Shot /\ new.first = low
  BY <1>4 DEF Shot
<1> HIDE DEF new
<1>7. wider \in [1 .. n -> Shot] /\ wider[n] = new /\ \A i \in 1 .. n : i # n => wider[i] = was[i]
  BY <1>1, <1>5, <1>6
<1>8. wider \in Seq(Shot) /\ Len(wider) = n
  <2> HIDE DEF n
  <2> QED  BY <1>1, <1>7, ListsAreSequences
<1>9. end.first <= panel.first => wider[n].first = end.first
  BY <1>4, <1>6, <1>7
<1> QED  BY <1>7, <1>8, <1>9 DEF end, wider

LEMMA WidenedKeeps ==
  ASSUME NEW was, InStory(was), was # <<>>, NEW panel \in Shot,
         was[Len(was)].first <= panel.first
  PROVE  /\ InStory(Widened(was, panel)) /\ Widened(was, panel) # <<>>
         /\ Widened(was, panel)[Len(Widened(was, panel))].first <= panel.first
<1> DEFINE wider == Widened(was, panel)
           n == Len(was)
<1>1. was \in Seq(Shot) /\ n \in Nat \ {0}
  BY DEF InStory
<1>2. /\ wider \in Seq(Shot) /\ Len(wider) = n
      /\ \A i \in 1 .. n : i # n => wider[i] = was[i]
      /\ wider[n].first = was[n].first
  BY <1>1, WidenedIsOfShots
<1> HIDE DEF wider
<1>3. \A i \in 1 .. n : wider[i].first = was[i].first
  BY <1>2
<1>4. \A i \in 2 .. n : wider[i - 1].first <= wider[i].first
  <2> TAKE i \in 2 .. n
  <2>1. i \in 1 .. n /\ i - 1 \in 1 .. n
    BY <1>1
  <2> QED  BY <1>3, <2>1 DEF InStory
<1>5. wider # <<>>
  BY <1>1, <1>2
<1> QED  BY <1>2, <1>4, <1>5 DEF InStory, wider

LEMMA AddedKeeps ==
  ASSUME NEW was, InStory(was), NEW panel \in Shot,
         was # <<>> => was[Len(was)].first <= panel.first, NEW longer, longer = Append(was, panel)
  PROVE  InStory(longer) /\ longer # <<>> /\ longer[Len(longer)].first <= panel.first
<1> DEFINE n == Len(was)
<1>1. n \in Nat /\ DOMAIN was = 1 .. n /\ was \in Seq(Shot)
  BY DEF InStory
<1>2. longer \in Seq(Shot) /\ Len(longer) = n + 1 /\ longer[n + 1] = panel /\ \A i \in 1 .. n : longer[i] = was[i]
  BY <1>1
<1>3. ASSUME NEW i \in 2 .. n + 1  PROVE longer[i - 1].first <= longer[i].first
  <2>1. CASE i = n + 1
    <3>1. i - 1 = n /\ n \in 1 .. n /\ was # <<>>
      BY <1>1, <2>1
    <3> QED  BY <1>2, <2>1, <3>1
  <2>2. CASE i # n + 1
    <3>1. i \in 2 .. n /\ i \in 1 .. n /\ i - 1 \in 1 .. n
      BY <1>1, <2>2
    <3> QED  BY <1>2, <3>1 DEF InStory
  <2> QED  BY <2>1, <2>2
<1>4. panel.first <= panel.first
  BY DEF Shot
<1>5. longer # <<>>
  BY <1>1, <1>2
<1> QED  BY <1>2, <1>3, <1>4, <1>5 DEF InStory

LEMMA CoversAreShots ==
  ASSUME NEW n \in Nat, NEW cover \in Covers(n)
  PROVE  /\ Len(cover) \in 1 .. n /\ DOMAIN cover = 1 .. Len(cover)
         /\ \A i \in 1 .. Len(cover) : cover[i] \in Shot
         /\ \A i \in 2 .. Len(cover) : cover[i - 1].first <= cover[i].first
<1>1. PICK k \in 1 .. n : cover \in [1 .. k -> [first : 1 .. n, last : 1 .. n]]
  BY Zenon DEF Covers
<1>2. Len(cover) = k /\ DOMAIN cover = 1 .. k
  BY <1>1
<1>3. \A i \in DOMAIN cover \ {1} : cover[i - 1].first <= cover[i].first
  BY DEF Covers
<1>4. \A i \in 1 .. k : cover[i] \in Shot
  <2> TAKE i \in 1 .. k
  <2>1. cover[i] \in [first : 1 .. n, last : 1 .. n]
    BY <1>1
  <2> QED  BY <2>1 DEF Shot
<1>5. \A i \in 2 .. k : cover[i - 1].first <= cover[i].first
  <2> TAKE i \in 2 .. k
  <2>1. i \in DOMAIN cover \ {1}
    BY <1>2
  <2> QED  BY <1>3, <2>1
<1> HIDE <1>3
<1> QED  BY <1>2, <1>4, <1>5

LEMMA PromptedInStory ==
  ASSUME NEW n \in Nat, NEW cover \in Covers(n), NEW empty
  PROVE  InStory(Prompted(cover, empty))
<1> DEFINE k == Len(cover)
           after(i, was) == IF i \in empty /\ was # <<>> THEN Widened(was, cover[i]) ELSE Append(was, cover[i])
           Built(f) == f = [i \in 0 .. k |-> IF i = 0 THEN <<>> ELSE after(i, f[i - 1])]
           built == CHOOSE f : Built(f)
           next == [i \in 1 .. k |-> [was \in Seq(Shot) |-> after(i, was)]]
<1>1. /\ k \in Nat /\ \A i \in 1 .. k : cover[i] \in Shot
      /\ \A i \in 2 .. k : cover[i - 1].first <= cover[i].first
  BY CoversAreShots
<1>2. Prompted(cover, empty) = built[k]
  BY Zenon DEF Prompted, Widened
<1> HIDE DEF k
<1>3. ASSUME NEW i \in 1 .. k, NEW was \in Seq(Shot)  PROVE after(i, was) \in Seq(Shot)
  <2> DEFINE panel == cover[i]
  <2>1. panel \in Shot
    BY <1>1
  <2> HIDE DEF panel
  <2>2. was # <<>> => Widened(was, panel) \in Seq(Shot)
    BY <2>1, WidenedIsOfShots
  <2>3. Append(was, panel) \in Seq(Shot)
    BY <2>1
  <2> QED  BY <2>2, <2>3 DEF panel
<1>4. \E f : Built(f)
  <2>1. next \in [1 .. k -> [Seq(Shot) -> Seq(Shot)]]
    BY <1>3
  <2>2. \A i \in 1 .. k : \A was \in Seq(Shot) : next[i][was] = after(i, was)
    OBVIOUS
  <2>3. k \in Nat /\ <<>> \in Seq(Shot) /\ next \in Steps(k, Seq(Shot))
    BY <1>1, <2>1 DEF Steps
  <2> HIDE DEF next, after
  <2>4. PICK f : Recurses(f, k, Seq(Shot), <<>>, next)
    BY <2>3, RecursionIsAnswered
  <2>5. f \in [0 .. k -> Seq(Shot)] /\ f[0] = <<>> /\ \A i \in 1 .. k : f[i] = next[i][f[i - 1]]
    BY <2>4 DEF Recurses
  <2>6. \A i \in 1 .. k : f[i] = after(i, f[i - 1])
    <3> TAKE i \in 1 .. k
    <3>1. i - 1 \in 0 .. k
      BY <1>1
    <3>2. f[i - 1] \in Seq(Shot)
      BY <2>5, <3>1
    <3> QED  BY <2>2, <2>5, <3>2
  <2>7. Built(f)
    BY <1>1, <2>5, <2>6
  <2> QED  BY <2>7
<1>5. Built(built)
  BY <1>4, Zenon
<1> HIDE DEF built
<1>6. built[0] = <<>> /\ \A i \in 1 .. k : built[i] = after(i, built[i - 1])
  <2> HIDE DEF after
  <2> QED  BY <1>1, <1>5
<1> DEFINE Fits(i, was) == /\ InStory(was)
                           /\ was # <<>> => i \in 1 .. k /\ was[Len(was)].first <= cover[i].first
           P == {i \in 0 .. k : Fits(i, built[i])}
<1>7. 0 \in P
  <2>1. <<>> \in Seq(Shot) /\ Len(<<>>) = 0
    OBVIOUS
  <2>2. InStory(<<>>)
    BY <2>1 DEF InStory
  <2> QED  BY <1>1, <1>6, <2>2
<1>8. ASSUME NEW i \in 1 .. k, i - 1 \in P  PROVE i \in P
  <2> DEFINE was == built[i - 1]
  <2>1. Fits(i - 1, was) /\ built[i] = after(i, was) /\ cover[i] \in Shot
    BY <1>1, <1>6, <1>8
  <2> HIDE DEF was
  <2>2. was # <<>> => was[Len(was)].first <= cover[i].first
    <3> SUFFICES ASSUME was # <<>>  PROVE was[Len(was)].first <= cover[i].first
      OBVIOUS
    <3>1. i - 1 \in 1 .. k /\ was[Len(was)].first <= cover[i - 1].first
      BY <2>1
    <3>2. i \in 2 .. k
      BY <1>1, <3>1
    <3>3. cover[i - 1].first <= cover[i].first /\ cover[i - 1] \in Shot
      BY <1>1, <3>1, <3>2
    <3>4. was[Len(was)] \in Shot
      BY <2>1 DEF InStory
    <3>5. was[Len(was)].first \in Nat /\ cover[i - 1].first \in Nat /\ cover[i].first \in Nat
      BY <2>1, <3>3, <3>4 DEF Shot
    <3> QED  BY <3>1, <3>3, <3>5
  <2>3. InStory(was)
    BY <2>1
  <2>4. InStory(after(i, was)) /\ after(i, was) # <<>> /\ after(i, was)[Len(after(i, was))].first <= cover[i].first
    <3>1. CASE i \in empty /\ was # <<>>
      BY <2>1, <2>2, <2>3, <3>1, WidenedKeeps
    <3>2. CASE ~ (i \in empty /\ was # <<>>)
      BY <2>1, <2>2, <2>3, <3>2, AddedKeeps
    <3> QED  BY <3>1, <3>2
  <2> HIDE DEF after
  <2>5. built[i] = after(i, was)
    BY <2>1
  <2>6. InStory(built[i]) /\ built[i] # <<>> /\ built[i][Len(built[i])].first <= cover[i].first
    BY <2>4, <2>5
  <2>7. Fits(i, built[i])
    BY <2>6, <1>8
  <2>8. i \in 0 .. k
    BY <1>1, <1>8
  <2> HIDE DEF Fits
  <2> QED  BY <2>7, <2>8
<1> HIDE DEF P
<1>9. k \in 0 .. k /\ \A i \in 1 .. k : i - 1 \in P => i \in P
  BY <1>1, <1>8
<1>10. k \in P
  BY <1>1, <1>7, <1>9, FromEachToTheNext
<1> QED  BY <1>2, <1>10 DEF P
-----------------------------------------------------------------------------
(* The shots that are kept, and where they start.                           *)

LEMMA FirstsGrow ==
  ASSUME NEW list, InStory(list), NEW j \in 1 .. Len(list), NEW i \in 1 .. j
  PROVE  list[i].first <= list[j].first /\ list[i].first \in Nat \ {0} /\ list[j].first \in Nat \ {0}
<1> DEFINE n == Len(list)
           P == {k \in 0 .. n : \A q \in 1 .. k : list[q].first <= list[k].first}
<1>0. n \in Nat /\ \A k \in 1 .. n : list[k].first \in Nat \ {0}
  <2>1. n \in Nat /\ \A k \in 1 .. n : list[k] \in Shot
    BY DEF InStory
  <2> QED  BY <2>1 DEF Shot
<1>1. 0 \in P
  BY <1>0
<1>2. ASSUME NEW k \in 1 .. n, k - 1 \in P  PROVE k \in P
  <2>1. SUFFICES ASSUME NEW q \in 1 .. k  PROVE list[q].first <= list[k].first
    BY <1>0
  <2>2. CASE q = k
    BY <1>0, <2>2
  <2>3. CASE q # k
    <3>1. q \in 1 .. k - 1 /\ q \in 1 .. n /\ k \in 2 .. n /\ k - 1 \in 1 .. n
      BY <1>0, <2>3
    <3>2. list[q].first <= list[k - 1].first
      BY <1>2, <3>1
    <3>3. list[k - 1].first <= list[k].first
      BY <3>1 DEF InStory
    <3>4. list[q].first \in Nat /\ list[k - 1].first \in Nat /\ list[k].first \in Nat
      BY <1>0, <3>1
    <3> QED  BY <3>2, <3>3, <3>4
  <2> QED  BY <2>2, <2>3
<1>3. \A k \in 1 .. n : k - 1 \in P => k \in P
  BY <1>2
<1>4. j \in 0 .. n /\ i \in 1 .. n
  BY <1>0
<1> HIDE DEF P
<1>5. j \in P
  BY <1>0, <1>1, <1>3, <1>4, FromEachToTheNext
<1> QED  BY <1>0, <1>4, <1>5 DEF P

LEMMA KeptIsAPrefix ==
  ASSUME NEW text \in Text, NEW list, InStory(list)
  PROVE  \E m \in 0 .. Len(list) : Kept(text, list) = 1 .. m
<1> DEFINE n == Len(list)
           kept == Kept(text, list)
<1>1. n \in Nat /\ DOMAIN list = 1 .. n /\ Len(text) \in Nat
  BY TextIsOfWords DEF InStory
<1>2. kept = {i \in 1 .. n : list[i].first <= Len(text)}
  BY <1>1 DEF Kept
<1> HIDE DEF kept
<1>3. CASE kept = {}
  <2>1. 0 \in 0 .. n /\ kept = 1 .. 0
    BY <1>1, <1>3
  <2> QED  BY <2>1 DEF kept
<1>4. CASE kept # {}
  <2>1. kept \in SUBSET (0 .. n)
    BY <1>1, <1>2
  <2>2. PICK m \in kept : \A i \in kept : m >= i
    BY <1>1, <1>4, <2>1, GreatestIsThere
  <2>3. m \in 1 .. n /\ list[m].first <= Len(text)
    BY <1>2, <2>2
  <2>4. ASSUME NEW i \in 1 .. m  PROVE i \in kept
    <3>1. list[i].first <= list[m].first /\ list[i].first \in Nat /\ list[m].first \in Nat /\ i \in 1 .. n
      BY <2>3, FirstsGrow
    <3> QED  BY <1>1, <1>2, <2>3, <3>1
  <2>5. \A i \in kept : i \in 1 .. m
    BY <1>1, <1>2, <2>2, <2>3
  <2>6. kept = 1 .. m
    BY <2>4, <2>5
  <2>7. m \in 0 .. n
    BY <2>3
  <2> QED  BY <2>6, <2>7 DEF kept
<1> QED  BY <1>3, <1>4
LEMMA SharesOfAWindow ==
  ASSUME NEW W \in Nat \ {0}, NEW k \in Nat \ {0}, NEW p \in Nat, p + 1 <= k
  PROVE  /\ (W * p) \div k \in Nat /\ (W * p) \div k < W
         /\ W \div k \in Nat /\ (W * (p + 1)) \div k \in Nat
         /\ (W * p) \div k + W \div k <= (W * (p + 1)) \div k
         /\ (W * (p + 1)) \div k <= W
<1> DEFINE a == W * p
           b == W * (p + 1)
<1>1. a \in Nat /\ b \in Nat /\ b = a + W /\ W \in Nat
  OBVIOUS
<1>2. W * (p + 1) <= W * k
  BY ProductsGrow
<1>3. W * k = k * W /\ k * (W + 1) = k * W + k /\ k * W \in Nat
  OBVIOUS
<1>4. b <= k * W
  BY <1>2, <1>3
<1> HIDE DEF a, b
<1>5. a < k * W /\ b < k * (W + 1) /\ W + 1 \in Nat
  BY <1>1, <1>3, <1>4
<1>6. a \div k < W /\ b \div k < W + 1
  BY <1>1, <1>5, DivisionIsLeast
<1>7. a \div k \in Nat /\ b \div k \in Nat /\ W \div k \in Nat
  BY <1>1, Division
<1>8. a \div k + W \div k <= (a + W) \div k
  BY <1>1, DivisionAdds
<1> QED  BY <1>1, <1>6, <1>7, <1>8 DEF a, b

Alike(list, m, i) == {j \in 1 .. m : list[j].first = list[i].first}
Ahead(list, m, i) == {j \in Alike(list, m, i) : j < i}
WindowOf(list, w, i) == w[list[i].first]
Share(list, m, w, i) ==
  (WindowOf(list, w, i).till - WindowOf(list, w, i).from) \div Cardinality(Alike(list, m, i))
BeginsAt(list, m, w, i) == Start(list, 1 .. m, w, i)

LEMMA AlikeAreCounted ==
  ASSUME NEW list, NEW m \in Nat, NEW i \in 1 .. m
  PROVE  /\ Cardinality(Alike(list, m, i)) \in Nat \ {0} /\ Cardinality(Ahead(list, m, i)) \in Nat
         /\ Cardinality(Ahead(list, m, i)) + 1 <= Cardinality(Alike(list, m, i))
         /\ i < m /\ list[i + 1].first = list[i].first =>
              /\ Alike(list, m, i + 1) = Alike(list, m, i)
              /\ Cardinality(Ahead(list, m, i + 1)) = Cardinality(Ahead(list, m, i)) + 1
<1> DEFINE A == Alike(list, m, i)
           B == Ahead(list, m, i)
<1>1. IsFiniteSet(1 .. m)
  BY FS_Interval
<1>2. A \in SUBSET (1 .. m) /\ B \in SUBSET A /\ i \in A /\ i \notin B
  BY DEF Alike, Ahead
<1>4. i < m /\ list[i + 1].first = list[i].first =>
        Alike(list, m, i + 1) = A /\ Ahead(list, m, i + 1) = B \cup {i}
  <2> SUFFICES ASSUME i < m, list[i + 1].first = list[i].first
               PROVE  Alike(list, m, i + 1) = A /\ Ahead(list, m, i + 1) = B \cup {i}
    OBVIOUS
  <2>1. Alike(list, m, i + 1) = A
    BY DEF Alike
  <2>2. \A j \in A : j \in Nat /\ (j < i + 1 <=> j < i \/ j = i)
    BY <1>2
  <2>3. Ahead(list, m, i + 1) = {j \in A : j < i + 1} /\ B = {j \in A : j < i}
    BY <2>1 DEF Ahead
  <2> HIDE DEF A, B
  <2>4. Ahead(list, m, i + 1) = B \cup {i}
    BY <2>2, <2>3, <1>2
  <2> QED  BY <2>1, <2>4
<1> HIDE DEF A, B
<1>5. IsFiniteSet(A)
  BY <1>1, <1>2, FS_Subset
<1>6. IsFiniteSet(B)
  BY <1>2, <1>5, FS_Subset
<1>7. Cardinality(B \cup {i}) = Cardinality(B) + 1 /\ IsFiniteSet(B \cup {i})
  BY <1>2, <1>6, FS_AddElement
<1>8. Cardinality(B \cup {i}) <= Cardinality(A)
  <2>1. B \cup {i} \in SUBSET A
    BY <1>2
  <2> QED  BY <1>5, <2>1, FS_Subset
<1>9. Cardinality(A) \in Nat /\ Cardinality(B) \in Nat
  BY <1>5, <1>6, FS_CardinalityType
<1> QED  BY <1>4, <1>7, <1>8, <1>9 DEF A, B

LEMMA StartsFollow ==
  ASSUME NEW T \in Nat, NEW w, Follow(w, T), NEW list, InStory(list), NEW m \in 0 .. Len(list),
         \A j \in 1 .. m : list[j].first \in 1 .. T, NEW i \in 1 .. m
  PROVE  /\ BeginsAt(list, m, w, i) \in Nat /\ Share(list, m, w, i) \in Nat
         /\ WindowOf(list, w, i).from <= BeginsAt(list, m, w, i)
         /\ BeginsAt(list, m, w, i) < WindowOf(list, w, i).till
         /\ BeginsAt(list, m, w, i) + Share(list, m, w, i) <= D
         /\ i < m => /\ BeginsAt(list, m, w, i) + Share(list, m, w, i) <= BeginsAt(list, m, w, i + 1)
                     /\ BeginsAt(list, m, w, i + 1) \in Nat
<1>0. m \in Nat /\ D \in Nat /\ Len(list) \in Nat /\ m <= Len(list)
  BY TimesAreTicks DEF InStory
<1> DEFINE s(j) == BeginsAt(list, m, w, j)
           v(j) == WindowOf(list, w, j)
           W(j) == v(j).till - v(j).from
           k(j) == Cardinality(Alike(list, m, j))
           p(j) == Cardinality(Ahead(list, m, j))
<1>1. \A j \in 1 .. m : s(j) = v(j).from + (W(j) * p(j)) \div k(j)
  BY DEF BeginsAt, Start, WindowOf, Alike, Ahead
<1>2. ASSUME NEW j \in 1 .. m
      PROVE  v(j).from \in Nat /\ v(j).till \in Nat /\ W(j) \in Nat \ {0} /\ v(j).till <= D
  <2>1. list[j].first \in 1 .. T
    OBVIOUS
  <2>2. w[list[j].first].from \in Nat /\ w[list[j].first].till \in Nat
    BY <2>1 DEF Follow
  <2>3. w[list[j].first].from < w[list[j].first].till /\ w[list[j].first].till <= D
    BY <2>1 DEF Follow
  <2> QED  BY <2>2, <2>3 DEF WindowOf
<1>3. ASSUME NEW j \in 1 .. m
      PROVE  k(j) \in Nat \ {0} /\ p(j) \in Nat /\ p(j) + 1 <= k(j)
  BY <1>0, AlikeAreCounted
<1>4. ASSUME NEW j \in 1 .. m
      PROVE  /\ (W(j) * p(j)) \div k(j) \in Nat /\ (W(j) * p(j)) \div k(j) < W(j)
             /\ W(j) \div k(j) \in Nat /\ (W(j) * (p(j) + 1)) \div k(j) \in Nat
             /\ (W(j) * p(j)) \div k(j) + W(j) \div k(j) <= (W(j) * (p(j) + 1)) \div k(j)
             /\ (W(j) * (p(j) + 1)) \div k(j) <= W(j)
  <2>1. W(j) \in Nat \ {0} /\ k(j) \in Nat \ {0} /\ p(j) \in Nat /\ p(j) + 1 <= k(j)
    BY <1>2, <1>3
  <2> HIDE DEF W, k, p
  <2> QED  BY <2>1, SharesOfAWindow
<1>5. Share(list, m, w, i) = W(i) \div k(i)
  BY DEF Share
<1>6. /\ s(i) \in Nat /\ v(i).from <= s(i) /\ s(i) < v(i).till
      /\ s(i) + W(i) \div k(i) <= v(i).from + (W(i) * (p(i) + 1)) \div k(i)
      /\ v(i).from + (W(i) * (p(i) + 1)) \div k(i) <= v(i).till
      /\ W(i) \div k(i) \in Nat /\ v(i).till \in Nat /\ v(i).till <= D
  <2> DEFINE x == (W(i) * p(i)) \div k(i)
             y == W(i) \div k(i)
             z == (W(i) * (p(i) + 1)) \div k(i)
             f == v(i).from
             t == v(i).till
  <2>1. x \in Nat /\ x < W(i) /\ y \in Nat /\ z \in Nat /\ x + y <= z /\ z <= W(i)
    BY <1>4
  <2>2. f \in Nat /\ t \in Nat /\ W(i) = t - f /\ t <= D
    BY <1>2
  <2>3. s(i) = f + x
    BY <1>1
  <2> HIDE DEF x, y, z, f, t, W, s
  <2>4. s(i) \in Nat /\ f <= s(i) /\ s(i) < t /\ s(i) + y <= f + z /\ f + z <= t
    BY <2>1, <2>2, <2>3
  <2> QED  BY <2>1, <2>2, <2>4 DEF x, y, z, f, t
<1>7. ASSUME i < m  PROVE s(i) + W(i) \div k(i) <= s(i + 1) /\ s(i + 1) \in Nat
  <2>0. i + 1 \in 1 .. m /\ i \in 1 .. i + 1 /\ i + 1 \in 1 .. Len(list)
    BY <1>0, <1>7
  <2>1. s(i + 1) = v(i + 1).from + (W(i + 1) * p(i + 1)) \div k(i + 1)
    BY <1>1, <2>0
  <2>2. v(i + 1).from \in Nat /\ (W(i + 1) * p(i + 1)) \div k(i + 1) \in Nat
    BY <1>2, <1>4, <2>0
  <2>3. s(i + 1) \in Nat /\ v(i + 1).from <= s(i + 1)
    <3> DEFINE x == (W(i + 1) * p(i + 1)) \div k(i + 1)
               f == v(i + 1).from
    <3>1. x \in Nat /\ f \in Nat /\ s(i + 1) = f + x
      BY <2>1, <2>2
    <3> HIDE DEF x, f, s
    <3>2. s(i + 1) \in Nat /\ f <= s(i + 1)
      BY <3>1
    <3> QED  BY <3>2 DEF f
  <2>4. CASE list[i + 1].first = list[i].first
    <3>1. v(i + 1) = v(i)
      BY <2>4 DEF WindowOf
    <3>2. k(i + 1) = k(i) /\ p(i + 1) = p(i) + 1
      BY <1>0, <1>7, <2>4, AlikeAreCounted
    <3>3. s(i + 1) = v(i).from + (W(i) * (p(i) + 1)) \div k(i)
      BY <2>1, <3>1, <3>2
    <3> HIDE DEF s, v, W, k, p
    <3> QED  BY <1>6, <2>3, <3>3
  <2>5. CASE list[i + 1].first # list[i].first
    <3>1. list[i].first <= list[i + 1].first /\ list[i].first \in Nat \ {0} /\ list[i + 1].first \in Nat
      BY <2>0, FirstsGrow
    <3> DEFINE a == list[i].first
               b == list[i + 1].first
    <3>2. a \in 1 .. b /\ b \in 1 .. T /\ a < b
      BY <2>0, <2>5, <3>1
    <3> HIDE DEF a, b
    <3>3. w[a].till <= w[b].from
      BY <3>2, TimesGrow
    <3>4. v(i).till <= v(i + 1).from
      BY <3>3 DEF a, b, WindowOf
    <3>5. v(i + 1).from \in Nat
      BY <2>2
    <3> DEFINE y == W(i) \div k(i)
               z == v(i).from + (W(i) * (p(i) + 1)) \div k(i)
               t == v(i).till
               f == v(i + 1).from
    <3>6. /\ s(i) \in Nat /\ y \in Nat /\ t \in Nat /\ f \in Nat /\ s(i + 1) \in Nat
          /\ s(i) + y <= z /\ z <= t /\ t <= f /\ f <= s(i + 1)
      BY <1>6, <2>3, <3>4, <3>5
    <3>7. z \in Nat
      <4>1. v(i).from \in Nat /\ (W(i) * (p(i) + 1)) \div k(i) \in Nat
        BY <1>2, <1>4
      <4> HIDE DEF v, W, k, p
      <4> QED  BY <4>1
    <3> HIDE DEF y, z, t, f, s
    <3>8. s(i) + y <= s(i + 1)
      BY <3>6, <3>7
    <3> QED  BY <2>3, <3>8 DEF y
  <2> QED  BY <2>4, <2>5
<1>8. s(i) + W(i) \div k(i) <= D
  <2> DEFINE y == W(i) \div k(i)
             z == v(i).from + (W(i) * (p(i) + 1)) \div k(i)
             t == v(i).till
  <2>1. s(i) \in Nat /\ y \in Nat /\ t \in Nat /\ s(i) + y <= z /\ z <= t /\ t <= D
    BY <1>6
  <2>2. z \in Nat
    <3>1. v(i).from \in Nat /\ (W(i) * (p(i) + 1)) \div k(i) \in Nat
      BY <1>2, <1>4
    <3> HIDE DEF v, W, k, p
    <3> QED  BY <3>1
  <2> HIDE DEF y, z, t, s
  <2>3. s(i) + y <= D
    BY <1>0, <2>1, <2>2
  <2> QED  BY <2>3 DEF y
<1> QED  BY <1>5, <1>6, <1>7, <1>8
-----------------------------------------------------------------------------
(* Starts that grow with the shots are in order as they are.                *)

Grow(s, m) == s \in [1 .. m -> Nat] /\ \A i \in 2 .. m : s[i - 1] <= s[i]
Started(s, i) == [shot |-> i, from |-> s[i]]
Opening(s, k) == [i \in 1 .. k |-> Started(s, i)]
Starts(s, m) == {Started(s, i) : i \in 1 .. m}
Taken(was) == {was[i] : i \in DOMAIN was}
AndThen(was, starts) == Append(was, Soonest(starts \ Taken(was)))

LEMMA AllGrow ==
  ASSUME NEW m \in Nat, NEW s, Grow(s, m), NEW j \in 1 .. m, NEW i \in 1 .. j
  PROVE  s[i] <= s[j] /\ s[i] \in Nat /\ s[j] \in Nat
<1> DEFINE P == {k \in 0 .. m : \A q \in 1 .. k : s[q] <= s[k]}
<1>0. \A k \in 1 .. m : s[k] \in Nat
  BY DEF Grow
<1>1. 0 \in P
  OBVIOUS
<1>2. ASSUME NEW k \in 1 .. m, k - 1 \in P  PROVE k \in P
  <2>1. SUFFICES ASSUME NEW q \in 1 .. k  PROVE s[q] <= s[k]
    OBVIOUS
  <2>2. CASE q = k
    BY <1>0, <2>2
  <2>3. CASE q # k
    <3>1. q \in 1 .. k - 1 /\ q \in 1 .. m /\ k \in 2 .. m /\ k - 1 \in 1 .. m
      BY <2>3
    <3>2. s[q] <= s[k - 1] /\ s[k - 1] <= s[k]
      BY <1>2, <3>1 DEF Grow
    <3>3. s[q] \in Nat /\ s[k - 1] \in Nat /\ s[k] \in Nat
      BY <1>0, <3>1
    <3> QED  BY <3>2, <3>3
  <2> QED  BY <2>2, <2>3
<1>3. \A k \in 1 .. m : k - 1 \in P => k \in P
  BY <1>2
<1>4. j \in 0 .. m /\ i \in 1 .. m
  OBVIOUS
<1> HIDE DEF P
<1>5. j \in P
  BY <1>1, <1>3, <1>4, FromEachToTheNext
<1> QED  BY <1>0, <1>4, <1>5 DEF P

LEMMA NextIsSoonest ==
  ASSUME NEW m \in Nat, NEW s, Grow(s, m), NEW k \in 1 .. m, NEW left,
         left = {Started(s, i) : i \in k .. m}
  PROVE  Soonest(left) = Started(s, k)
<1> DEFINE Early(a) == \A r \in left : a.from < r.from \/ (a.from = r.from /\ a.shot <= r.shot)
           first == Started(s, k)
<1>1. \A i \in k .. m : /\ s[k] <= s[i] /\ s[k] \in Nat /\ s[i] \in Nat /\ k <= i /\ i \in Nat /\ k \in Nat
                        /\ Started(s, i).shot = i /\ Started(s, i).from = s[i]
  <2> TAKE i \in k .. m
  <2>1. i \in 1 .. m /\ k \in 1 .. i
    OBVIOUS
  <2> QED  BY <2>1, AllGrow DEF Started
<1>2. first \in left /\ first.shot = k /\ first.from = s[k]
  <2>1. k \in k .. m
    OBVIOUS
  <2> QED  BY <2>1 DEF Started
<1> HIDE DEF first
<1>3. Early(first)
  <2> TAKE r \in left
  <2>1. PICK i \in k .. m : r = Started(s, i)
    OBVIOUS
  <2> QED  BY <1>1, <1>2, <2>1
<1>4. ASSUME NEW a \in left, Early(a)  PROVE a = first
  <2>1. PICK i \in k .. m : a = Started(s, i)
    OBVIOUS
  <2>2. a.from < first.from \/ (a.from = first.from /\ a.shot <= first.shot)
    BY <1>2, <1>4
  <2>3. i = k
    BY <1>1, <1>2, <2>1, <2>2
  <2> QED  BY <2>1, <2>3 DEF first
<1>5. Soonest(left) \in left /\ Early(Soonest(left))
  BY <1>2, <1>3, Zenon DEF Soonest
<1> QED  BY <1>4, <1>5 DEF first

LEMMA OpeningGrows ==
  ASSUME NEW m \in Nat, NEW s, Grow(s, m), NEW k \in 1 .. m, NEW was, was = Opening(s, k - 1)
  PROVE  AndThen(was, Starts(s, m)) = Opening(s, k)
<1> DEFINE starts == Starts(s, m)
           left == starts \ {was[i] : i \in DOMAIN was}
<1>1. \A i \in 1 .. m : Started(s, i).shot = i
  BY DEF Started
<1>2. DOMAIN was = 1 .. k - 1 /\ \A i \in 1 .. k - 1 : was[i] = Started(s, i)
  BY DEF Opening
<1>3. left = {Started(s, i) : i \in k .. m}
  <2>1. ASSUME NEW a \in left  PROVE a \in {Started(s, i) : i \in k .. m}
    <3>1. PICK i \in 1 .. m : a = Started(s, i)
      BY DEF Starts
    <3>2. i \notin 1 .. k - 1
      BY <1>2, <3>1
    <3>3. i \in k .. m
      BY <3>2
    <3> QED  BY <3>1, <3>3
  <2>2. ASSUME NEW i \in k .. m  PROVE Started(s, i) \in left
    <3>1. i \in 1 .. m /\ Started(s, i) \in starts
      BY DEF Starts
    <3>2. ASSUME NEW j \in 1 .. k - 1  PROVE Started(s, j) # Started(s, i)
      <4>1. j \in 1 .. m /\ j # i
        OBVIOUS
      <4> QED  BY <1>1, <3>1, <4>1
    <3> QED  BY <1>2, <3>1, <3>2
  <2> QED  BY <2>1, <2>2
<1>4. Soonest(left) = Started(s, k)
  <2> HIDE DEF left
  <2> QED  BY <1>3, NextIsSoonest
<1>5. was \in Seq({Started(s, i) : i \in 1 .. m}) /\ Len(was) = k - 1
  <2> DEFINE S == {Started(s, i) : i \in 1 .. m}
  <2>1. was \in [1 .. k - 1 -> S] /\ k - 1 \in Nat
    BY DEF Opening
  <2> HIDE DEF S
  <2>2. was \in Seq(S) /\ Len(was) = k - 1
    BY <2>1, ListsAreSequences
  <2> QED  BY <2>2 DEF S
<1>6. Append(was, Started(s, k)) = [i \in 1 .. k |-> Started(s, i)]
  <2> DEFINE S == {Started(s, i) : i \in 1 .. m}
             new == Started(s, k)
             long == Append(was, new)
  <2>1. was \in Seq(S) /\ Len(was) = k - 1 /\ new \in S
    BY <1>5
  <2> HIDE DEF S, new
  <2>2. long \in Seq(S) /\ Len(long) = k /\ long[k] = new /\ \A i \in 1 .. k - 1 : long[i] = was[i]
    BY <2>1
  <2> HIDE DEF long
  <2>3. DOMAIN long = 1 .. k /\ long = [i \in 1 .. k |-> long[i]]
    BY <2>2
  <2>4. \A i \in 1 .. k : long[i] = Started(s, i)
    <3> TAKE i \in 1 .. k
    <3>1. CASE i = k
      BY <2>2, <3>1 DEF new
    <3>2. CASE i # k
      <4>1. i \in 1 .. k - 1
        BY <3>2
      <4> QED  BY <1>2, <2>2, <4>1
    <3> QED  BY <3>1, <3>2
  <2> QED  BY <2>3, <2>4 DEF long, new
<1> QED  BY <1>4, <1>6 DEF Opening, AndThen, Taken

LEMMA OrderIsTheirs ==
  ASSUME NEW m \in Nat, NEW s, Grow(s, m)
  PROVE  InOrder(Starts(s, m), m) = Opening(s, m)
<1> DEFINE starts == Starts(s, m)
           after(was) == AndThen(was, starts)
           Built(f) == f = [k \in 0 .. m |-> IF k = 0 THEN <<>> ELSE after(f[k - 1])]
           built == CHOOSE f : Built(f)
           f == [k \in 0 .. m |-> Opening(s, k)]
<1>1. InOrder(Starts(s, m), m) = built[m]
  BY Zenon DEF InOrder, AndThen, Taken
<1>2. Opening(s, 0) = <<>>
  BY DEF Opening
<1>3. ASSUME NEW k \in 1 .. m  PROVE after(Opening(s, k - 1)) = Opening(s, k)
  <2> DEFINE was == Opening(s, k - 1)
  <2>1. was = Opening(s, k - 1)
    OBVIOUS
  <2> HIDE DEF was
  <2>2. AndThen(was, Starts(s, m)) = Opening(s, k)
    BY <2>1, OpeningGrows
  <2> QED  BY <2>2 DEF was
<1> HIDE DEF after
<1>4. Built(f)
  <2>1. \A k \in 0 .. m : f[k] = Opening(s, k)
    OBVIOUS
  <2>2. \A k \in 0 .. m : f[k] = IF k = 0 THEN <<>> ELSE after(f[k - 1])
    <3> TAKE k \in 0 .. m
    <3>1. CASE k = 0
      BY <1>2, <2>1, <3>1
    <3>2. CASE k # 0
      <4>1. k \in 1 .. m /\ k - 1 \in 0 .. m
        BY <3>2
      <4> QED  BY <1>3, <2>1, <3>2, <4>1
    <3> QED  BY <3>1, <3>2
  <2>3. DOMAIN f = 0 .. m /\ f = [k \in 0 .. m |-> f[k]]
    OBVIOUS
  <2> HIDE DEF f
  <2> QED  BY <2>2, <2>3
<1>5. Built(built)
  BY <1>4, Zenon
<1> HIDE DEF built, f
<1>6. built[0] = <<>> /\ \A k \in 1 .. m : built[k] = after(built[k - 1])
  BY <1>5
<1> DEFINE P == {k \in 0 .. m : built[k] = Opening(s, k)}
<1>7. 0 \in P
  BY <1>2, <1>6
<1>8. ASSUME NEW k \in 1 .. m, k - 1 \in P  PROVE k \in P
  BY <1>3, <1>6, <1>8
<1>9. m \in 0 .. m /\ \A k \in 1 .. m : k - 1 \in P => k \in P
  BY <1>8
<1> HIDE DEF P
<1>10. m \in P
  BY <1>7, <1>9, FromEachToTheNext
<1> QED  BY <1>1, <1>10 DEF P
PlanOf(s, m) ==
  [k \in 1 .. m |-> [shot |-> k, from |-> IF k = 1 THEN 0 ELSE s[k],
                     till |-> IF k = m THEN D ELSE s[k + 1]]]
Scheduled(list, m, w) == [i \in 1 .. m |-> BeginsAt(list, m, w, i)]

LEMMA ScheduleGrows ==
  ASSUME NEW T \in Nat, NEW w, Follow(w, T), NEW list, InStory(list), NEW m \in 0 .. Len(list),
         \A j \in 1 .. m : list[j].first \in 1 .. T
  PROVE  /\ Grow(Scheduled(list, m, w), m)
         /\ \A i \in 1 .. m : Scheduled(list, m, w)[i] <= D
<1> DEFINE s == Scheduled(list, m, w)
<1>1. m \in Nat /\ D \in Nat
  BY TimesAreTicks DEF InStory
<1>2. ASSUME NEW i \in 1 .. m
      PROVE  /\ s[i] = BeginsAt(list, m, w, i) /\ BeginsAt(list, m, w, i) \in Nat /\ BeginsAt(list, m, w, i) <= D
             /\ i < m => BeginsAt(list, m, w, i) <= BeginsAt(list, m, w, i + 1)
  <2> DEFINE a == BeginsAt(list, m, w, i)
             b == BeginsAt(list, m, w, i + 1)
             c == Share(list, m, w, i)
  <2>1. a \in Nat /\ c \in Nat /\ a + c <= D /\ (i < m => a + c <= b /\ b \in Nat)
    BY StartsFollow
  <2>2. s[i] = a
    BY DEF Scheduled
  <2> HIDE DEF a, b, c, s
  <2>3. a <= D /\ (i < m => a <= b)
    BY <1>1, <2>1
  <2> QED  BY <2>1, <2>2, <2>3 DEF a, b
<1>3. s \in [1 .. m -> Nat]
  BY <1>2 DEF Scheduled
<1> HIDE DEF s
<1>4. ASSUME NEW i \in 2 .. m  PROVE s[i - 1] <= s[i]
  <2>1. i - 1 \in 1 .. m /\ i - 1 < m /\ (i - 1) + 1 = i /\ i \in 1 .. m
    BY <1>1
  <2>2. BeginsAt(list, m, w, i - 1) <= BeginsAt(list, m, w, (i - 1) + 1)
    BY <1>2, <2>1
  <2> QED  BY <1>2, <2>1, <2>2
<1> QED  BY <1>2, <1>3, <1>4 DEF Grow, s

Opened(T, w, list, m) ==
  /\ T \in Nat /\ Follow(w, T) /\ InStory(list) /\ m \in 0 .. Len(list)
  /\ \A j \in 1 .. m : list[j].first \in 1 .. T

LEMMA PlannedIs ==
  ASSUME NEW T, NEW w, NEW list, NEW m, Opened(T, w, list, m), NEW kept, kept = 1 .. m
  PROVE  Planned(list, kept, w) = PlanOf(Scheduled(list, m, w), m)
<1> SUFFICES ASSUME T \in Nat, Follow(w, T), InStory(list), m \in 0 .. Len(list),
                    \A j \in 1 .. m : list[j].first \in 1 .. T
             PROVE  Planned(list, 1 .. m, w) = PlanOf(Scheduled(list, m, w), m)
  BY DEF Opened
<1> DEFINE s == Scheduled(list, m, w)
           starts == {[shot |-> i, from |-> Start(list, 1 .. m, w, i)] : i \in 1 .. m}
           n == Cardinality(1 .. m)
           order == InOrder(starts, n)
<1>1. m \in Nat
  BY DEF InStory
<1>2. n = m
  BY <1>1, FS_Interval
<1>3. starts = Starts(s, m)
  <2>1. \A i \in 1 .. m : [shot |-> i, from |-> Start(list, 1 .. m, w, i)] = Started(s, i)
    BY DEF Started, Scheduled, BeginsAt
  <2> QED  BY <2>1 DEF Starts
<1>4. order = Opening(s, m)
  <2>1. Grow(s, m)
    BY ScheduleGrows
  <2> HIDE DEF s, starts, n
  <2> QED  BY <1>1, <1>2, <1>3, <2>1, OrderIsTheirs
<1>5. Planned(list, 1 .. m, w) =
        [k \in 1 .. n |-> [shot |-> order[k].shot, from |-> IF k = 1 THEN 0 ELSE order[k].from,
                           till |-> IF k = n THEN D ELSE order[k + 1].from]]
  BY Zenon DEF Planned
<1> HIDE DEF order, n, s
<1>6. ASSUME NEW k \in 1 .. m
      PROVE  /\ order[k].shot = k /\ order[k].from = s[k]
             /\ k # m => order[k + 1].from = s[k + 1]
  <2>1. k # m => k + 1 \in 1 .. m
    BY <1>1
  <2> QED  BY <1>4, <2>1 DEF Opening, Started
<1>7. \A k \in 1 .. m :
        [shot |-> order[k].shot, from |-> IF k = 1 THEN 0 ELSE order[k].from,
         till |-> IF k = m THEN D ELSE order[k + 1].from]
        = [shot |-> k, from |-> IF k = 1 THEN 0 ELSE s[k], till |-> IF k = m THEN D ELSE s[k + 1]]
  BY <1>6
<1> QED  BY <1>2, <1>5, <1>7 DEF PlanOf, s
-----------------------------------------------------------------------------
(* Merging: the clips tile the scene, none is too short but the first, and  *)
(* a shot that has time enough is among them.                               *)

Tiles(plan, m) ==
  /\ DOMAIN plan = 1 .. m /\ Len(plan) = m
  /\ \A k \in 1 .. m : /\ plan[k] \in Clip /\ plan[k].shot = k
                       /\ plan[k].from \in Nat /\ plan[k].till \in Nat /\ plan[k].from <= plan[k].till
  /\ plan[1].from = 0 /\ plan[m].till = D
  /\ \A k \in 2 .. m : plan[k - 1].till = plan[k].from

LEMMA PlanTiles ==
  ASSUME NEW m \in Nat \ {0}, NEW s, Grow(s, m), \A i \in 1 .. m : s[i] <= D
  PROVE  Tiles(PlanOf(s, m), m)
<1> DEFINE plan == PlanOf(s, m)
<1>0. D \in Nat /\ m \in Nat
  BY TimesAreTicks
<1>1. plan \in [1 .. m -> Clip] /\ DOMAIN plan = 1 .. m
      /\ \A k \in 1 .. m : plan[k] = [shot |-> k, from |-> IF k = 1 THEN 0 ELSE s[k],
                                      till |-> IF k = m THEN D ELSE s[k + 1]]
  <2>1. ASSUME NEW k \in 1 .. m
        PROVE  [shot |-> k, from |-> IF k = 1 THEN 0 ELSE s[k],
                till |-> IF k = m THEN D ELSE s[k + 1]] \in Clip
    <3>1. s[k] \in Nat /\ (k # m => s[k + 1] \in Nat)
      <4>1. k # m => k + 1 \in 1 .. m
        BY <1>0
      <4> QED  BY <4>1 DEF Grow
    <3>2. (IF k = 1 THEN 0 ELSE s[k]) \in Int /\ (IF k = m THEN D ELSE s[k + 1]) \in Int /\ k \in Nat
      BY <1>0, <3>1
    <3> QED  BY <3>2 DEF Clip
  <2> QED  BY <2>1 DEF PlanOf
<1> HIDE DEF plan
<1>2. Len(plan) = m
  BY <1>0, <1>1, ListsAreSequences
<1>3. ASSUME NEW k \in 1 .. m
      PROVE  /\ plan[k] \in Clip /\ plan[k].shot = k
             /\ plan[k].from \in Nat /\ plan[k].till \in Nat /\ plan[k].from <= plan[k].till
  <2>1. plan[k] \in Clip
    BY <1>1
  <2>2. plan[k].shot = k /\ plan[k].from = (IF k = 1 THEN 0 ELSE s[k])
          /\ plan[k].till = (IF k = m THEN D ELSE s[k + 1])
    BY <1>1
  <2>3. s[k] \in Nat /\ s[k] <= D
    BY DEF Grow
  <2>4. k # m => s[k + 1] \in Nat /\ s[k] <= s[k + 1]
    <3>1. SUFFICES ASSUME k # m  PROVE s[k + 1] \in Nat /\ s[k] <= s[k + 1]
      OBVIOUS
    <3>2. k + 1 \in 1 .. m /\ k \in 1 .. k + 1
      BY <1>0, <3>1
    <3> QED  BY <1>0, <3>2, AllGrow
  <2> QED  BY <1>0, <2>1, <2>2, <2>3, <2>4
<1>4. plan[1].from = 0 /\ plan[m].till = D
  <2>1. 1 \in 1 .. m /\ m \in 1 .. m
    BY <1>0
  <2> QED  BY <1>1, <2>1
<1>5. ASSUME NEW k \in 2 .. m  PROVE plan[k - 1].till = plan[k].from
  <2>1. k \in 1 .. m /\ k - 1 \in 1 .. m /\ k - 1 # m /\ (k - 1) + 1 = k /\ k # 1
    BY <1>0
  <2> QED  BY <1>1, <2>1
<1> QED  BY <1>1, <1>2, <1>3, <1>4, <1>5 DEF Tiles, plan

Extended(was, t) == [was EXCEPT ![Len(was)].till = t]

LEMMA ExtendedIs ==
  ASSUME NEW was \in Seq(Clip), was # <<>>, NEW t \in Int
  PROVE  /\ Extended(was, t) \in Seq(Clip) /\ Len(Extended(was, t)) = Len(was)
         /\ \A c \in 1 .. Len(was) :
              /\ Extended(was, t)[c].shot = was[c].shot /\ Extended(was, t)[c].from = was[c].from
              /\ Extended(was, t)[c].till = IF c = Len(was) THEN t ELSE was[c].till
<1> DEFINE n == Len(was)
           end == was[n]
           new == [end EXCEPT !.till = t]
           wider == Extended(was, t)
<1>1. n \in Nat \ {0} /\ was \in [1 .. n -> Clip] /\ DOMAIN was = 1 .. n /\ n \in 1 .. n
  OBVIOUS
<1>2. end \in Clip
  BY <1>1
<1>3. PICK q \in Nat, f \in Int, l \in Int : end = [shot |-> q, from |-> f, till |-> l]
  BY <1>2 DEF Clip
<1>4. new = [shot |-> q, from |-> f, till |-> t]
  BY <1>3
<1>5. new \in Clip /\ new.shot = end.shot /\ new.from = end.from /\ new.till = t
  BY <1>3, <1>4 DEF Clip
<1>6. wider = [was EXCEPT ![n] = new]
  BY DEF Extended
<1> HIDE DEF new, wider, end
<1>7. wider \in [1 .. n -> Clip] /\ wider[n] = new /\ \A c \in 1 .. n : c # n => wider[c] = was[c]
  BY <1>1, <1>5, <1>6
<1>8. wider \in Seq(Clip) /\ Len(wider) = n
  <2>1. n \in Nat
    BY <1>1
  <2> HIDE DEF n
  <2> QED  BY <2>1, <1>7, ListsAreSequences
<1> QED  BY <1>5, <1>7, <1>8 DEF end, wider

Enough(clip) == MinClip <= clip.till - clip.from
MergedTo(was, i, plan) ==
  /\ was \in Seq(Clip) /\ was # <<>>
  /\ \A c \in 1 .. Len(was) : /\ was[c].from \in Nat /\ was[c].till \in Nat /\ was[c].shot \in 1 .. i
                              /\ was[c].from = plan[was[c].shot].from
  /\ was[1].shot = 1 /\ plan[1].till <= was[1].till
  /\ was[Len(was)].till = plan[i].till
  /\ \A c \in 2 .. Len(was) : /\ was[c - 1].till = was[c].from /\ was[c - 1].shot < was[c].shot
                              /\ Enough(was[c])
  /\ \A k \in 2 .. i : Enough(plan[k]) => \E c \in 2 .. Len(was) : was[c].shot = k
LEMMA MergedFirst ==
  ASSUME NEW m \in Nat \ {0}, NEW plan, Tiles(plan, m)
  PROVE  MergedTo(<<plan[1]>>, 1, plan)
<1> DEFINE was == <<plan[1]>>
<1>1. /\ plan[1] \in Clip /\ plan[1].shot = 1 /\ plan[1].from \in Nat /\ plan[1].till \in Nat
  <2>1. 1 \in 1 .. m
    OBVIOUS
  <2> QED  BY <2>1 DEF Tiles
<1>2. was \in Seq(Clip) /\ Len(was) = 1 /\ was[1] = plan[1] /\ was # <<>>
  BY <1>1
<1> HIDE DEF was
<1>3. \A c \in 1 .. Len(was) : c = 1
  BY <1>2
<1>4. \A c \in 1 .. Len(was) : /\ was[c].from \in Nat /\ was[c].till \in Nat /\ was[c].shot \in 1 .. 1
                               /\ was[c].from = plan[was[c].shot].from
  BY <1>1, <1>2, <1>3
<1>5. plan[1].till <= was[1].till /\ was[1].shot = 1 /\ was[Len(was)].till = plan[1].till
  BY <1>1, <1>2
<1>6. \A c \in 2 .. Len(was) : FALSE
  BY <1>2
<1>7. \A k \in 2 .. 1 : FALSE
  OBVIOUS
<1>8. MergedTo(was, 1, plan)
  BY <1>2, <1>4, <1>5, <1>6, <1>7 DEF MergedTo
<1> QED  BY <1>8 DEF was

LEMMA MergedShort ==
  ASSUME NEW m \in Nat \ {0}, NEW plan, Tiles(plan, m), NEW i \in 2 .. m,
         NEW was, MergedTo(was, i - 1, plan), ~ Enough(plan[i])
  PROVE  MergedTo(Extended(was, plan[i].till), i, plan)
<1> DEFINE t == plan[i].till
           wider == Extended(was, t)
           n == Len(was)
<1>0. was \in Seq(Clip) /\ was # <<>> /\ n \in Nat \ {0}
  BY DEF MergedTo
<1>1. /\ t \in Nat /\ plan[i].from \in Nat /\ plan[i].from <= t /\ plan[i - 1].till = plan[i].from
  BY DEF Tiles
<1>2. was[n].till <= t
  BY <1>1 DEF MergedTo
<1> HIDE DEF t
<1>3. /\ wider \in Seq(Clip) /\ Len(wider) = n
      /\ \A c \in 1 .. n : /\ wider[c].shot = was[c].shot /\ wider[c].from = was[c].from
                           /\ wider[c].till = IF c = n THEN t ELSE was[c].till
  BY <1>0, <1>1, ExtendedIs
<1> HIDE DEF wider, n
<1>4. \A c \in 1 .. n : /\ was[c].from \in Nat /\ was[c].till \in Nat /\ was[c].shot \in 1 .. i - 1
                        /\ was[c].from = plan[was[c].shot].from
  BY DEF MergedTo, n
<1>5. \A c \in 1 .. n : wider[c].till \in Nat /\ was[c].till <= wider[c].till
  BY <1>1, <1>2, <1>3, <1>4
<1>6. \A c \in 1 .. n : /\ wider[c].from \in Nat /\ wider[c].till \in Nat /\ wider[c].shot \in 1 .. i
                        /\ wider[c].from = plan[wider[c].shot].from
  <2> TAKE c \in 1 .. n
  <2>1. wider[c].shot = was[c].shot /\ wider[c].from = was[c].from
    BY <1>3
  <2>2. was[c].shot \in 1 .. i - 1 /\ was[c].from \in Nat /\ was[c].from = plan[was[c].shot].from
    BY <1>4
  <2>3. was[c].shot \in 1 .. i
    BY <2>2
  <2> QED  BY <1>5, <2>1, <2>2, <2>3
<1>7. wider # <<>> /\ 1 \in 1 .. n /\ n \in 1 .. n
  BY <1>0, <1>3
<1>8. wider[1].shot = 1 /\ plan[1].till <= wider[1].till
  <2>1. was[1].shot = 1 /\ plan[1].till <= was[1].till
    BY DEF MergedTo
  <2>2. plan[1].till \in Nat
    <3>1. 1 \in 1 .. m
      OBVIOUS
    <3> QED  BY <3>1 DEF Tiles
  <2> QED  BY <1>3, <1>4, <1>5, <1>7, <2>1, <2>2
<1>9. wider[n].till = plan[i].till
  BY <1>3, <1>7 DEF t
<1>10. ASSUME NEW c \in 2 .. n
       PROVE  /\ wider[c - 1].till = wider[c].from /\ wider[c - 1].shot < wider[c].shot
              /\ Enough(wider[c])
  <2>1. c \in 1 .. n /\ c - 1 \in 1 .. n /\ c - 1 # n
    BY <1>0
  <2>2. was[c - 1].till = was[c].from /\ was[c - 1].shot < was[c].shot /\ Enough(was[c])
    BY DEF MergedTo, n
  <2>3. wider[c - 1].till = wider[c].from /\ wider[c - 1].shot < wider[c].shot
    BY <1>3, <2>1, <2>2
  <2>4. MinClip <= was[c].till - was[c].from /\ wider[c].from = was[c].from
    BY <1>3, <2>1, <2>2 DEF Enough
  <2>5. MinClip \in Nat /\ was[c].till \in Nat /\ wider[c].till \in Nat /\ was[c].from \in Nat
          /\ was[c].till <= wider[c].till
    BY <1>4, <1>5, <2>1, TimesAreTicks
  <2>6. MinClip <= wider[c].till - wider[c].from
    BY <2>4, <2>5
  <2> QED  BY <2>3, <2>6 DEF Enough
<1>11. ASSUME NEW k \in 2 .. i, Enough(plan[k])  PROVE \E c \in 2 .. n : wider[c].shot = k
  <2>1. k \in 2 .. i - 1
    BY <1>11
  <2>2. PICK c \in 2 .. n : was[c].shot = k
    BY <1>11, <2>1 DEF MergedTo, n
  <2>3. c \in 1 .. n
    BY <1>0
  <2> QED  BY <1>3, <2>2, <2>3
<1>12. MergedTo(wider, i, plan)
  BY <1>3, <1>6, <1>7, <1>8, <1>9, <1>10, <1>11 DEF MergedTo
<1> QED  BY <1>12 DEF wider, t

LEMMA MergedOn ==
  ASSUME NEW m \in Nat \ {0}, NEW plan, Tiles(plan, m), NEW i \in 2 .. m,
         NEW was, MergedTo(was, i - 1, plan), Enough(plan[i]), NEW longer, longer = Append(was, plan[i])
  PROVE  MergedTo(longer, i, plan)
<1> DEFINE new == plan[i]
           n == Len(was)
<1>0. was \in Seq(Clip) /\ was # <<>> /\ n \in Nat \ {0}
  BY DEF MergedTo
<1>1. /\ new \in Clip /\ new.shot = i /\ new.from \in Nat /\ new.till \in Nat
      /\ plan[i - 1].till = new.from
  BY DEF Tiles
<1>2. was[n].till = new.from
  BY <1>1 DEF MergedTo
<1> HIDE DEF new
<1>3. /\ longer \in Seq(Clip) /\ Len(longer) = n + 1 /\ longer[n + 1] = new
      /\ \A c \in 1 .. n : longer[c] = was[c]
  <2>1. longer = Append(was, new)
    BY DEF new
  <2> QED  BY <1>0, <1>1, <2>1
<1> HIDE DEF n
<1>4. \A c \in 1 .. n : /\ was[c].from \in Nat /\ was[c].till \in Nat /\ was[c].shot \in 1 .. i - 1
                        /\ was[c].from = plan[was[c].shot].from
  BY DEF MergedTo, n
<1>5. \A c \in 1 .. n + 1 : c \in 1 .. n \/ c = n + 1
  BY <1>0
<1>6. ASSUME NEW c \in 1 .. n + 1
      PROVE  /\ longer[c].from \in Nat /\ longer[c].till \in Nat /\ longer[c].shot \in 1 .. i
             /\ longer[c].from = plan[longer[c].shot].from
  <2>1. CASE c \in 1 .. n
    BY <1>3, <1>4, <2>1
  <2>2. CASE c = n + 1
    BY <1>1, <1>3, <2>2 DEF new
  <2> QED  BY <1>5, <2>1, <2>2
<1>7. longer # <<>> /\ 1 \in 1 .. n /\ n \in 1 .. n
  BY <1>0, <1>3
<1>8. longer[1].shot = 1 /\ plan[1].till <= longer[1].till
  <2>1. was[1].shot = 1 /\ plan[1].till <= was[1].till
    BY DEF MergedTo
  <2> QED  BY <1>3, <1>7, <2>1
<1>9. longer[n + 1].till = plan[i].till
  BY <1>3 DEF new
<1>10. ASSUME NEW c \in 2 .. n + 1
       PROVE  /\ longer[c - 1].till = longer[c].from /\ longer[c - 1].shot < longer[c].shot
              /\ Enough(longer[c])
  <2>1. CASE c = n + 1
    <3>1. c - 1 = n /\ longer[c - 1] = was[n] /\ longer[c] = new
      BY <1>0, <1>3, <1>7, <2>1
    <3>2. was[n].shot < new.shot
      BY <1>1, <1>4, <1>7
    <3>3. Enough(new)
      BY DEF new
    <3> QED  BY <1>2, <3>1, <3>2, <3>3
  <2>2. CASE c # n + 1
    <3>1. c \in 2 .. n /\ c \in 1 .. n /\ c - 1 \in 1 .. n
      BY <1>0, <2>2
    <3>2. was[c - 1].till = was[c].from /\ was[c - 1].shot < was[c].shot /\ Enough(was[c])
      BY <3>1 DEF MergedTo, n
    <3>3. longer[c - 1] = was[c - 1] /\ longer[c] = was[c]
      BY <1>3, <3>1
    <3> QED  BY <3>2, <3>3
  <2> QED  BY <2>1, <2>2
<1>11. ASSUME NEW k \in 2 .. i, Enough(plan[k])  PROVE \E c \in 2 .. n + 1 : longer[c].shot = k
  <2>1. CASE k = i
    <3>1. n + 1 \in 2 .. n + 1 /\ longer[n + 1].shot = k
      BY <1>0, <1>1, <1>3, <2>1
    <3> QED  BY <3>1
  <2>2. CASE k # i
    <3>1. k \in 2 .. i - 1
      BY <2>2
    <3>2. PICK c \in 2 .. n : was[c].shot = k
      BY <1>11, <3>1 DEF MergedTo, n
    <3>3. c \in 1 .. n /\ c \in 2 .. n + 1
      BY <1>0
    <3> QED  BY <1>3, <3>2, <3>3
  <2> QED  BY <2>1, <2>2
<1> QED  BY <1>3, <1>6, <1>7, <1>8, <1>9, <1>10, <1>11 DEF MergedTo

LEMMA MergedAll ==
  ASSUME NEW m \in Nat \ {0}, NEW plan, Tiles(plan, m)
  PROVE  \E all : MergedTo(all, m, plan) /\ Merged(plan) = FirstMerged(all)
<1> DEFINE Short(i) == plan[i].till - plan[i].from < MinClip
           after(i, was) ==
             IF was # <<>> /\ Short(i) THEN Extended(was, plan[i].till) ELSE Append(was, plan[i])
           Built(f) == f = [i \in 0 .. Len(plan) |-> IF i = 0 THEN <<>> ELSE after(i, f[i - 1])]
           built == CHOOSE f : Built(f)
           S == Seq(Clip)
           next == [i \in 1 .. m |-> [was \in S |-> after(i, was)]]
<1>1. m \in Nat /\ Len(plan) = m
  BY DEF Tiles
<1>2. Merged(plan) = FirstMerged(built[Len(plan)])
  BY Zenon DEF Merged, Extended
<1>3. ASSUME NEW i \in 1 .. m
      PROVE  plan[i] \in Clip /\ plan[i].till \in Int /\ (Short(i) <=> ~ Enough(plan[i]))
  <2>1. plan[i] \in Clip /\ plan[i].till \in Nat /\ plan[i].from \in Nat /\ MinClip \in Nat
    BY TimesAreTicks DEF Tiles
  <2> QED  BY <2>1 DEF Enough
<1> HIDE DEF Short
<1>4. ASSUME NEW i \in 1 .. m, NEW was \in S  PROVE after(i, was) \in S
  <2> DEFINE new == plan[i]
             t == new.till
  <2>1. new \in Clip /\ t \in Int
    BY <1>3
  <2> HIDE DEF new, t
  <2>2. was # <<>> => Extended(was, t) \in Seq(Clip)
    BY <2>1, ExtendedIs
  <2>3. Append(was, new) \in Seq(Clip)
    BY <2>1
  <2> QED  BY <2>2, <2>3 DEF new, t
<1>5. \E f : Built(f)
  <2> HIDE DEF after
  <2>1. next \in [1 .. m -> [S -> S]]
    <3> HIDE DEF S
    <3> QED  BY <1>4
  <2>2. \A i \in 1 .. m : \A was \in S : next[i][was] = after(i, was)
    OBVIOUS
  <2>3. m \in Nat /\ <<>> \in S /\ next \in Steps(m, S)
    BY <1>1, <2>1 DEF Steps
  <2> HIDE DEF next, S
  <2>4. PICK f : Recurses(f, m, S, <<>>, next)
    BY <2>3, RecursionIsAnswered
  <2>5. f \in [0 .. m -> S] /\ f[0] = <<>> /\ \A i \in 1 .. m : f[i] = next[i][f[i - 1]]
    BY <2>4 DEF Recurses
  <2>6. \A i \in 1 .. m : f[i] = after(i, f[i - 1])
    <3> TAKE i \in 1 .. m
    <3>1. i - 1 \in 0 .. m
      BY <1>1
    <3>2. f[i - 1] \in S
      BY <2>5, <3>1
    <3> QED  BY <2>2, <2>5, <3>2
  <2>7. Built(f)
    BY <1>1, <2>5, <2>6
  <2> QED  BY <2>7
<1>6. Built(built)
  BY <1>5, Zenon
<1> HIDE DEF built
<1>7. built[0] = <<>> /\ \A i \in 1 .. m : built[i] = after(i, built[i - 1])
  <2> HIDE DEF after
  <2> QED  BY <1>1, <1>6
<1> DEFINE P == {i \in 0 .. m : IF i = 0 THEN built[i] = <<>> ELSE MergedTo(built[i], i, plan)}
<1>8. 0 \in P
  BY <1>1, <1>7
<1>9. ASSUME NEW i \in 1 .. m, i - 1 \in P  PROVE i \in P
  <2> DEFINE was == built[i - 1]
  <2>1. built[i] = after(i, was)
    BY <1>7
  <2>2. CASE i = 1
    <3>1. was = <<>>
      BY <1>9, <2>2
    <3>2. built[1] = Append(<<>>, plan[1])
      BY <2>1, <2>2, <3>1
    <3>3. built[1] = <<plan[1]>>
      BY <3>2
    <3> QED  BY <2>2, <3>3, MergedFirst
  <2>3. CASE i # 1
    <3>1. i \in 2 .. m /\ i - 1 # 0
      BY <1>1, <2>3
    <3>2. MergedTo(was, i - 1, plan)
      BY <1>9, <3>1
    <3>3. was # <<>>
      BY <3>2 DEF MergedTo
    <3> HIDE DEF was
    <3>4. CASE Short(i)
      <4>1. built[i] = Extended(was, plan[i].till) /\ ~ Enough(plan[i])
        BY <1>3, <2>1, <3>3, <3>4
      <4> QED  BY <3>1, <3>2, <4>1, MergedShort
    <3>5. CASE ~ Short(i)
      <4>1. built[i] = Append(was, plan[i]) /\ Enough(plan[i])
        BY <1>3, <2>1, <3>5
      <4>2. MergedTo(built[i], i, plan)
        BY <3>1, <3>2, <4>1, MergedOn
      <4> QED  BY <1>1, <3>1, <4>2
    <3> QED  BY <3>4, <3>5
  <2> QED  BY <2>2, <2>3
<1>10. m \in 0 .. m /\ m # 0 /\ \A i \in 1 .. m : i - 1 \in P => i \in P
  BY <1>1, <1>9
<1> HIDE DEF P
<1>11. m \in P
  BY <1>1, <1>8, <1>10, FromEachToTheNext
<1>12. MergedTo(built[m], m, plan)
  BY <1>10, <1>11 DEF P
<1> QED  BY <1>1, <1>2, <1>12

CutInto(list, plan, m) ==
  /\ list # <<>> /\ Len(list) \in Nat \ {0} /\ DOMAIN list = 1 .. Len(list)
  /\ list[1].from = 0 /\ list[Len(list)].till = D
  /\ \A c \in 1 .. Len(list) - 1 : list[c].till = list[c + 1].from /\ list[c].shot < list[c + 1].shot
  /\ \A c \in 1 .. Len(list) : Len(list) > 1 => list[c].till - list[c].from >= MinClip
  /\ \A c \in 2 .. Len(list) : list[c].shot \in 2 .. m /\ list[c].from = plan[list[c].shot].from
  /\ \A k \in 2 .. m : Enough(plan[k]) => \E c \in 1 .. Len(list) : list[c].shot = k
  /\ MinClip <= plan[1].till => \E c \in 1 .. Len(list) : list[c].shot = 1

LEMMA MergedIsCut ==
  ASSUME NEW m \in Nat \ {0}, NEW plan, Tiles(plan, m)
  PROVE  CutInto(Merged(plan), plan, m)
<1>1. PICK all : MergedTo(all, m, plan) /\ Merged(plan) = FirstMerged(all)
  BY MergedAll
<1> DEFINE n == Len(all)
<1>2. /\ all \in Seq(Clip) /\ all # <<>> /\ n \in Nat \ {0} /\ DOMAIN all = 1 .. n
      /\ 1 \in 1 .. n /\ n \in 1 .. n /\ all \in [1 .. n -> Clip]
  BY <1>1 DEF MergedTo
<1> HIDE DEF n
<1>3. \A c \in 1 .. n : /\ all[c].from \in Nat /\ all[c].till \in Nat /\ all[c].shot \in 1 .. m
                        /\ all[c].from = plan[all[c].shot].from
  BY <1>1 DEF MergedTo, n
<1>4. \A c \in 2 .. n : /\ all[c - 1].till = all[c].from /\ all[c - 1].shot < all[c].shot
                        /\ MinClip <= all[c].till - all[c].from
  BY <1>1 DEF MergedTo, n, Enough
<1>5. /\ all[1].shot = 1 /\ plan[1].till <= all[1].till /\ all[n].till = D /\ all[1].from = 0
      /\ plan[1].till \in Nat /\ MinClip \in Nat
  <2>1. 1 \in 1 .. m
    OBVIOUS
  <2>2. plan[m].till = D /\ plan[1].from = 0 /\ plan[1].till \in Nat
    BY <2>1 DEF Tiles
  <2>3. all[1].shot = 1 /\ plan[1].till <= all[1].till /\ all[n].till = D
    BY <1>1, <2>2 DEF MergedTo, n
  <2> QED  BY <1>2, <1>3, <2>2, <2>3, TimesAreTicks
<1>6. \A k \in 2 .. m : Enough(plan[k]) => \E c \in 2 .. n : all[c].shot = k
  BY <1>1 DEF MergedTo, n
<1>7. \A c \in 2 .. n : all[c].shot \in 2 .. m /\ all[c].from = plan[all[c].shot].from
  <2> TAKE c \in 2 .. n
  <2>1. c \in 1 .. n /\ c - 1 \in 1 .. n
    BY <1>2
  <2>2. all[c].shot \in 1 .. m /\ all[c - 1].shot \in 1 .. m /\ all[c - 1].shot < all[c].shot
    BY <1>3, <1>4, <2>1
  <2> QED  BY <1>3, <2>1, <2>2
<1>8. \A c \in 1 .. n - 1 : all[c].till = all[c + 1].from /\ all[c].shot < all[c + 1].shot
  <2> TAKE c \in 1 .. n - 1
  <2>1. c + 1 \in 2 .. n /\ (c + 1) - 1 = c
    BY <1>2
  <2> QED  BY <1>4, <2>1
<1>9. CASE ~ (n > 1 /\ all[1].till - all[1].from < MinClip)
  <2>1. Merged(plan) = all
    BY <1>1, <1>9 DEF FirstMerged, n
  <2>2. \A c \in 1 .. n : n > 1 => all[c].till - all[c].from >= MinClip
    <3> TAKE c \in 1 .. n
    <3>1. CASE c = 1
      BY <1>2, <1>3, <1>5, <1>9, <3>1
    <3>2. CASE c # 1
      <4>1. c \in 2 .. n
        BY <1>2, <3>2
      <4> QED  BY <1>3, <1>4, <1>5, <4>1
    <3> QED  BY <3>1, <3>2
  <2>3. \A k \in 2 .. m : Enough(plan[k]) => \E c \in 1 .. n : all[c].shot = k
    <3>1. \A c \in 2 .. n : c \in 1 .. n
      OBVIOUS
    <3> QED  BY <1>6, <3>1
  <2>4. CutInto(all, plan, m)
    BY <1>2, <1>5, <1>7, <1>8, <2>2, <2>3 DEF CutInto, n
  <2> QED  BY <2>1, <2>4
<1>10. CASE n > 1 /\ all[1].till - all[1].from < MinClip
  <2> DEFINE rest == Tail(all)
             cut == [rest EXCEPT ![1].from = all[1].from]
             k == n - 1
  <2>1. Merged(plan) = cut
    BY <1>1, <1>10 DEF FirstMerged, n
  <2>2. k \in Nat \ {0} /\ \A c \in 1 .. k : c + 1 \in 2 .. n
    BY <1>2, <1>10
  <2>3. rest \in Seq(Clip) /\ Len(rest) = k /\ \A c \in 1 .. k : rest[c] = all[c + 1]
    BY <1>2 DEF n
  <2> HIDE DEF rest, k
  <2>4. rest \in [1 .. k -> Clip] /\ DOMAIN rest = 1 .. k /\ 1 \in 1 .. k
    BY <2>2, <2>3
  <2>5. PICK q \in Nat, f \in Int, l \in Int : rest[1] = [shot |-> q, from |-> f, till |-> l]
    <3>1. rest[1] \in Clip
      BY <2>4
    <3> QED  BY <3>1 DEF Clip
  <2> DEFINE new == [rest[1] EXCEPT !.from = all[1].from]
  <2>6. new = [shot |-> q, from |-> 0, till |-> l]
    BY <1>5, <2>5
  <2>7. new \in Clip /\ new.shot = rest[1].shot /\ new.from = 0 /\ new.till = rest[1].till
    BY <2>5, <2>6 DEF Clip
  <2>8. cut = [rest EXCEPT ![1] = new]
    OBVIOUS
  <2> HIDE DEF new, cut
  <2>9. cut \in [1 .. k -> Clip] /\ cut[1] = new /\ \A c \in 1 .. k : c # 1 => cut[c] = rest[c]
    BY <2>4, <2>7, <2>8
  <2>10. cut \in Seq(Clip) /\ Len(cut) = k /\ DOMAIN cut = 1 .. k /\ cut # <<>>
    BY <2>2, <2>9, ListsAreSequences
  <2>11. \A c \in 1 .. k : /\ cut[c].shot = all[c + 1].shot /\ cut[c].till = all[c + 1].till
                           /\ cut[c].from = IF c = 1 THEN 0 ELSE all[c + 1].from
    BY <2>3, <2>7, <2>9
  <2>12. cut[1].from = 0 /\ cut[k].till = D
    <3>1. k \in 1 .. k /\ k + 1 = n
      BY <1>2, <2>2 DEF k
    <3> QED  BY <1>5, <2>4, <2>11, <3>1
  <2>13. ASSUME NEW c \in 1 .. k - 1  PROVE cut[c].till = cut[c + 1].from /\ cut[c].shot < cut[c + 1].shot
    <3>1. c \in 1 .. k /\ c + 1 \in 1 .. k /\ c + 1 # 1 /\ c + 1 \in 1 .. n - 1
      BY <1>2, <2>2 DEF k
    <3> QED  BY <1>8, <2>11, <3>1
  <2>14. ASSUME NEW c \in 1 .. k  PROVE cut[c].till - cut[c].from >= MinClip
    <3>1. MinClip <= all[c + 1].till - all[c + 1].from /\ all[c + 1].from \in Nat /\ all[c + 1].till \in Nat
      <4>1. c + 1 \in 2 .. n /\ c + 1 \in 1 .. n
        BY <2>2
      <4> QED  BY <1>3, <1>4, <4>1
    <3> QED  BY <1>5, <2>11, <3>1
  <2>15. ASSUME NEW c \in 2 .. k  PROVE cut[c].shot \in 2 .. m /\ cut[c].from = plan[cut[c].shot].from
    <3>1. c \in 1 .. k /\ c # 1 /\ c + 1 \in 2 .. n
      BY <2>2
    <3> QED  BY <1>7, <2>11, <3>1
  <2>16. ASSUME NEW j \in 2 .. m, Enough(plan[j])  PROVE \E c \in 1 .. k : cut[c].shot = j
    <3>1. PICK c \in 2 .. n : all[c].shot = j
      BY <1>6, <2>16
    <3>2. c - 1 \in 1 .. k /\ (c - 1) + 1 = c
      BY <1>2 DEF k
    <3>3. cut[c - 1].shot = j
      BY <2>11, <3>1, <3>2
    <3> QED  BY <3>2, <3>3
  <2>17. ~ MinClip <= plan[1].till
    BY <1>2, <1>3, <1>5, <1>10
  <2>18. CutInto(cut, plan, m)
    BY <2>2, <2>10, <2>12, <2>13, <2>14, <2>15, <2>16, <2>17 DEF CutInto
  <2> QED  BY <2>1, <2>18
<1> QED  BY <1>9, <1>10
-----------------------------------------------------------------------------
(* What is cut, and the steps to it.                                        *)

LEMMA CutsAreCut ==
  ASSUME NEW text \in Text, NEW list, InStory(list), NEW times, Follow(times, Words(text)),
         NEW m \in 0 .. Len(list), Kept(text, list) = 1 .. m
  PROVE  /\ m = 0 => Cuts(text, list, times) = <<[shot |-> 1, from |-> 0, till |-> D]>>
         /\ m # 0 => CutInto(Cuts(text, list, times), PlanOf(Scheduled(list, m, Windows(text, times)), m), m)
         /\ \A j \in 1 .. m : list[j].first \in 1 .. Len(text)
<1> DEFINE w == Windows(text, times)
           T == Len(text)
           s == Scheduled(list, m, w)
           plan == PlanOf(s, m)
<1>1. m \in Nat /\ T \in Nat /\ Follow(w, T)
  BY TextIsOfWords, WindowsFollow DEF InStory
<1>2. \A j \in 1 .. m : list[j].first \in 1 .. T
  <2> TAKE j \in 1 .. m
  <2>1. j \in Kept(text, list) /\ j \in 1 .. Len(list)
    BY DEF InStory
  <2>2. list[j].first <= T
    BY <2>1 DEF Kept
  <2>3. j \in 1 .. j
    OBVIOUS
  <2>4. list[j].first \in Nat \ {0}
    BY <2>1, <2>3, FirstsGrow
  <2> QED  BY <1>1, <2>2, <2>4
<1> DEFINE kept == Kept(text, list)
<1>3. /\ Cuts(text, list, times) = IF kept = {} THEN <<[shot |-> 1, from |-> 0, till |-> D]>>
                                   ELSE Merged(Planned(list, kept, w))
      /\ kept = 1 .. m
  BY DEF Cuts
<1> HIDE DEF T, w, kept
<1>4. CASE m = 0
  <2>1. 1 .. m = {}
    BY <1>4
  <2> QED  BY <1>2, <1>3, <1>4, <2>1 DEF T
<1>5. CASE m # 0
  <2>1. 1 .. m # {} /\ m \in Nat \ {0}
    <3>1. 1 \in 1 .. m
      BY <1>1, <1>5
    <3> QED  BY <3>1, <1>5, <1>1
  <2>2. Cuts(text, list, times) = Merged(plan)
    <3>1. Cuts(text, list, times) = Merged(Planned(list, kept, w))
      BY <1>3, <2>1
    <3>2. Planned(list, kept, w) = PlanOf(Scheduled(list, m, w), m)
      <4>1. Opened(T, w, list, m)
        BY <1>1, <1>2 DEF Opened
      <4> QED  BY <1>3, <4>1, PlannedIs
    <3> QED  BY <3>1, <3>2, Zenon
  <2>3. Grow(s, m) /\ \A i \in 1 .. m : s[i] <= D
    BY <1>1, <1>2, ScheduleGrows
  <2> HIDE DEF s
  <2>4. Tiles(plan, m)
    BY <2>1, <2>3, PlanTiles
  <2> HIDE DEF plan
  <2>5. CutInto(Merged(plan), plan, m)
    BY <2>1, <2>4, MergedIsCut
  <2> QED  BY <1>2, <1>5, <2>2, <2>5 DEF plan, s, w, T
<1> QED  BY <1>4, <1>5

TimelineInv ==
  /\ step \in {"none", "written", "approved", "edited", "spoken", "timed", "cut"}
  /\ step # "none" => narration \in Narrations
  /\ step \in {"approved", "edited", "spoken", "timed", "cut"} => InStory(shots)
  /\ step \in {"spoken", "timed", "cut"} => Follow(timings, Words(narration))
  /\ step = "spoken" \/ told => timings = Provisional(Words(narration))
  /\ told => step \in {"timed", "cut"}
  /\ step = "cut" => clips = Cuts(narration, shots, timings)

LEMMA NarrationsAreTexts == \A text \in Narrations : text \in Text
  BY TextsAreSpoken DEF Text

LEMMA CutIsRight ==
  ASSUME TimelineInv, step = "cut"
  PROVE  ClipsTileTheScene /\ CutsFollowTheSpeech
<1> DEFINE w == Windows(narration, timings)
           T == Len(narration)
           k == Len(clips)
<1>1. /\ narration \in Text /\ InStory(shots) /\ Follow(timings, Words(narration))
      /\ clips = Cuts(narration, shots, timings)
  BY NarrationsAreTexts DEF TimelineInv
<1>2. PICK m \in 0 .. Len(shots) : Kept(narration, shots) = 1 .. m
  BY <1>1, KeptIsAPrefix
<1> DEFINE s == Scheduled(shots, m, w)
           plan == PlanOf(s, m)
<1>3. /\ m = 0 => clips = <<[shot |-> 1, from |-> 0, till |-> D]>>
      /\ m # 0 => CutInto(clips, plan, m)
      /\ \A j \in 1 .. m : shots[j].first \in 1 .. T
  BY <1>1, <1>2, CutsAreCut
<1>4. /\ m \in Nat /\ m <= Len(shots) /\ Len(shots) \in Nat /\ T \in Nat /\ Follow(w, T) /\ D \in Nat /\ MinClip \in Nat
      /\ DOMAIN shots = 1 .. Len(shots) /\ DOMAIN w = 1 .. T
  <2>1. Len(shots) \in Nat /\ DOMAIN shots = 1 .. Len(shots)
    BY <1>1 DEF InStory
  <2>2. T \in Nat /\ Follow(w, T)
    BY <1>1, TextIsOfWords, WindowsFollow
  <2>3. DOMAIN w = 1 .. T
    BY DEF Windows, Sentences
  <2> QED  BY <1>2, <2>1, <2>2, <2>3, TimesAreTicks
<1>5. \A i \in DOMAIN shots : shots[i].first \in DOMAIN w => i \in 1 .. m
  <2>1. \A i \in DOMAIN shots : shots[i].first \in 1 .. T => i \in Kept(narration, shots)
    BY <1>4 DEF Kept
  <2> QED  BY <1>2, <1>4, <2>1
<1> HIDE DEF w, T
<1>6. CASE m = 0
  <2>1. clips = <<[shot |-> 1, from |-> 0, till |-> D]>>
    BY <1>3, <1>6
  <2>2. Len(clips) = 1 /\ clips[1].from = 0 /\ clips[1].till = D /\ clips # <<>> /\ DOMAIN clips = {1}
    BY <2>1
  <2>3. 1 .. Len(clips) - 1 = {} /\ DOMAIN clips \ {1} = {} /\ ~ Len(clips) > 1
    BY <2>2
  <2>4. ClipsTileTheScene
    BY <2>2, <2>3 DEF ClipsTileTheScene
  <2>5. \A i \in DOMAIN shots : ~ shots[i].first \in DOMAIN w
    BY <1>5, <1>6
  <2>6. CutsFollowTheSpeech
    BY <2>3, <2>5 DEF CutsFollowTheSpeech, w
  <2> QED  BY <2>4, <2>6
<1>7. CASE m # 0
  <2>1. CutInto(clips, plan, m)
    BY <1>3, <1>7
  <2>2. k \in Nat \ {0} /\ DOMAIN clips = 1 .. k
    BY <2>1 DEF CutInto
  <2>3. ClipsTileTheScene
    <3>1. /\ clips # <<>> /\ clips[1].from = 0 /\ clips[Len(clips)].till = D
          /\ \A c \in 1 .. Len(clips) - 1 : clips[c].till = clips[c + 1].from
          /\ \A c \in 1 .. Len(clips) : Len(clips) > 1 => clips[c].till - clips[c].from >= MinClip
      BY <2>1 DEF CutInto
    <3>2. DOMAIN clips = 1 .. Len(clips)
      BY <2>2
    <3> QED  BY <3>1, <3>2 DEF ClipsTileTheScene
  <2>4. ASSUME NEW i \in 1 .. m
        PROVE  /\ BeginsAt(shots, m, w, i) \in Nat /\ Share(shots, m, w, i) \in Nat
               /\ WindowOf(shots, w, i).from <= BeginsAt(shots, m, w, i)
               /\ BeginsAt(shots, m, w, i) < WindowOf(shots, w, i).till
               /\ BeginsAt(shots, m, w, i) + Share(shots, m, w, i) <= D
               /\ i < m => /\ BeginsAt(shots, m, w, i) + Share(shots, m, w, i) <= BeginsAt(shots, m, w, i + 1)
                           /\ BeginsAt(shots, m, w, i + 1) \in Nat
    BY <1>1, <1>3, <1>4, StartsFollow
  <2>5. ASSUME NEW i \in 1 .. m
        PROVE  /\ plan[i].from = IF i = 1 THEN 0 ELSE BeginsAt(shots, m, w, i)
               /\ plan[i].till = IF i = m THEN D ELSE BeginsAt(shots, m, w, i + 1)
    <3>1. i # m => i + 1 \in 1 .. m
      BY <1>4
    <3> QED  BY <3>1 DEF PlanOf, Scheduled
  <2> HIDE DEF plan, k
  <2>6. ASSUME NEW c \in DOMAIN clips \ {1}
        PROVE  /\ w[shots[clips[c].shot].first].from <= clips[c].from
               /\ clips[c].from < w[shots[clips[c].shot].first].till
    <3>1. c \in 2 .. k
      BY <2>2
    <3>2. clips[c].shot \in 2 .. m /\ clips[c].from = plan[clips[c].shot].from
      BY <2>1, <3>1 DEF CutInto, k
    <3> DEFINE j == clips[c].shot
    <3>3. j \in 1 .. m /\ j # 1
      BY <1>4, <3>2
    <3>4. clips[c].from = BeginsAt(shots, m, w, j)
      BY <2>5, <3>2, <3>3
    <3> QED  BY <2>4, <3>3, <3>4 DEF WindowOf
  <2>7. \A c \in 1 .. k - 1 : clips[c].shot < clips[c + 1].shot
    BY <2>1 DEF CutInto, k
  <2>8. ASSUME NEW i \in DOMAIN shots, shots[i].first \in DOMAIN w,
               (w[shots[i].first].till - w[shots[i].first].from)
                 \div Cardinality({j \in DOMAIN shots : shots[j].first = shots[i].first}) > MinClip
        PROVE  \E c \in DOMAIN clips : clips[c].shot = i
    <3>1. i \in 1 .. m
      BY <1>5, <2>8
    <3>2. {j \in DOMAIN shots : shots[j].first = shots[i].first} = Alike(shots, m, i)
      <4>1. \A j \in DOMAIN shots : shots[j].first = shots[i].first => j \in 1 .. m
        BY <1>5, <2>8
      <4>2. \A j \in 1 .. m : j \in DOMAIN shots
        BY <1>4
      <4> QED  BY <4>1, <4>2 DEF Alike
    <3>3. Share(shots, m, w, i) > MinClip
      BY <2>8, <3>2 DEF Share, WindowOf
    <3> DEFINE a == BeginsAt(shots, m, w, i)
               b == BeginsAt(shots, m, w, i + 1)
               h == Share(shots, m, w, i)
    <3>4. a \in Nat /\ h \in Nat /\ h > MinClip /\ a + h <= D /\ (i < m => a + h <= b /\ b \in Nat)
      BY <2>4, <3>1, <3>3
    <3>5. plan[i].from = (IF i = 1 THEN 0 ELSE a) /\ plan[i].till = (IF i = m THEN D ELSE b)
      BY <2>5, <3>1
    <3> HIDE DEF a, b, h
    <3>6. CASE i = 1
      <4>1. MinClip <= plan[1].till
        BY <1>4, <3>1, <3>4, <3>5, <3>6
      <4>2. \E c \in 1 .. k : clips[c].shot = 1
        BY <2>1, <4>1 DEF CutInto, k
      <4> QED  BY <2>2, <3>6, <4>2
    <3>7. CASE i # 1
      <4>1. i \in 2 .. m
        BY <1>4, <3>1, <3>7
      <4>2. MinClip <= plan[i].till - plan[i].from
        BY <1>4, <3>1, <3>4, <3>5, <3>7
      <4>3. \E c \in 1 .. k : clips[c].shot = i
        BY <2>1, <4>1, <4>2 DEF CutInto, Enough, k
      <4> QED  BY <2>2, <4>3
    <3> QED  BY <3>6, <3>7
  <2>9. CutsFollowTheSpeech
    BY <2>6, <2>7, <2>8 DEF CutsFollowTheSpeech, w, k
  <2> QED  BY <2>3, <2>9
<1> QED  BY <1>6, <1>7

LEMMA TimelineStarts == TimelineInit => TimelineInv
  BY DEF TimelineInit, TimelineInv

LEMMA HeardIsReconciled ==
  ASSUME NEW text \in Narrations, NEW times \in Outcomes[Words(text)], times # NoTimings
  PROVE  Follow(times, Words(text))
<1> DEFINE n == Words(text)
<1>1. n \in Nat
  <2>1. text \in Text
    BY NarrationsAreTexts
  <2>2. 1 \in 1 .. Len(text)
    BY <2>1, TextIsOfWords
  <2> QED  BY <2>1, <2>2, WordsGrow
<1>2. Outcomes[n] = {Reconciled(heard) : heard \in [1 .. n -> Heard]}
  <2>1. n \in {Words(t) : t \in Narrations}
    OBVIOUS
  <2> HIDE DEF n
  <2> QED  BY <2>1 DEF Outcomes
<1> HIDE DEF n
<1>3. PICK heard \in [1 .. n -> Heard] : times = Reconciled(heard)
  BY <1>2 DEF n
<1>4. Follow(Reconciled(heard), n)
  BY <1>1, <1>3, ReconciledFollows
<1> QED  BY <1>3, <1>4 DEF n

LEMMA SpeechIsValid ==
  ASSUME NEW text \in Narrations, NEW times, Follow(times, Words(text))
  PROVE  Valid(Windows(text, times))
<1> DEFINE w == Windows(text, times)
<1>1. Follow(w, Len(text)) /\ Len(text) \in Nat
  BY NarrationsAreTexts, WindowsFollow, TextIsOfWords
<1>2. DOMAIN w = 1 .. Len(text)
  BY DEF Windows, Sentences
<1> HIDE DEF w
<1>3. Valid(w)
  BY <1>1, <1>2 DEF Valid, Follow
<1> QED  BY <1>3 DEF w

LEMMA TimelineKeeps == TimelineInv /\ [TimelineNext]_timelineVars => TimelineInv'
<1> SUFFICES ASSUME TimelineInv, [TimelineNext]_timelineVars  PROVE TimelineInv'
  OBVIOUS
<1>1. CASE Narrate
  BY <1>1 DEF Narrate, TimelineInv
<1>2. CASE BreakDown
  <2>1. narration \in Narrations /\ ~ told
    BY <1>2 DEF BreakDown, TimelineInv
  <2>2. InStory(shots')
    <3>1. PICK cover \in Covers(Len(narration)), empty \in SUBSET Sentences(narration) :
             shots' = Prompted(cover, empty \cap DOMAIN cover)
      BY <1>2 DEF BreakDown
    <3>2. Len(narration) \in Nat
      BY <2>1, NarrationsAreTexts, TextIsOfWords
    <3> QED  BY <3>1, <3>2, PromptedInStory
  <2> QED  BY <1>2, <2>1, <2>2 DEF BreakDown, TimelineInv
<1>3. CASE Edit
  BY <1>3 DEF Edit, TimelineInv
<1>4. CASE Speak
  <2>1. narration \in Narrations /\ InStory(shots) /\ ~ told
    BY <1>4 DEF Speak, TimelineInv
  <2> DEFINE n == Words(narration)
  <2>2. n \in 1 .. D
    <3>1. narration \in Text
      BY <2>1, NarrationsAreTexts
    <3>2. 1 \in 1 .. Len(narration)
      BY <3>1, TextIsOfWords
    <3>3. n \in Nat \ {0}
      BY <3>1, <3>2, WordsGrow
    <3>4. D >= n /\ D \in Nat
      BY <1>4, TimesAreTicks DEF Speak
    <3> QED  BY <3>3, <3>4
  <2>3. Follow(Provisional(n), n)
    BY <2>2, ProvisionalFollows
  <2> QED  BY <1>4, <2>1, <2>3 DEF Speak, TimelineInv
<1>5. CASE Aligned
  <2>1. /\ narration \in Narrations /\ InStory(shots) /\ Follow(timings, Words(narration))
        /\ timings = Provisional(Words(narration))
    BY <1>5 DEF Aligned, TimelineInv
  <2>2. PICK times \in Outcomes[Words(narration)] :
          /\ timings' = IF times = NoTimings THEN timings ELSE times
          /\ told' = (times = NoTimings)
          /\ step' = IF Valid(Windows(narration, timings')) THEN "timed" ELSE "failed"
    BY <1>5, Zenon DEF Aligned
  <2>3. Follow(timings', Words(narration))
    BY <2>1, <2>2, HeardIsReconciled
  <2>4. step' = "timed"
    <3> DEFINE now == timings'
    <3>1. Follow(now, Words(narration)) /\ step' = IF Valid(Windows(narration, now)) THEN "timed" ELSE "failed"
      BY <2>2, <2>3
    <3> HIDE DEF now
    <3> QED  BY <2>1, <3>1, SpeechIsValid
  <2>5. UNCHANGED <<narration, shots, clips>>
    BY <1>5 DEF Aligned
  <2>6. told' => timings' = Provisional(Words(narration))
    BY <2>1, <2>2
  <2> QED  BY <2>1, <2>3, <2>4, <2>5, <2>6 DEF TimelineInv
<1>6. CASE Unaligned
  <2>1. /\ narration \in Narrations /\ InStory(shots) /\ Follow(timings, Words(narration))
        /\ timings = Provisional(Words(narration))
    BY <1>6 DEF Unaligned, TimelineInv
  <2>2. step' = "timed"
    BY <1>6, <2>1, SpeechIsValid DEF Unaligned
  <2> QED  BY <1>6, <2>1, <2>2 DEF Unaligned, TimelineInv
<1>7. CASE Cut
  BY <1>7 DEF Cut, TimelineInv
<1>8. CASE UNCHANGED timelineVars
  BY <1>8 DEF timelineVars, TimelineInv
<1> QED  BY <1>1, <1>2, <1>3, <1>4, <1>5, <1>6, <1>7, <1>8 DEF TimelineNext

LEMMA TimelineFollows == TimelineInv => ImagesFollowTheSpeech
<1> SUFFICES ASSUME TimelineInv  PROVE ImagesFollowTheSpeech
  OBVIOUS
<1>1. AlignmentNeverFails
  <2>1. step # "failed"
    BY DEF TimelineInv
  <2>2. told => timings = Provisional(Words(narration))
    BY DEF TimelineInv
  <2>3. ASSUME step \in {"timed", "cut"}
        PROVE  \A i \in DOMAIN timings : /\ timings[i].from < timings[i].till /\ timings[i].till <= D
                                         /\ i > 1 => timings[i - 1].till <= timings[i].from
    <3>1. Follow(timings, Words(narration))
      BY <2>3 DEF TimelineInv
    <3> QED  BY <3>1 DEF Follow
  <2> QED  BY <2>1, <2>2, <2>3 DEF AlignmentNeverFails
<1>2. step = "cut" => ClipsTileTheScene /\ CutsFollowTheSpeech
  BY CutIsRight
<1> QED  BY <1>1, <1>2 DEF ImagesFollowTheSpeech

-----------------------------------------------------------------------------
(* Where the cast of a shot stands.                                         *)

Cast(n) == [1 .. n -> Member]
Upright(cast) == \A i \in DOMAIN cast : Straight(cast[i])
Apart(cast) == \A i, j \in DOMAIN cast : cast[i].pos = cast[j].pos => i = j \/ Crowded(cast)
OnceEach(cast) == \A i, j \in DOMAIN cast : cast[i].key = cast[j].key => i = j

LEMMA ReassignedIs ==
  ASSUME NEW m \in Member, NEW pos \in Positions, NEW r, r = Reassigned(m, pos)
  PROVE  /\ r \in Member /\ r.key = m.key /\ r.depth = m.depth /\ r.pos = pos
         /\ Straight(r)
<1> DEFINE mode == Mode[m.key]
           dir == RepairMovement(mode, m.dir, pos)
<1>1. mode \in Modes /\ m.key \in Keys \cup Strangers /\ m.depth \in Depths /\ m.dir \in Directions
  BY ModesKnown DEF Member
<1> HIDE DEF mode
<1>2. dir \in Directions
  BY <1>1 DEF RepairMovement, Directions, Modes, Positions
<1>3. mode = "cross" => dir # pos
  BY <1>1 DEF RepairMovement, Positions
<1> HIDE DEF dir
<1>4. r = [key |-> m.key, pos |-> pos, depth |-> m.depth, dir |-> dir]
  BY DEF Reassigned, dir, mode
<1>5. r \in Member /\ r.key = m.key /\ r.depth = m.depth /\ r.pos = pos /\ r.dir = dir
  BY <1>1, <1>2, <1>4 DEF Member
<1> QED  BY <1>3, <1>5 DEF Straight, mode

LEMMA BestIsFree ==
  ASSUME NEW pos \in Positions, NEW taken
  PROVE  /\ Free(pos, taken) \subseteq Positions
         /\ \A p \in Positions : p \in Free(pos, taken) <=> p \notin taken /\ p # pos
         /\ Free(pos, taken) # {} => Best(pos, Free(pos, taken)) \in Free(pos, taken)
<1> DEFINE free == Free(pos, taken)
<1>1. free \subseteq Positions /\ \A p \in Positions : p \in free <=> p \notin taken /\ p # pos
  BY DEF Free
<1>2. /\ Preferences["left"][1] = "right" /\ Preferences["left"][2] = "center"
      /\ Preferences["center"][1] = "left" /\ Preferences["center"][2] = "right"
      /\ Preferences["right"][1] = "left" /\ Preferences["right"][2] = "center"
  BY DEF Preferences
<1> HIDE DEF free
<1>3. free # {} => Best(pos, free) \in free
  <2>1. CASE pos = "left"
    BY <1>1, <1>2, <2>1 DEF Best, Positions
  <2>2. CASE pos = "center"
    BY <1>1, <1>2, <2>2 DEF Best, Positions
  <2>3. CASE pos = "right"
    BY <1>1, <1>2, <2>3 DEF Best, Positions
  <2> QED  BY <2>1, <2>2, <2>3 DEF Positions
<1> QED  BY <1>1, <1>3 DEF free

LEMMA SlotsAre ==
  ASSUME NEW n \in Nat, NEW cast \in Cast(n)
  PROVE  /\ cast \in Seq(Member) /\ Len(cast) = n /\ DOMAIN cast = 1 .. n
         /\ \A i \in 1 .. n : cast[i] \in Member /\ cast[i].pos \in Positions
         /\ Slots(cast) = {cast[i].pos : i \in 1 .. n} /\ Slots(cast) \subseteq Positions
<1>1. cast \in Seq(Member) /\ Len(cast) = n /\ DOMAIN cast = 1 .. n
  BY DEF Cast
<1>2. \A i \in 1 .. n : cast[i] \in Member /\ cast[i].pos \in Positions
  BY DEF Cast, Member
<1>3. Slots(cast) = {cast[i].pos : i \in 1 .. n}
  BY <1>1 DEF Slots
<1> QED  BY <1>1, <1>2, <1>3

-----------------------------------------------------------------------------
(* R1.                                                                      *)

Settled(n) == [cast : Cast(n), occupied : SUBSET Positions, full : BOOLEAN]
Settling(cast, n, i, was) ==
  /\ was \in Settled(n)
  /\ \A j \in 1 .. n : /\ was.cast[j].key = cast[j].key /\ was.cast[j].depth = cast[j].depth
                       /\ First(cast, j) \/ i < j => was.cast[j] = cast[j]
                       /\ Straight(was.cast[j])
  /\ was.full => Crowded(was.cast)
  /\ ~was.full => /\ was.occupied = {was.cast[j].pos : j \in 1 .. i}
                  /\ \A j, k \in 1 .. i : was.cast[j].pos = was.cast[k].pos => j = k
                  /\ \A j \in i + 1 .. n : First(cast, j) => cast[j].pos \notin was.occupied
  /\ Apart(cast) => was.cast = cast

LEMMA SettleKeeps ==
  ASSUME NEW n \in Nat, NEW cast \in Cast(n), NEW i \in 1 .. n,
         NEW was, Settling(cast, n, i - 1, was), NEW now, now = Settle(was, i)
  PROVE  Settling(cast, n, i, now)
<1> DEFINE m == was.cast[i]
           others == Reserved(was.cast, i, was.occupied)
           taken == was.occupied \cup others
           free == Free(m.pos, taken)
           moved == Reassigned(m, Best(m.pos, free))
<1>1. /\ was.cast \in Cast(n) /\ was.occupied \subseteq Positions /\ was.full \in BOOLEAN
      /\ was = [cast |-> was.cast, occupied |-> was.occupied, full |-> was.full]
  BY DEF Settling, Settled
<1>2. /\ Len(was.cast) = n /\ DOMAIN was.cast = 1 .. n
      /\ \A j \in 1 .. n : was.cast[j] \in Member /\ was.cast[j].pos \in Positions
      /\ Len(cast) = n /\ DOMAIN cast = 1 .. n
      /\ Slots(was.cast) = {was.cast[j].pos : j \in 1 .. n}
  BY <1>1, SlotsAre
<1>3. m \in Member /\ m.pos \in Positions /\ m = cast[i] /\ i \in Nat /\ i - 1 < i
  BY <1>2 DEF Settling
<1>4. others = {cast[j].pos : j \in i + 1 .. n} \ was.occupied
  <2>1. \A j \in i + 1 .. n : was.cast[j] = cast[j]
    BY DEF Settling
  <2> QED  BY <1>2, <2>1 DEF Reserved
<1>5. /\ free \subseteq Positions
      /\ \A p \in Positions : p \in free <=> p \notin taken /\ p # m.pos
      /\ free # {} => Best(m.pos, free) \in free
  BY <1>3, BestIsFree
<1>6. now = IF was.full THEN was
            ELSE IF m.pos \notin was.occupied THEN [was EXCEPT !.occupied = @ \cup {m.pos}]
            ELSE IF free = {} THEN [was EXCEPT !.full = TRUE]
            ELSE [cast |-> [was.cast EXCEPT ![i] = moved],
                  occupied |-> was.occupied \cup {moved.pos}, full |-> FALSE]
  BY DEF Settle
<1>7. ~was.full => /\ was.occupied = {was.cast[j].pos : j \in 1 .. i - 1}
                   /\ \A j, k \in 1 .. i - 1 : was.cast[j].pos = was.cast[k].pos => j = k
                   /\ \A j \in i .. n : First(cast, j) => cast[j].pos \notin was.occupied
  BY <1>3 DEF Settling
<1>8. /\ \A j \in 1 .. n : /\ was.cast[j].key = cast[j].key /\ was.cast[j].depth = cast[j].depth
                           /\ First(cast, j) \/ i - 1 < j => was.cast[j] = cast[j]
                           /\ Straight(was.cast[j])
      /\ was.full => Crowded(was.cast)
      /\ Apart(cast) => was.cast = cast
  BY DEF Settling
<1> HIDE DEF m, others, taken, free, moved
<1>9. CASE was.full
  <2>1. now = was
    BY <1>6, <1>9
  <2> QED  BY <1>8, <1>9, <2>1 DEF Settling
<1>10. CASE ~was.full /\ m.pos \notin was.occupied
  <2>1. now = [cast |-> was.cast, occupied |-> was.occupied \cup {m.pos}, full |-> FALSE]
    BY <1>1, <1>6, <1>10
  <2>2. now.cast = was.cast /\ now.occupied = was.occupied \cup {m.pos} /\ ~now.full
    BY <2>1
  <2>3. now \in Settled(n)
    BY <1>1, <1>3, <2>1 DEF Settled
  <2>4. now.occupied = {was.cast[j].pos : j \in 1 .. i}
    BY <1>3, <1>7, <1>10, <2>2 DEF m
  <2>5. \A j, k \in 1 .. i : was.cast[j].pos = was.cast[k].pos => j = k
    <3>1. \A j \in 1 .. i - 1 : was.cast[j].pos \in was.occupied
      BY <1>7, <1>10
    <3>2. was.cast[i].pos \notin was.occupied
      BY <1>10 DEF m
    <3>3. \A j \in 1 .. i : j = i \/ j \in 1 .. i - 1
      BY <1>3
    <3> QED  BY <1>7, <1>10, <3>1, <3>2, <3>3
  <2>6. \A j \in i + 1 .. n : First(cast, j) => cast[j].pos \notin now.occupied
    <3> TAKE j \in i + 1 .. n
    <3> HAVE First(cast, j)
    <3>1. j \in i .. n /\ i \in 1 .. j - 1
      BY <1>3
    <3>2. cast[i].pos # cast[j].pos
      BY <3>1 DEF First
    <3> QED  BY <1>3, <1>7, <1>10, <2>2, <3>1, <3>2
  <2>7. \A j \in 1 .. n : i < j => i - 1 < j
    BY <1>3
  <2> QED  BY <1>8, <2>2, <2>3, <2>4, <2>5, <2>6, <2>7 DEF Settling
<1>11. CASE ~was.full /\ m.pos \in was.occupied /\ free = {}
  <2>1. now = [cast |-> was.cast, occupied |-> was.occupied, full |-> TRUE]
    BY <1>1, <1>6, <1>11
  <2>2. now.cast = was.cast /\ now.full
    BY <2>1
  <2>3. now \in Settled(n)
    BY <1>1, <2>1 DEF Settled
  <2>4. \A p \in Positions : p \in Slots(was.cast)
    <3> TAKE p \in Positions
    <3>1. p \in was.occupied \/ p \in others
      BY <1>5, <1>11 DEF taken
    <3>2. CASE p \in was.occupied
      BY <1>2, <1>7, <1>11, <3>2
    <3>3. CASE p \in others
      <4>1. PICK j \in i + 1 .. n : p = cast[j].pos
        BY <1>4, <3>3
      <4>2. j \in 1 .. n /\ i - 1 < j
        BY <1>3
      <4>3. was.cast[j] = cast[j]
        BY <1>8, <4>2
      <4> QED  BY <1>2, <4>1, <4>2, <4>3
    <3> QED  BY <3>1, <3>2, <3>3
  <2>5. Crowded(was.cast)
    BY <1>1, <2>4, SlotsAre DEF Crowded
  <2>6. \A j \in 1 .. n : i < j => i - 1 < j
    BY <1>3
  <2> QED  BY <1>8, <2>2, <2>3, <2>5, <2>6 DEF Settling
<1>12. CASE ~was.full /\ m.pos \in was.occupied /\ free # {}
  <2> DEFINE slot == Best(m.pos, free)
  <2>1. slot \in Positions /\ slot \notin was.occupied /\ slot \notin others /\ slot # m.pos
    BY <1>5, <1>12 DEF taken
  <2>2. moved \in Member /\ moved.key = m.key /\ moved.depth = m.depth /\ moved.pos = slot /\ Straight(moved)
    BY <1>3, <2>1, ReassignedIs DEF moved
  <2> HIDE DEF slot
  <2>3. now = [cast |-> [was.cast EXCEPT ![i] = moved],
               occupied |-> was.occupied \cup {moved.pos}, full |-> FALSE]
    BY <1>6, <1>12
  <2>4. now.cast = [was.cast EXCEPT ![i] = moved] /\ now.occupied = was.occupied \cup {slot} /\ ~now.full
    BY <2>2, <2>3
  <2>5. now.cast \in Cast(n) /\ now \in Settled(n)
    BY <1>1, <2>1, <2>2, <2>3, <2>4 DEF Settled, Cast
  <2>6. now.cast[i] = moved /\ \A j \in 1 .. n : j # i => now.cast[j] = was.cast[j]
    BY <1>1, <2>4 DEF Cast
  <2>7. ~First(cast, i)
    BY <1>3, <1>7, <1>12
  <2>8. \A j \in 1 .. n : /\ now.cast[j].key = cast[j].key /\ now.cast[j].depth = cast[j].depth
                          /\ First(cast, j) \/ i < j => now.cast[j] = cast[j]
                          /\ Straight(now.cast[j])
    <3> TAKE j \in 1 .. n
    <3>1. CASE j = i
      BY <1>3, <2>2, <2>6, <2>7, <3>1
    <3>2. CASE j # i
      BY <1>3, <1>8, <2>6, <3>2
    <3> QED  BY <3>1, <3>2
  <2>9. now.occupied = {now.cast[j].pos : j \in 1 .. i}
    <3>1. \A j \in 1 .. i - 1 : now.cast[j] = was.cast[j]
      BY <1>3, <2>6
    <3>2. \A j \in 1 .. i : j = i \/ j \in 1 .. i - 1
      BY <1>3
    <3> QED  BY <1>3, <1>7, <1>12, <2>2, <2>4, <2>6, <3>1, <3>2
  <2>10. \A j, k \in 1 .. i : now.cast[j].pos = now.cast[k].pos => j = k
    <3>1. \A j \in 1 .. i - 1 : now.cast[j].pos = was.cast[j].pos /\ was.cast[j].pos \in was.occupied
      BY <1>3, <1>7, <1>12, <2>6
    <3>2. now.cast[i].pos \notin was.occupied
      BY <2>1, <2>2, <2>6
    <3>3. \A j \in 1 .. i : j = i \/ j \in 1 .. i - 1
      BY <1>3
    <3> QED  BY <1>7, <1>12, <3>1, <3>2, <3>3
  <2>11. \A j \in i + 1 .. n : First(cast, j) => cast[j].pos \notin now.occupied
    <3> TAKE j \in i + 1 .. n
    <3> HAVE First(cast, j)
    <3>1. cast[j].pos \notin was.occupied
      BY <1>3, <1>7, <1>12
    <3>2. cast[j].pos \in others
      BY <1>4, <3>1
    <3> QED  BY <2>1, <2>4, <3>1, <3>2
  <2>12. ~Apart(cast)
    <3> SUFFICES ASSUME Apart(cast)  PROVE FALSE
      OBVIOUS
    <3>1. was.cast = cast
      BY <1>8
    <3>2. PICK k \in 1 .. i - 1 : cast[k].pos = cast[i].pos
      BY <1>3, <1>7, <1>12, <3>1
    <3>3. Crowded(cast)
      BY <1>2, <1>3, <3>2 DEF Apart
    <3>4. PICK j \in 1 .. n : slot = cast[j].pos
      BY <1>2, <2>1, <3>1, <3>3 DEF Crowded
    <3>5. j \in 1 .. i - 1 \/ j = i \/ j \in i + 1 .. n
      BY <1>3
    <3> QED  BY <1>3, <1>4, <1>7, <1>12, <2>1, <3>1, <3>4, <3>5
  <2> QED  BY <2>4, <2>5, <2>8, <2>9, <2>10, <2>11, <2>12 DEF Settling
<1> QED  BY <1>9, <1>10, <1>11, <1>12

LEMMA UnstackedIs ==
  ASSUME NEW n \in Nat, NEW cast \in Cast(n), Upright(cast), NEW out, out = Unstacked(cast)
  PROVE  /\ out \in Cast(n) /\ Upright(out) /\ Apart(out)
         /\ \A j \in 1 .. n : out[j].key = cast[j].key /\ out[j].depth = cast[j].depth
         /\ \A j \in 1 .. n : First(cast, j) => out[j] = cast[j]
         /\ Apart(cast) => out = cast
<1> DEFINE base == [cast |-> cast, occupied |-> {}, full |-> FALSE]
           Built(f) == f = [i \in 0 .. n |-> IF i = 0 THEN base ELSE Settle(f[i - 1], i)]
           settled == CHOOSE f : Built(f)
           next == [i \in 1 .. n |-> [was \in Settled(n) |-> Settle(was, i)]]
<1>1. Len(cast) = n /\ DOMAIN cast = 1 .. n /\ \A j \in 1 .. n : cast[j] \in Member
  BY SlotsAre
<1>2. out = settled[n].cast
  BY <1>1, Zenon DEF Unstacked
<1>3. base \in Settled(n)
  BY DEF Settled
<1>4. ASSUME NEW i \in 1 .. n, NEW was \in Settled(n)  PROVE Settle(was, i) \in Settled(n)
  <2> DEFINE m == was.cast[i]
             free == Free(m.pos, was.occupied \cup Reserved(was.cast, i, was.occupied))
             moved == Reassigned(m, Best(m.pos, free))
  <2>1. /\ was = [cast |-> was.cast, occupied |-> was.occupied, full |-> was.full]
        /\ was.cast \in Cast(n) /\ was.occupied \subseteq Positions /\ was.full \in BOOLEAN
    BY DEF Settled
  <2>2. m \in Member /\ m.pos \in Positions
    BY <2>1, SlotsAre
  <2>3. free # {} => Best(m.pos, free) \in Positions
    BY <2>2, BestIsFree
  <2>4. free # {} => moved \in Member /\ moved.pos \in Positions
    <3> HIDE DEF m, free
    <3>1. ASSUME NEW slot \in Positions, NEW r, r = Reassigned(m, slot)
          PROVE  r \in Member /\ r.pos \in Positions
      BY <2>2, <3>1, ReassignedIs
    <3> QED  BY <2>3, <3>1
  <2>5. Settle(was, i) = IF was.full THEN was
            ELSE IF m.pos \notin was.occupied THEN [was EXCEPT !.occupied = @ \cup {m.pos}]
            ELSE IF free = {} THEN [was EXCEPT !.full = TRUE]
            ELSE [cast |-> [was.cast EXCEPT ![i] = moved],
                  occupied |-> was.occupied \cup {moved.pos}, full |-> FALSE]
    BY DEF Settle
  <2> HIDE DEF m, free, moved
  <2>6. free # {} => [was.cast EXCEPT ![i] = moved] \in Cast(n)
    BY <2>1, <2>4 DEF Cast
  <2>7. CASE was.full
    BY <2>5, <2>7
  <2>8. CASE ~was.full /\ m.pos \notin was.occupied
    <3>1. Settle(was, i) = [cast |-> was.cast, occupied |-> was.occupied \cup {m.pos}, full |-> was.full]
      BY <2>1, <2>5, <2>8
    <3> QED  BY <2>1, <2>2, <3>1 DEF Settled
  <2>9. CASE ~was.full /\ m.pos \in was.occupied /\ free = {}
    <3>1. Settle(was, i) = [cast |-> was.cast, occupied |-> was.occupied, full |-> TRUE]
      BY <2>1, <2>5, <2>9
    <3> QED  BY <2>1, <3>1 DEF Settled
  <2>10. CASE ~was.full /\ m.pos \in was.occupied /\ free # {}
    BY <2>1, <2>4, <2>5, <2>6, <2>10 DEF Settled
  <2> QED  BY <2>7, <2>8, <2>9, <2>10
<1>5. \E f : Built(f)
  <2>1. next \in [1 .. n -> [Settled(n) -> Settled(n)]]
    BY <1>4
  <2>2. \A i \in 1 .. n : \A was \in Settled(n) : next[i][was] = Settle(was, i)
    OBVIOUS
  <2>3. next \in Steps(n, Settled(n))
    BY <2>1 DEF Steps
  <2> HIDE DEF next, base
  <2>4. PICK f : Recurses(f, n, Settled(n), base, next)
    BY <1>3, <2>3, RecursionIsAnswered
  <2>5. f \in [0 .. n -> Settled(n)] /\ f[0] = base /\ \A i \in 1 .. n : f[i] = next[i][f[i - 1]]
    BY <2>4 DEF Recurses
  <2>6. \A i \in 1 .. n : f[i] = Settle(f[i - 1], i)
    <3> TAKE i \in 1 .. n
    <3>1. i - 1 \in 0 .. n
      OBVIOUS
    <3>2. f[i - 1] \in Settled(n)
      BY <2>5, <3>1
    <3> QED  BY <2>2, <2>5, <3>2
  <2>7. Built(f)
    BY <2>5, <2>6
  <2> QED  BY <2>7
<1>6. Built(settled)
  BY <1>5, Zenon
<1> HIDE DEF settled
<1>7. settled[0] = base /\ \A i \in 1 .. n : settled[i] = Settle(settled[i - 1], i)
  <2> HIDE DEF base
  <2> QED  BY <1>6
<1> DEFINE P == {i \in 0 .. n : Settling(cast, n, i, settled[i])}
<1>8. 0 \in P
  <2>1. base.cast = cast /\ base.occupied = {} /\ ~base.full
    OBVIOUS
  <2>2. Settling(cast, n, 0, base)
    BY <1>1, <1>3, <2>1 DEF Settling, Upright
  <2> HIDE DEF base
  <2> QED  BY <1>7, <2>2
<1>9. ASSUME NEW i \in 1 .. n, i - 1 \in P  PROVE i \in P
  <2>1. Settling(cast, n, i - 1, settled[i - 1]) /\ settled[i] = Settle(settled[i - 1], i)
    BY <1>7, <1>9
  <2>2. Settling(cast, n, i, settled[i])
    BY <2>1, SettleKeeps
  <2> QED  BY <2>2
<1> HIDE DEF P
<1>10. n \in P
  BY <1>8, <1>9, FromEachToTheNext
<1> DEFINE was == settled[n]
<1>11. Settling(cast, n, n, was)
  BY <1>10 DEF P
<1> HIDE DEF was
<1>12. out = was.cast /\ was.cast \in Cast(n) /\ DOMAIN was.cast = 1 .. n
  BY <1>2, <1>11 DEF was, Settling, Settled, Cast
<1>13. Apart(out)
  BY <1>11, <1>12 DEF Settling, Apart
<1>14. Upright(out)
  BY <1>11, <1>12 DEF Settling, Upright
<1>15. /\ \A j \in 1 .. n : out[j].key = cast[j].key /\ out[j].depth = cast[j].depth
       /\ \A j \in 1 .. n : First(cast, j) => out[j] = cast[j]
       /\ Apart(cast) => out = cast
  BY <1>11, <1>12 DEF Settling
<1> QED  BY <1>12, <1>13, <1>14, <1>15

-----------------------------------------------------------------------------
(* R3.                                                                      *)

LEMMA ClashesAlike ==
  ASSUME NEW n \in Nat, NEW cast \in Cast(n), NEW other \in Cast(n), NEW framing,
         \A j \in 1 .. n : cast[j].depth = other[j].depth
  PROVE  Clashing(framing, cast) = Clashing(framing, other)
<1>1. Len(cast) = n /\ DOMAIN cast = 1 .. n /\ Len(other) = n /\ DOMAIN other = 1 .. n
  BY SlotsAre
<1>2. {i \in DOMAIN cast : cast[i].depth = "near"} = {i \in DOMAIN other : other[i].depth = "near"}
  BY <1>1
<1>3. {i \in DOMAIN cast : cast[i].depth = "far"} = {i \in DOMAIN other : other[i].depth = "far"}
  BY <1>1
<1> QED  BY <1>1, <1>2, <1>3 DEF Clashing

LEMMA RefocusedIs ==
  ASSUME NEW n \in Nat, NEW cast \in Cast(n), NEW framing, NEW out, out = Refocused(framing, cast)
  PROVE  /\ out \in Cast(n) /\ (Upright(cast) => Upright(out)) /\ (Apart(cast) => Apart(out))
         /\ \A j \in 1 .. n : /\ out[j].key = cast[j].key /\ out[j].pos = cast[j].pos
                              /\ out[j].depth # cast[j].depth <=> j \in Clashing(framing, cast)
         /\ Clashing(framing, cast) = {} => out = cast
         /\ Clashing(framing, out) = {}
<1> DEFINE clash == Clashing(framing, cast)
<1>1. Len(cast) = n /\ DOMAIN cast = 1 .. n /\ \A j \in 1 .. n : cast[j] \in Member
  BY SlotsAre
<1>2. clash \subseteq 1 .. n /\ \A j \in clash : cast[j].depth \in {"near", "far"}
  BY <1>1 DEF Clashing
<1>3. \A j \in 1 .. n : out[j] = IF j \in clash THEN [cast[j] EXCEPT !.depth = "mid"] ELSE cast[j]
  BY <1>1 DEF Refocused
<1>4. DOMAIN out = 1 .. n /\ out = [j \in 1 .. n |-> out[j]]
  BY <1>1 DEF Refocused
<1> HIDE DEF clash
<1>5. ASSUME NEW j \in 1 .. n
      PROVE  /\ out[j] \in Member /\ out[j].key = cast[j].key /\ out[j].pos = cast[j].pos
             /\ out[j].dir = cast[j].dir
             /\ out[j].depth = IF j \in clash THEN "mid" ELSE cast[j].depth
  <2> DEFINE m == cast[j]
             r == out[j]
  <2>1. m \in Member /\ r = IF j \in clash THEN [m EXCEPT !.depth = "mid"] ELSE m
    BY <1>1, <1>3
  <2> HIDE DEF m, r
  <2>2. /\ r \in Member /\ r.key = m.key /\ r.pos = m.pos /\ r.dir = m.dir
        /\ r.depth = IF j \in clash THEN "mid" ELSE m.depth
    BY <2>1 DEF Member, Depths
  <2> QED  BY <2>2 DEF m, r
<1>6. out \in Cast(n)
  BY <1>4, <1>5 DEF Cast
<1>7. Len(out) = n /\ Slots(out) = Slots(cast)
  <2>1. Len(out) = n /\ Slots(out) = {out[j].pos : j \in 1 .. n}
    BY <1>6, SlotsAre
  <2>2. Slots(cast) = {cast[j].pos : j \in 1 .. n}
    BY SlotsAre
  <2>3. \A j \in 1 .. n : out[j].pos = cast[j].pos
    BY <1>5
  <2> QED  BY <2>1, <2>2, <2>3
<1>8. Upright(cast) => Upright(out)
  BY <1>1, <1>4, <1>5 DEF Upright, Straight
<1>9. Apart(cast) => Apart(out)
  <2> SUFFICES ASSUME Apart(cast), NEW i \in 1 .. n, NEW j \in 1 .. n, out[i].pos = out[j].pos
               PROVE  i = j \/ Crowded(out)
    BY <1>4 DEF Apart
  <2>1. cast[i].pos = cast[j].pos
    BY <1>5
  <2>2. i = j \/ Crowded(cast)
    BY <1>1, <2>1 DEF Apart
  <2> QED  BY <1>7, <2>2 DEF Crowded
<1>10. \A j \in 1 .. n : out[j].depth # cast[j].depth <=> j \in clash
  BY <1>2, <1>5
<1>11. clash = {} => out = cast
  BY <1>3, <1>4, <1>6 DEF Cast
<1>12. Clashing(framing, out) = {}
  <2> DEFINE near == {i \in 1 .. n : cast[i].depth = "near"}
             far == {i \in 1 .. n : cast[i].depth = "far"}
             nearer == {i \in 1 .. n : out[i].depth = "near"}
             further == {i \in 1 .. n : out[i].depth = "far"}
  <2>1. clash = IF framing = "wide" /\ 2 * Cardinality(near) > n THEN near
                ELSE IF framing = "close" /\ n = 1 THEN far ELSE {}
    BY <1>1 DEF clash, Clashing
  <2>2. Clashing(framing, out) = IF framing = "wide" /\ 2 * Cardinality(nearer) > n THEN nearer
                                 ELSE IF framing = "close" /\ n = 1 THEN further ELSE {}
    BY <1>4, <1>7 DEF Clashing
  <2>3. clash = {} => nearer = near /\ further = far
    BY <1>5
  <2>4. clash = near => nearer = {}
    BY <1>5
  <2>5. clash = far => further = {}
    BY <1>5
  <2> HIDE DEF near, far, nearer, further
  <2>6. CASE framing = "wide" /\ 2 * Cardinality(near) > n
    BY <2>1, <2>2, <2>4, <2>6
  <2>7. CASE ~(framing = "wide" /\ 2 * Cardinality(near) > n) /\ framing = "close" /\ n = 1
    BY <2>1, <2>2, <2>5, <2>7
  <2>8. CASE ~(framing = "wide" /\ 2 * Cardinality(near) > n) /\ ~(framing = "close" /\ n = 1)
    BY <2>1, <2>2, <2>3, <2>8
  <2> QED  BY <2>6, <2>7, <2>8
<1> QED  BY <1>5, <1>6, <1>8, <1>9, <1>10, <1>11, <1>12 DEF clash

-----------------------------------------------------------------------------
(* R2.                                                                      *)

Ran == [Keys -> Run \cup {NoRun}]
RunOn(m, ran) == [pos |-> m.pos, depth |-> m.depth, count |-> RunLength(m, ran)]
StoodTwice(m, ran) ==
  /\ m.key \in Keys /\ ran[m.key].pos = m.pos /\ ran[m.key].depth = m.depth
  /\ ran[m.key].count >= MaxSame

LEMMA CountsAre ==
  ASSUME NEW m \in Member, NEW ran \in Ran
  PROVE  /\ RunLength(m, ran) \in 1 .. MaxSame + 1
         /\ RunLength(m, ran) > MaxSame <=> StoodTwice(m, ran)
         /\ m.key \in Keys => RunOn(m, ran) \in Run
<1>1. m.pos \in Positions /\ m.depth \in Depths
  BY DEF Member
<1>2. ASSUME m.key \in Keys
      PROVE  \/ ran[m.key] \in Run
             \/ ran[m.key].pos = "none" /\ ran[m.key].count = 0
  BY <1>2 DEF Ran, NoRun
<1>3. NoRun.pos = "none"
  BY DEF NoRun
<1>4. RunLength(m, ran) \in 1 .. MaxSame + 1 /\ (RunLength(m, ran) > MaxSame <=> StoodTwice(m, ran))
  <2>1. CASE m.key \notin Keys
    BY <1>1, <1>3, <2>1 DEF RunLength, StoodTwice, MaxSame, Positions
  <2>2. CASE m.key \in Keys
    <3> DEFINE prev == ran[m.key]
    <3>1. RunLength(m, ran) = IF prev.pos = m.pos /\ prev.depth = m.depth THEN CountUp(prev.count) ELSE 1
      BY <2>2 DEF RunLength
    <3>2. prev \in Run \/ prev.pos = "none"
      BY <1>2, <2>2
    <3>3. StoodTwice(m, ran) <=> prev.pos = m.pos /\ prev.depth = m.depth /\ prev.count >= MaxSame
      BY <2>2 DEF StoodTwice
    <3> HIDE DEF prev
    <3>4. prev.pos = m.pos => prev.count \in 1 .. 3
      BY <1>1, <3>2 DEF Run, MaxSame, Positions
    <3> QED  BY <3>1, <3>3, <3>4 DEF CountUp, MaxSame
  <2> QED  BY <2>1, <2>2
<1>5. RunOn(m, ran) \in Run
  BY <1>1, <1>4 DEF RunOn, Run
<1> QED  BY <1>4, <1>5

Varieties(n) == [cast : Cast(n), slots : SUBSET Positions, runs : Ran]
Varying(cast, n, ran, i, was) ==
  /\ was \in Varieties(n)
  /\ was.slots = Slots(was.cast) /\ Apart(was.cast) /\ Upright(was.cast)
  /\ \A j \in 1 .. n : was.cast[j].key = cast[j].key /\ was.cast[j].depth = cast[j].depth
  /\ \A j \in 1 .. n : i < j => was.cast[j] = cast[j]
  /\ \A j \in 1 .. n : was.cast[j].pos # cast[j].pos => StoodTwice(cast[j], ran)
  /\ \A j \in 1 .. i : StoodTwice(was.cast[j], ran) => Crowded(was.cast)
  /\ \A j \in 1 .. i : cast[j].key \in Keys => was.runs[cast[j].key] = RunOn(was.cast[j], ran)
  /\ \A k \in Keys : (\A j \in 1 .. i : cast[j].key # k) => was.runs[k] = NoRun
  /\ (\A j \in 1 .. n : StoodTwice(cast[j], ran) => Crowded(cast)) => was.cast = cast

MovesOn(was, i, ran) ==
  StoodTwice(was.cast[i], ran) /\ Free(was.cast[i].pos, was.slots) # {}

\* One step of R2: of the card m, on which the slots in free are left to it.
Varies(n, was, i, ran, m, free, now) ==
  /\ now \in Varieties(n) /\ m \in Member
  /\ ~MovesOn(was, i, ran) => now.cast = was.cast /\ now.slots = was.slots
  /\ MovesOn(was, i, ran) =>
       /\ now.cast[i] \in Member /\ Straight(now.cast[i])
       /\ now.cast[i].key = m.key /\ now.cast[i].depth = m.depth
       /\ now.cast[i].pos \in free
       /\ now.slots = (was.slots \ {m.pos}) \cup {now.cast[i].pos}
       /\ now.cast = [was.cast EXCEPT ![i] = now.cast[i]]
  /\ \A k \in Keys : now.runs[k] = IF k = m.key THEN RunOn(now.cast[i], ran) ELSE was.runs[k]

LEMMA VaryIs ==
  ASSUME NEW n \in Nat, NEW ran \in Ran, NEW i \in 1 .. n, NEW was \in Varieties(n),
         NEW now, now = Vary(was, i, ran),
         NEW m, m = was.cast[i], NEW free, free = Free(m.pos, was.slots)
  PROVE  Varies(n, was, i, ran, m, free, now)
<1> DEFINE moves == MovesOn(was, i, ran)
           moved == Reassigned(m, Best(m.pos, free))
           kept == IF moves THEN moved ELSE m
           run == [pos |-> kept.pos, depth |-> kept.depth, count |-> IF moves THEN 1 ELSE RunLength(m, ran)]
<1>1. was.cast \in Cast(n) /\ was.slots \subseteq Positions /\ was.runs \in Ran
  BY DEF Varieties
<1>0. moves <=> StoodTwice(m, ran) /\ free # {}
  BY DEF MovesOn
<1> HIDE DEF moves
<1>2. m \in Member /\ m.pos \in Positions
  BY <1>1, SlotsAre
<1>3. free \subseteq Positions /\ m.pos \notin free /\ (free # {} => Best(m.pos, free) \in free)
  BY <1>2, BestIsFree
<1>4. moves => /\ moved \in Member /\ moved.key = m.key /\ moved.depth = m.depth
               /\ moved.pos \in free /\ moved.pos # m.pos /\ Straight(moved)
  <2> SUFFICES ASSUME moves
               PROVE  /\ moved \in Member /\ moved.key = m.key /\ moved.depth = m.depth
                      /\ moved.pos \in free /\ moved.pos # m.pos /\ Straight(moved)
    OBVIOUS
  <2> DEFINE slot == Best(m.pos, free)
  <2>1. slot \in free /\ slot \in Positions /\ moved = Reassigned(m, slot)
    BY <1>0, <1>3
  <2> HIDE DEF slot, moved
  <2>2. /\ moved \in Member /\ moved.key = m.key /\ moved.depth = m.depth /\ moved.pos = slot
        /\ Straight(moved)
    BY <1>2, <2>1, ReassignedIs
  <2> QED  BY <1>3, <2>1, <2>2
<1>5. (RunLength(m, ran) > MaxSame <=> StoodTwice(m, ran)) /\ RunLength(m, ran) \in 1 .. MaxSame + 1
  BY <1>2, CountsAre
<1>6. now = [cast |-> [was.cast EXCEPT ![i] = kept],
             slots |-> IF moves THEN (was.slots \ {m.pos}) \cup {kept.pos} ELSE was.slots,
             runs |-> IF m.key \in Keys THEN [was.runs EXCEPT ![m.key] = run] ELSE was.runs]
  BY <1>0, <1>5 DEF Vary
<1>7. moves => RunLength(moved, ran) = 1
  <2> SUFFICES ASSUME moves  PROVE RunLength(moved, ran) = 1
    OBVIOUS
  <2>1. m.key \in Keys /\ ran[m.key].pos = m.pos
    BY <1>0 DEF StoodTwice
  <2> HIDE DEF moved
  <2> QED  BY <1>4, <2>1 DEF RunLength
<1> HIDE DEF moved
<1>8. kept \in Member /\ kept.key = m.key /\ kept.pos \in Positions
  BY <1>2, <1>3, <1>4
<1>9. run = RunOn(kept, ran)
  BY <1>7 DEF RunOn
<1>10. m.key \in Keys => run \in Run
  BY <1>8, <1>9, CountsAre
<1> HIDE DEF run, kept
<1>11. now.cast = [was.cast EXCEPT ![i] = kept]
  BY <1>6
<1>12. now.cast \in Cast(n) /\ now.cast[i] = kept
  BY <1>1, <1>8, <1>11 DEF Cast
<1>13. now.slots = IF moves THEN (was.slots \ {m.pos}) \cup {kept.pos} ELSE was.slots
  BY <1>6
<1>14. now.runs = IF m.key \in Keys THEN [was.runs EXCEPT ![m.key] = run] ELSE was.runs
  BY <1>6
<1>15. now.runs \in Ran
  BY <1>1, <1>10, <1>14 DEF Ran
<1>16. now \in Varieties(n)
  BY <1>1, <1>6, <1>8, <1>12, <1>13, <1>15 DEF Varieties
<1>17. \A k \in Keys : now.runs[k] = IF k = m.key THEN RunOn(now.cast[i], ran) ELSE was.runs[k]
  BY <1>1, <1>9, <1>12, <1>14 DEF Ran
<1>18. ~moves => now.cast = was.cast
  BY <1>1, <1>11 DEF kept, Cast
<1> QED  BY <1>2, <1>4, <1>11, <1>12, <1>13, <1>16, <1>17, <1>18 DEF kept, moves, Varies

LEMMA VarietiesGoOn ==
  ASSUME NEW n \in Nat, NEW ran \in Ran, NEW i \in 1 .. n, NEW was \in Varieties(n)
  PROVE  Vary(was, i, ran) \in Varieties(n)
<1> DEFINE now == Vary(was, i, ran)
           m == was.cast[i]
           free == Free(m.pos, was.slots)
<1>1. now = Vary(was, i, ran)
  OBVIOUS
<1>2. m = was.cast[i]
  OBVIOUS
<1>3. free = Free(m.pos, was.slots)
  OBVIOUS
<1> HIDE DEF now, m, free
<1>4. Varies(n, was, i, ran, m, free, now)
  BY <1>1, <1>2, <1>3, VaryIs
<1>5. now \in Varieties(n)
  BY <1>4 DEF Varies
<1> QED  BY <1>5 DEF now

LEMMA VaryKeeps ==
  ASSUME NEW n \in Nat, NEW cast \in Cast(n), OnceEach(cast), NEW ran \in Ran, NEW i \in 1 .. n,
         NEW was, Varying(cast, n, ran, i - 1, was), NEW now, now = Vary(was, i, ran)
  PROVE  Varying(cast, n, ran, i, now)
<1> DEFINE m == was.cast[i]
           free == Free(m.pos, was.slots)
           moves == MovesOn(was, i, ran)
<1>0. moves <=> StoodTwice(m, ran) /\ free # {}
  BY DEF MovesOn
<1>1. was \in Varieties(n) /\ was.cast \in Cast(n)
  BY DEF Varying, Varieties
<1>2. /\ now \in Varieties(n) /\ m \in Member
      /\ ~moves => now.cast = was.cast /\ now.slots = was.slots
      /\ moves => /\ now.cast[i] \in Member /\ Straight(now.cast[i])
                  /\ now.cast[i].key = m.key /\ now.cast[i].depth = m.depth
                  /\ now.cast[i].pos \in free
                  /\ now.slots = (was.slots \ {m.pos}) \cup {now.cast[i].pos}
                  /\ now.cast = [was.cast EXCEPT ![i] = now.cast[i]]
      /\ \A k \in Keys : now.runs[k] = IF k = m.key THEN RunOn(now.cast[i], ran) ELSE was.runs[k]
  <2> HIDE DEF m, free
  <2>1. m = was.cast[i] /\ free = Free(m.pos, was.slots)
    BY DEF m, free
  <2>2. Varies(n, was, i, ran, m, free, now)
    BY <1>1, <2>1, VaryIs
  <2> QED  BY <2>2 DEF Varies
<1> HIDE DEF moves
<1>3. /\ m.pos \in Positions /\ m = cast[i] /\ i \in Nat /\ i - 1 < i
      /\ DOMAIN was.cast = 1 .. n /\ DOMAIN cast = 1 .. n /\ Slots(was.cast) = {was.cast[j].pos : j \in 1 .. n}
  <2>1. i - 1 < i /\ \A j \in 1 .. n : i - 1 < j => was.cast[j] = cast[j]
    BY DEF Varying
  <2>2. DOMAIN cast = 1 .. n
    BY SlotsAre
  <2>3. was.cast[i].pos \in Positions /\ DOMAIN was.cast = 1 .. n
    BY <1>1, SlotsAre
  <2>4. Slots(was.cast) = {was.cast[j].pos : j \in 1 .. n}
    BY <1>1, SlotsAre
  <2> QED  BY <2>1, <2>2, <2>3, <2>4
<1>4. \A p \in Positions : p \in free <=> p \notin was.slots /\ p # m.pos
  BY <1>3, BestIsFree
<1>5. /\ was.slots = Slots(was.cast) /\ Apart(was.cast) /\ Upright(was.cast)
      /\ \A j \in 1 .. n : was.cast[j].key = cast[j].key /\ was.cast[j].depth = cast[j].depth
      /\ \A j \in 1 .. n : i - 1 < j => was.cast[j] = cast[j]
      /\ \A j \in 1 .. n : was.cast[j].pos # cast[j].pos => StoodTwice(cast[j], ran)
      /\ \A j \in 1 .. i - 1 : StoodTwice(was.cast[j], ran) => Crowded(was.cast)
      /\ \A j \in 1 .. i - 1 : cast[j].key \in Keys => was.runs[cast[j].key] = RunOn(was.cast[j], ran)
      /\ \A k \in Keys : (\A j \in 1 .. i - 1 : cast[j].key # k) => was.runs[k] = NoRun
      /\ (\A j \in 1 .. n : StoodTwice(cast[j], ran) => Crowded(cast)) => was.cast = cast
  BY DEF Varying
<1>6. Crowded(was.cast) => free = {}
  <2> SUFFICES ASSUME Crowded(was.cast), NEW p \in free  PROVE FALSE
    OBVIOUS
  <2>1. p \in Positions
    BY DEF Free
  <2> QED  BY <1>4, <1>5, <2>1 DEF Crowded
<1>7. m.pos \in was.slots
  BY <1>3, <1>5 DEF m
<1>8. free = {} => Crowded(was.cast)
  <2> SUFFICES ASSUME free = {}  PROVE Positions \subseteq Slots(was.cast)
    BY <1>1, SlotsAre DEF Crowded
  <2> QED  BY <1>4, <1>5, <1>7
<1>9. \A j \in 1 .. i : j = i \/ j \in 1 .. i - 1
  BY <1>3
<1> HIDE DEF m, free
<1>10. /\ now.cast \in Cast(n) /\ DOMAIN now.cast = 1 .. n
       /\ Slots(now.cast) = {now.cast[j].pos : j \in 1 .. n}
  <2>1. now.cast \in Cast(n)
    BY <1>2 DEF Varieties
  <2> QED  BY <2>1, SlotsAre
<1>11. \A j \in 1 .. n : j # i => now.cast[j] = was.cast[j]
  BY <1>1, <1>2 DEF Cast
<1>12. /\ now.cast[i].key = m.key /\ now.cast[i].depth = m.depth /\ Straight(now.cast[i])
       /\ ~moves => now.cast[i] = m
  <2>1. m = was.cast[i] /\ Straight(was.cast[i])
    BY <1>3, <1>5 DEF m, Upright
  <2> QED  BY <1>2, <2>1
<1>13. Upright(now.cast)
  BY <1>3, <1>5, <1>10, <1>11, <1>12 DEF Upright
<1>14. \A j \in 1 .. n : now.cast[j].key = cast[j].key /\ now.cast[j].depth = cast[j].depth
  BY <1>3, <1>5, <1>11, <1>12
<1>15. \A j \in 1 .. n : i < j => now.cast[j] = cast[j]
  BY <1>3, <1>5, <1>11
<1>16. \A j \in 1 .. n : now.cast[j].pos # cast[j].pos => StoodTwice(cast[j], ran)
  <2> TAKE j \in 1 .. n
  <2>1. CASE j = i
    BY <1>0, <1>3, <1>12, <2>1
  <2>2. CASE j # i
    BY <1>5, <1>11, <2>2
  <2> QED  BY <2>1, <2>2
<1>17. \A j \in 1 .. i : cast[j].key \in Keys => now.runs[cast[j].key] = RunOn(now.cast[j], ran)
  <2> TAKE j \in 1 .. i
  <2> HAVE cast[j].key \in Keys
  <2>1. CASE j = i
    BY <1>2, <1>3, <2>1
  <2>2. CASE j \in 1 .. i - 1
    <3>1. j \in 1 .. n /\ i \in 1 .. n /\ j # i
      BY <1>3, <2>2
    <3>2. cast[j].key # m.key
      BY <1>3, <3>1 DEF OnceEach
    <3> QED  BY <1>2, <1>5, <1>11, <2>2, <3>1, <3>2
  <2> QED  BY <1>9, <2>1, <2>2
<1>18. \A k \in Keys : (\A j \in 1 .. i : cast[j].key # k) => now.runs[k] = NoRun
  <2> TAKE k \in Keys
  <2> HAVE \A j \in 1 .. i : cast[j].key # k
  <2>1. k # m.key /\ \A j \in 1 .. i - 1 : cast[j].key # k
    BY <1>3
  <2> QED  BY <1>2, <1>5, <2>1
<1>19. CASE ~moves
  <2>1. now.cast = was.cast /\ now.slots = was.slots
    BY <1>2, <1>19
  <2>2. StoodTwice(was.cast[i], ran) => Crowded(was.cast)
    BY <1>0, <1>8, <1>19 DEF m
  <2>3. \A j \in 1 .. i : StoodTwice(now.cast[j], ran) => Crowded(now.cast)
    BY <1>5, <1>9, <2>1, <2>2
  <2> QED  BY <1>2, <1>5, <1>13, <1>14, <1>15, <1>16, <1>17, <1>18, <2>1, <2>3 DEF Varying
<1>20. CASE moves
  <2> DEFINE slot == now.cast[i].pos
  <2>1. /\ slot \in Positions /\ slot \notin was.slots /\ slot # m.pos
        /\ now.slots = (was.slots \ {m.pos}) \cup {slot}
    <3>1. slot \in free /\ now.slots = (was.slots \ {m.pos}) \cup {slot}
      BY <1>2, <1>20
    <3>2. free \subseteq Positions
      BY <1>3, BestIsFree DEF free
    <3> QED  BY <1>4, <3>1, <3>2
  <2> HIDE DEF slot
  <2>2. ~Crowded(was.cast)
    BY <1>0, <1>6, <1>20
  <2>3. \A j, k \in 1 .. n : was.cast[j].pos = was.cast[k].pos => j = k
    BY <1>3, <1>5, <2>2 DEF Apart
  <2>4. \A j \in 1 .. n : now.cast[j].pos = IF j = i THEN slot ELSE was.cast[j].pos
    BY <1>11 DEF slot
  <2>5. \A j \in 1 .. n : was.cast[j].pos \in was.slots
    BY <1>3, <1>5
  <2>6. \A j, k \in 1 .. n : now.cast[j].pos = now.cast[k].pos => j = k
    BY <2>1, <2>3, <2>4, <2>5
  <2>7. Apart(now.cast)
    BY <1>10, <2>6 DEF Apart
  <2>8. now.slots = Slots(now.cast)
    <3>1. ASSUME NEW p \in Slots(now.cast)  PROVE p \in now.slots
      <4>1. PICK j \in 1 .. n : p = now.cast[j].pos
        BY <1>10
      <4>2. CASE j = i
        BY <2>1, <2>4, <4>1, <4>2
      <4>3. CASE j # i
        <5>1. p = was.cast[j].pos /\ was.cast[i].pos = m.pos
          BY <2>4, <4>1, <4>3 DEF m
        <5>2. p # m.pos
          BY <2>3, <4>3, <5>1
        <5> QED  BY <2>1, <2>5, <5>1, <5>2
      <4> QED  BY <4>2, <4>3
    <3>2. ASSUME NEW p \in now.slots  PROVE p \in Slots(now.cast)
      <4>1. CASE p = slot
        BY <1>10, <2>4, <4>1
      <4>2. CASE p # slot
        <5>1. p \in was.slots /\ p # m.pos
          BY <2>1, <4>2
        <5>2. PICK j \in 1 .. n : p = was.cast[j].pos
          BY <1>3, <1>5, <5>1
        <5>3. j # i
          BY <5>1, <5>2 DEF m
        <5> QED  BY <1>10, <2>4, <5>2, <5>3
      <4> QED  BY <4>1, <4>2
    <3> QED  BY <3>1, <3>2
  <2>9. \A j \in 1 .. i : ~StoodTwice(now.cast[j], ran)
    <3> TAKE j \in 1 .. i
    <3>1. CASE j = i
      <4>1. StoodTwice(m, ran) /\ now.cast[i].pos # m.pos /\ now.cast[i].key = m.key
        BY <1>0, <1>12, <1>20, <2>1 DEF slot
      <4> QED  BY <3>1, <4>1 DEF StoodTwice
    <3>2. CASE j \in 1 .. i - 1
      <4>1. ~StoodTwice(was.cast[j], ran) /\ now.cast[j] = was.cast[j]
        BY <1>3, <1>5, <1>11, <2>2, <3>2
      <4> QED  BY <4>1
    <3> QED  BY <1>9, <3>1, <3>2
  <2>10. ~(\A j \in 1 .. n : StoodTwice(cast[j], ran) => Crowded(cast))
    <3> SUFFICES ASSUME \A j \in 1 .. n : StoodTwice(cast[j], ran) => Crowded(cast)  PROVE FALSE
      OBVIOUS
    <3>1. was.cast = cast
      BY <1>5
    <3> QED  BY <1>0, <1>3, <1>20, <2>2, <3>1
  <2> QED  BY <1>2, <1>13, <1>14, <1>15, <1>16, <1>17, <1>18, <2>7, <2>8, <2>9, <2>10 DEF Varying
<1> QED  BY <1>19, <1>20

\* Every card that stays has a run, and it is of where it stands now.
RunsOf(cast, ran, after) ==
  /\ \A j \in DOMAIN cast : cast[j].key \in Keys => after[cast[j].key] = RunOn(cast[j], ran)
  /\ \A k \in Keys : (\A j \in DOMAIN cast : cast[j].key # k) => after[k] = NoRun

LEMMA VariedIs ==
  ASSUME NEW n \in Nat, NEW cast \in Cast(n), OnceEach(cast), Apart(cast), Upright(cast),
         NEW ran \in Ran, NEW out, out = Varied(cast, ran)
  PROVE  /\ out.cast \in Cast(n) /\ out.runs \in Ran /\ Apart(out.cast) /\ Upright(out.cast)
         /\ \A j \in 1 .. n : out.cast[j].key = cast[j].key /\ out.cast[j].depth = cast[j].depth
         /\ \A j \in 1 .. n : out.cast[j].pos # cast[j].pos => StoodTwice(cast[j], ran)
         /\ \A j \in 1 .. n : StoodTwice(out.cast[j], ran) => Crowded(out.cast)
         /\ RunsOf(out.cast, ran, out.runs)
         /\ (\A j \in 1 .. n : StoodTwice(cast[j], ran) => Crowded(cast)) => out.cast = cast
<1> DEFINE base == [cast |-> cast, slots |-> Slots(cast), runs |-> NoRuns]
           Built(f) == f = [i \in 0 .. n |-> IF i = 0 THEN base ELSE Vary(f[i - 1], i, ran)]
           varied == CHOOSE f : Built(f)
           next == [i \in 1 .. n |-> [was \in Varieties(n) |-> Vary(was, i, ran)]]
<1>1. Len(cast) = n /\ DOMAIN cast = 1 .. n /\ Slots(cast) \subseteq Positions
  BY SlotsAre
<1>2. out = varied[n]
  BY <1>1, Zenon DEF Varied
<1>3. base \in Varieties(n) /\ NoRuns \in Ran /\ \A k \in Keys : NoRuns[k] = NoRun
  BY <1>1 DEF Varieties, Ran, NoRuns
<1>4. ASSUME NEW i \in 1 .. n, NEW was \in Varieties(n)  PROVE Vary(was, i, ran) \in Varieties(n)
  BY VarietiesGoOn
<1>5. \E f : Built(f)
  <2>1. next \in [1 .. n -> [Varieties(n) -> Varieties(n)]]
    BY <1>4
  <2>2. \A i \in 1 .. n : \A was \in Varieties(n) : next[i][was] = Vary(was, i, ran)
    OBVIOUS
  <2>3. next \in Steps(n, Varieties(n))
    BY <2>1 DEF Steps
  <2> HIDE DEF next, base
  <2>4. PICK f : Recurses(f, n, Varieties(n), base, next)
    BY <1>3, <2>3, RecursionIsAnswered
  <2>5. f \in [0 .. n -> Varieties(n)] /\ f[0] = base /\ \A i \in 1 .. n : f[i] = next[i][f[i - 1]]
    BY <2>4 DEF Recurses
  <2>6. \A i \in 1 .. n : f[i] = Vary(f[i - 1], i, ran)
    <3> TAKE i \in 1 .. n
    <3>1. i - 1 \in 0 .. n
      OBVIOUS
    <3>2. f[i - 1] \in Varieties(n)
      BY <2>5, <3>1
    <3> QED  BY <2>2, <2>5, <3>2
  <2>7. Built(f)
    BY <2>5, <2>6
  <2> QED  BY <2>7
<1>6. Built(varied)
  BY <1>5, Zenon
<1> HIDE DEF varied
<1>7. varied[0] = base /\ \A i \in 1 .. n : varied[i] = Vary(varied[i - 1], i, ran)
  <2> HIDE DEF base
  <2> QED  BY <1>6
<1> DEFINE P == {i \in 0 .. n : Varying(cast, n, ran, i, varied[i])}
<1>8. 0 \in P
  <2>1. base.cast = cast /\ base.slots = Slots(cast) /\ base.runs = NoRuns
    OBVIOUS
  <2> HIDE DEF base
  <2>2. Varying(cast, n, ran, 0, base)
    BY <1>1, <1>3, <2>1 DEF Varying
  <2> QED  BY <1>7, <2>2
<1>9. ASSUME NEW i \in 1 .. n, i - 1 \in P  PROVE i \in P
  <2>1. Varying(cast, n, ran, i - 1, varied[i - 1]) /\ varied[i] = Vary(varied[i - 1], i, ran)
    BY <1>7, <1>9
  <2>2. Varying(cast, n, ran, i, varied[i])
    BY <2>1, VaryKeeps
  <2> QED  BY <2>2
<1> HIDE DEF P
<1>10. n \in P
  BY <1>8, <1>9, FromEachToTheNext
<1> DEFINE was == varied[n]
<1>11. Varying(cast, n, ran, n, was)
  BY <1>10 DEF P
<1> HIDE DEF was
<1>12. out = was /\ was.cast \in Cast(n) /\ was.runs \in Ran /\ DOMAIN was.cast = 1 .. n
  BY <1>2, <1>11 DEF was, Varying, Varieties, Cast
<1>13. /\ Apart(was.cast) /\ Upright(was.cast)
       /\ \A j \in 1 .. n : was.cast[j].key = cast[j].key /\ was.cast[j].depth = cast[j].depth
       /\ \A j \in 1 .. n : was.cast[j].pos # cast[j].pos => StoodTwice(cast[j], ran)
       /\ \A j \in 1 .. n : StoodTwice(was.cast[j], ran) => Crowded(was.cast)
       /\ \A j \in 1 .. n : cast[j].key \in Keys => was.runs[cast[j].key] = RunOn(was.cast[j], ran)
       /\ \A k \in Keys : (\A j \in 1 .. n : cast[j].key # k) => was.runs[k] = NoRun
       /\ (\A j \in 1 .. n : StoodTwice(cast[j], ran) => Crowded(cast)) => was.cast = cast
  BY <1>11 DEF Varying
<1>14. RunsOf(was.cast, ran, was.runs)
  <2>1. \A j \in DOMAIN was.cast : was.cast[j].key \in Keys =>
          was.runs[was.cast[j].key] = RunOn(was.cast[j], ran)
    BY <1>12, <1>13
  <2>2. \A k \in Keys : (\A j \in DOMAIN was.cast : was.cast[j].key # k) => was.runs[k] = NoRun
    BY <1>12, <1>13
  <2> QED  BY <2>1, <2>2 DEF RunsOf
<1> QED  BY <1>12, <1>13, <1>14

-----------------------------------------------------------------------------
(* A shot repaired.                                                         *)

\* Nobody has moved without a fault of its own.
MovedForCause(n, framing, cast, ran, last) ==
  \A j \in 1 .. n :
    /\ last[j].key = cast[j].key
    /\ last[j].depth # cast[j].depth => j \in Clashing(framing, cast)
    /\ First(cast, j) /\ last[j].pos # cast[j].pos =>
         StoodTwice([last[j] EXCEPT !.pos = cast[j].pos], ran)
    /\ StoodTwice(last[j], ran) => Crowded(last)

LEMMA PlacedIs ==
  ASSUME NEW n \in Nat, NEW cast \in Cast(n), OnceEach(cast), Upright(cast), NEW ran \in Ran,
         NEW frame, NEW framing, framing = frame.framing, cast = Visible(frame),
         NEW out, out = Placed(frame, ran)
  PROVE  /\ out.cast \in Cast(n) /\ out.runs \in Ran /\ Apart(out.cast) /\ Upright(out.cast)
         /\ Clashing(framing, out.cast) = {}
         /\ RunsOf(out.cast, ran, out.runs)
         /\ MovedForCause(n, framing, cast, ran, out.cast)
         /\ Apart(cast) /\ Clashing(framing, cast) = {}
              /\ (\A j \in 1 .. n : StoodTwice(cast[j], ran) => Crowded(cast)) => out.cast = cast
<1> DEFINE one == Unstacked(cast)
           two == Refocused(framing, one)
<1>1. DOMAIN cast = 1 .. n
  BY SlotsAre
<1>2. out = Varied(two, ran)
  BY DEF Placed
<1>3. /\ one \in Cast(n) /\ Upright(one) /\ Apart(one)
      /\ \A j \in 1 .. n : one[j].key = cast[j].key /\ one[j].depth = cast[j].depth
      /\ \A j \in 1 .. n : First(cast, j) => one[j] = cast[j]
      /\ Apart(cast) => one = cast
  BY UnstackedIs
<1> HIDE DEF one
<1>4. /\ two \in Cast(n) /\ Upright(two) /\ Apart(two)
      /\ \A j \in 1 .. n : /\ two[j].key = one[j].key /\ two[j].pos = one[j].pos
                           /\ two[j].depth # one[j].depth <=> j \in Clashing(framing, one)
      /\ Clashing(framing, one) = {} => two = one
      /\ Clashing(framing, two) = {}
  BY <1>3, RefocusedIs
<1> HIDE DEF two
<1>5. DOMAIN two = 1 .. n
  BY <1>4, SlotsAre
<1>6. OnceEach(two)
  BY <1>1, <1>3, <1>4, <1>5 DEF OnceEach
<1>7. /\ out.cast \in Cast(n) /\ out.runs \in Ran /\ Apart(out.cast) /\ Upright(out.cast)
      /\ \A j \in 1 .. n : out.cast[j].key = two[j].key /\ out.cast[j].depth = two[j].depth
      /\ \A j \in 1 .. n : out.cast[j].pos # two[j].pos => StoodTwice(two[j], ran)
      /\ \A j \in 1 .. n : StoodTwice(out.cast[j], ran) => Crowded(out.cast)
      /\ RunsOf(out.cast, ran, out.runs)
      /\ (\A j \in 1 .. n : StoodTwice(two[j], ran) => Crowded(two)) => out.cast = two
  BY <1>2, <1>4, <1>6, VariedIs
<1>8. Clashing(framing, out.cast) = {} /\ Clashing(framing, one) = Clashing(framing, cast)
  <2> DEFINE last == out.cast
  <2>1. last \in Cast(n) /\ \A j \in 1 .. n : last[j].depth = two[j].depth
    BY <1>7
  <2> HIDE DEF last
  <2>2. Clashing(framing, last) = Clashing(framing, two)
    BY <1>4, <2>1, ClashesAlike
  <2>3. Clashing(framing, one) = Clashing(framing, cast)
    BY <1>3, ClashesAlike
  <2> QED  BY <1>4, <2>2, <2>3 DEF last
<1>9. ASSUME NEW j \in 1 .. n
      PROVE  /\ out.cast[j].key = cast[j].key
             /\ out.cast[j].depth # cast[j].depth => j \in Clashing(framing, cast)
             /\ First(cast, j) /\ out.cast[j].pos # cast[j].pos =>
                  StoodTwice([out.cast[j] EXCEPT !.pos = cast[j].pos], ran)
             /\ StoodTwice(out.cast[j], ran) => Crowded(out.cast)
  <2> DEFINE last == out.cast[j]
             back == [last EXCEPT !.pos = cast[j].pos]
  <2>1. last.key = cast[j].key /\ last.key = two[j].key /\ last.depth = two[j].depth
    BY <1>3, <1>4, <1>7
  <2>2. last.depth # cast[j].depth => j \in Clashing(framing, cast)
    BY <1>3, <1>4, <1>8, <2>1
  <2>3. ASSUME First(cast, j), last.pos # cast[j].pos  PROVE StoodTwice(back, ran)
    <3>1. two[j].pos = cast[j].pos /\ StoodTwice(two[j], ran)
      BY <1>3, <1>4, <1>7, <2>3
    <3>2. last \in Member
      BY <1>7 DEF Cast
    <3> HIDE DEF last
    <3>3. back.key = last.key /\ back.depth = last.depth /\ back.pos = cast[j].pos
      BY <3>2 DEF Member
    <3> QED  BY <2>1, <3>1, <3>3 DEF StoodTwice
  <2> QED  BY <1>7, <2>1, <2>2, <2>3
<1>10. ASSUME Apart(cast), Clashing(framing, cast) = {},
              \A j \in 1 .. n : StoodTwice(cast[j], ran) => Crowded(cast)
       PROVE  out.cast = cast
  <2>1. two = cast
    BY <1>3, <1>4, <1>8, <1>10
  <2> QED  BY <1>7, <1>10, <2>1
<1> QED  BY <1>7, <1>8, <1>9, <1>10 DEF MovedForCause

-----------------------------------------------------------------------------
(* From shot to shot.                                                       *)

\* What a run is behind: where its key stood in the two shots before.
Behind(run, seen) ==
  \E here, earlier :
    /\ seen = <<here, earlier>>
    /\ \/ run = NoRun /\ here = Nowhere
       \/ /\ run \in Run /\ here = <<run.pos, run.depth>>
          /\ run.count >= MaxSame <=> earlier = here
Seen(k) == IF shot = NoShot THEN before[k] ELSE <<At(k, shot.cast), before[k][1]>>

PlacementInv ==
  /\ raw \in Frames \cup {NoShot}
  /\ raw = NoShot => shot = NoShot
  /\ runs \in Ran /\ again = runs
  /\ \A k \in Keys : Behind(runs[k], Seen(k))

LEMMA StoodAlreadyIs ==
  ASSUME NEW m \in Member, NEW ran \in Ran, \A k \in Keys : Behind(ran[k], before[k])
  PROVE  StoodAlready(m) <=> StoodTwice(m, ran)
<1>1. CASE m.key \notin Keys
  BY <1>1 DEF StoodAlready, StoodTwice
<1>2. CASE m.key \in Keys
  <2> DEFINE run == ran[m.key]
             seen == before[m.key]
             here == <<m.pos, m.depth>>
  <2>1. PICK there, earlier :
          /\ seen = <<there, earlier>>
          /\ \/ run = NoRun /\ there = Nowhere
             \/ /\ run \in Run /\ there = <<run.pos, run.depth>>
                /\ run.count >= MaxSame <=> earlier = there
    BY <1>2 DEF Behind
  <2>2. StoodAlready(m) <=> seen = <<here, here>>
    BY <1>2 DEF StoodAlready
  <2>3. StoodTwice(m, ran) <=> run.pos = m.pos /\ run.depth = m.depth /\ run.count >= MaxSame
    BY <1>2 DEF StoodTwice
  <2>4. m.pos \in Positions /\ here # Nowhere
    BY DEF Member, Nowhere
  <2> HIDE DEF run, seen
  <2>5. CASE run = NoRun /\ there = Nowhere
    <3>1. there # here /\ run.pos # m.pos
      BY <2>4, <2>5 DEF NoRun, Positions
    <3> HIDE DEF here
    <3>2. seen # <<here, here>>
      BY <2>1, <3>1
    <3> QED  BY <2>2, <2>3, <3>1, <3>2
  <2>6. CASE run \in Run /\ there = <<run.pos, run.depth>> /\ (run.count >= MaxSame <=> earlier = there)
    <3>1. there = here <=> run.pos = m.pos /\ run.depth = m.depth
      BY <2>6
    <3> HIDE DEF here
    <3>2. seen = <<here, here>> <=> there = here /\ earlier = here
      BY <2>1
    <3> QED  BY <2>2, <2>3, <2>6, <3>1, <3>2
  <2> QED  BY <2>1, <2>5, <2>6
<1> QED  BY <1>1, <1>2

\* A run that follows another is behind what that one was, one shot on.
LEMMA RunsFollow ==
  ASSUME NEW m \in Member, m.key \in Keys, NEW ran \in Ran, NEW seen, Behind(ran[m.key], seen)
  PROVE  Behind(RunOn(m, ran), <<<<m.pos, m.depth>>, seen[1]>>)
<1> DEFINE prev == ran[m.key]
           run == RunOn(m, ran)
           here == <<m.pos, m.depth>>
<1>1. PICK there, earlier :
        /\ seen = <<there, earlier>>
        /\ \/ prev = NoRun /\ there = Nowhere
           \/ /\ prev \in Run /\ there = <<prev.pos, prev.depth>>
              /\ prev.count >= MaxSame <=> earlier = there
  BY DEF Behind
<1>2. run \in Run /\ run.pos = m.pos /\ run.depth = m.depth /\ run.count = RunLength(m, ran)
  BY CountsAre DEF RunOn
<1>3. RunLength(m, ran) = IF prev.pos = m.pos /\ prev.depth = m.depth THEN CountUp(prev.count) ELSE 1
  BY DEF RunLength
<1>4. m.pos \in Positions /\ here # Nowhere
  BY DEF Member, Nowhere
<1>5. seen[1] = there
  BY <1>1
<1> HIDE DEF prev, run
<1>6. run.count >= MaxSame <=> there = here
  <2>1. CASE prev = NoRun /\ there = Nowhere
    BY <1>2, <1>3, <1>4, <2>1 DEF NoRun, Positions, MaxSame
  <2>2. CASE prev \in Run /\ there = <<prev.pos, prev.depth>>
    <3>1. there = here <=> prev.pos = m.pos /\ prev.depth = m.depth
      BY <2>2
    <3>2. prev.count \in 1 .. 3
      BY <2>2 DEF Run, MaxSame
    <3> QED  BY <1>2, <1>3, <3>1, <3>2 DEF CountUp, MaxSame
  <2> QED  BY <1>1, <2>1, <2>2
<1>7. here = <<run.pos, run.depth>>
  BY <1>2
<1> HIDE DEF here
<1>8. \E h, e : /\ <<here, there>> = <<h, e>>
                /\ \/ run = NoRun /\ h = Nowhere
                   \/ run \in Run /\ h = <<run.pos, run.depth>> /\ (run.count >= MaxSame <=> e = h)
  <2>1. <<here, there>> = <<here, there>>
    OBVIOUS
  <2> QED  BY <1>2, <1>6, <1>7, <2>1
<1>9. Behind(run, <<here, there>>)
  BY <1>8 DEF Behind
<1> QED  BY <1>5, <1>9 DEF run, here

LEMMA RunsAreTheSame ==
  ASSUME NEW cast, NEW ran, NEW one \in Ran, NEW two \in Ran, RunsOf(cast, ran, one), RunsOf(cast, ran, two)
  PROVE  one = two
<1>1. ASSUME NEW k \in Keys  PROVE one[k] = two[k]
  <2>1. CASE \E j \in DOMAIN cast : cast[j].key = k
    BY <2>1 DEF RunsOf
  <2>2. CASE ~(\E j \in DOMAIN cast : cast[j].key = k)
    BY <2>2 DEF RunsOf
  <2> QED  BY <2>1, <2>2
<1> QED  BY <1>1 DEF Ran

LEMMA PlacementStarts == PlacementInit => PlacementInv
<1> SUFFICES ASSUME PlacementInit  PROVE PlacementInv
  OBVIOUS
<1>1. raw = NoShot /\ shot = NoShot /\ runs = NoRuns /\ again = NoRuns
  BY DEF PlacementInit
<1>2. NoRuns \in Ran /\ \A k \in Keys : NoRuns[k] = NoRun
  BY DEF NoRuns, Ran
<1>3. ASSUME NEW k \in Keys  PROVE Behind(runs[k], Seen(k))
  <2>1. Seen(k) = <<Nowhere, Nowhere>>
    BY <1>1 DEF Seen, PlacementInit
  <2> QED  BY <1>1, <1>2, <2>1 DEF Behind
<1> QED  BY <1>1, <1>2, <1>3 DEF PlacementInv

LEMMA FramesAre ==
  ASSUME NEW frame \in Frames, NEW n, n = Len(Visible(frame)), NEW cast, cast = Visible(frame)
  PROVE  /\ n \in Nat /\ cast \in Cast(n) /\ OnceEach(cast) /\ Upright(cast)
         /\ frame = [framing |-> frame.framing, cast |-> frame.cast]
<1>1. frame \in [framing : Framings, cast : Seq(Member)]
  BY FramesKnown
<1>2. CASE frame.framing = "object"
  <2>1. cast = <<>> /\ n = 0
    BY <1>2 DEF Visible
  <2>2. DOMAIN cast = 1 .. 0 /\ cast \in Cast(0)
    BY <2>1 DEF Cast
  <2> QED  BY <1>1, <2>1, <2>2 DEF OnceEach, Upright
<1>3. CASE frame.framing # "object"
  <2>1. cast = frame.cast /\ cast \in Seq(Member)
    BY <1>1, <1>3 DEF Visible
  <2>2. n \in Nat /\ cast \in Cast(n) /\ DOMAIN cast = 1 .. n
    BY <2>1 DEF Cast
  <2>3. \A i, j \in DOMAIN cast : Straight(cast[i]) /\ (cast[i].key = cast[j].key => i = j)
    BY <2>1, FramesKnown
  <2> QED  BY <1>1, <2>2, <2>3 DEF OnceEach, Upright
<1> QED  BY <1>2, <1>3

LEMMA RepairPlaces ==
  ASSUME PlacementInv, Repair
  PROVE  RepairedSoundly' /\ RepairIsIdempotent /\ PlacementInv'
<1> DEFINE cast == Visible(raw)
           n == Len(cast)
           out == Placed(raw, runs)
           last == out.cast
           framing == raw.framing
           twice == Placed(shot', again)
<1>1. /\ raw \in Frames /\ raw # NoShot /\ shot = NoShot /\ runs \in Ran /\ again = runs
      /\ raw' = raw /\ before' = before
      /\ \A k \in Keys : Behind(runs[k], before[k])
  BY DEF PlacementInv, Repair, Seen
<1>2. /\ n \in Nat /\ cast \in Cast(n) /\ OnceEach(cast) /\ Upright(cast)
      /\ raw = [framing |-> framing, cast |-> raw.cast]
  <2> DEFINE shown == cast
             long == n
  <2>1. long = Len(Visible(raw)) /\ shown = Visible(raw)
    OBVIOUS
  <2> HIDE DEF shown, long
  <2>2. /\ long \in Nat /\ shown \in Cast(long) /\ OnceEach(shown) /\ Upright(shown)
        /\ raw = [framing |-> raw.framing, cast |-> raw.cast]
    BY <1>1, <2>1, FramesAre
  <2> QED  BY <2>2 DEF shown, long
<1>3. shot' = [raw EXCEPT !.cast = last] /\ runs' = out.runs /\ again' = twice.runs
  BY DEF Repair
<1>4. shot' = [framing |-> framing, cast |-> last]
  BY <1>2, <1>3
<1>5. cast = IF framing = "object" THEN <<>> ELSE raw.cast
  BY DEF Visible
<1> HIDE DEF n, cast
<1>6. /\ last \in Cast(n) /\ out.runs \in Ran /\ Apart(last) /\ Upright(last)
      /\ Clashing(framing, last) = {} /\ RunsOf(last, runs, out.runs)
      /\ \A j \in 1 .. n :
           /\ last[j].key = cast[j].key
           /\ last[j].depth # cast[j].depth => j \in Clashing(framing, cast)
           /\ First(cast, j) /\ last[j].pos # cast[j].pos =>
                StoodTwice([last[j] EXCEPT !.pos = cast[j].pos], runs)
           /\ StoodTwice(last[j], runs) => Crowded(last)
  <2>1. cast = Visible(raw)
    BY DEF cast
  <2> DEFINE frame == raw
             done == out
             view == framing
  <2>2. done = Placed(raw, runs) /\ view = raw.framing
    OBVIOUS
  <2> HIDE DEF done, view
  <2>3. /\ done.cast \in Cast(n) /\ done.runs \in Ran /\ Apart(done.cast) /\ Upright(done.cast)
        /\ Clashing(view, done.cast) = {} /\ RunsOf(done.cast, runs, done.runs)
        /\ MovedForCause(n, view, cast, runs, done.cast)
    BY <1>1, <1>2, <2>1, <2>2, PlacedIs
  <2> QED  BY <2>3 DEF done, view, MovedForCause
<1> HIDE DEF out
<1>7. DOMAIN last = 1 .. n /\ Len(last) = n /\ DOMAIN cast = 1 .. n /\ \A j \in 1 .. n : last[j] \in Member
  BY <1>2, <1>6, SlotsAre
<1>8. OnceEach(last)
  BY <1>2, <1>6, <1>7 DEF OnceEach
<1> HIDE DEF last
<1>9. shot'.framing = framing /\ shot'.cast = last
  BY <1>4
<1>10. Visible(shot') = last
  <2>1. CASE framing = "object"
    <3>1. n = 0
      BY <1>5, <2>1 DEF n
    <3>2. last = <<>>
      BY <1>6, <3>1 DEF Cast
    <3> QED  BY <1>9, <2>1, <3>2 DEF Visible
  <2>2. CASE framing # "object"
    BY <1>9, <2>2 DEF Visible
  <2> QED  BY <2>1, <2>2
<1>11. twice.cast = last /\ twice.runs = out.runs
  <2> DEFINE next == shot'
             second == twice
  <2>1. framing = next.framing /\ last = Visible(next) /\ second = Placed(next, runs)
    BY <1>1, <1>9, <1>10
  <2> HIDE DEF next, second, framing
  <2>2. /\ second.runs \in Ran /\ RunsOf(second.cast, runs, second.runs)
        /\ Apart(last) /\ Clashing(framing, last) = {}
             /\ (\A j \in 1 .. n : StoodTwice(last[j], runs) => Crowded(last)) => second.cast = last
    BY <1>1, <1>2, <1>6, <1>8, <2>1, PlacedIs
  <2>3. second.cast = last
    BY <1>6, <2>2
  <2>4. second.runs = out.runs
    BY <1>6, <2>2, <2>3, RunsAreTheSame
  <2> QED  BY <2>3, <2>4 DEF second
<1>12. RepairIsIdempotent
  BY <1>9, <1>11 DEF RepairIsIdempotent
<1>13. shot' # NoShot
  <2> SUFFICES ASSUME shot' = NoShot  PROVE FALSE
    OBVIOUS
  <2>1. framing = "other" /\ last = <<>>
    BY <1>4, <1>9 DEF NoShot
  <2>2. n = 0 /\ cast = raw.cast
    BY <1>5, <1>7, <2>1
  <2>3. raw.cast = <<>>
    BY <1>2, <2>2 DEF Cast
  <2> QED  BY <1>1, <1>2, <2>1, <2>3 DEF NoShot
<1>14. ASSUME NEW m \in Member
       PROVE  (m.key \in Keys /\ before[m.key] = <<<<m.pos, m.depth>>, <<m.pos, m.depth>>>>) <=> StoodTwice(m, runs)
  BY <1>1, StoodAlreadyIs DEF StoodAlready
<1>15. /\ \A i, j \in DOMAIN last : last[i].pos = last[j].pos => i = j \/ Crowded(last)
       /\ \A i \in DOMAIN last : StoodTwice(last[i], runs) => Crowded(last)
       /\ Refocused(framing, last) = last
       /\ \A i \in DOMAIN last : Straight(last[i])
  <2>1. \A i, j \in DOMAIN last : last[i].pos = last[j].pos => i = j \/ Crowded(last)
    BY <1>6 DEF Apart
  <2>2. \A i \in DOMAIN last : StoodTwice(last[i], runs) => Crowded(last)
    BY <1>6, <1>7
  <2>3. Refocused(framing, last) = last
    <3> DEFINE view == framing
               focused == Refocused(view, last)
    <3>1. Clashing(view, last) = {} /\ last \in Cast(n) /\ n \in Nat
      BY <1>2, <1>6
    <3>2. focused = Refocused(view, last)
      OBVIOUS
    <3> HIDE DEF view, focused
    <3>3. focused = last
      BY <3>1, <3>2, RefocusedIs
    <3> QED  BY <3>3 DEF view, focused
  <2>4. \A i \in DOMAIN last : Straight(last[i])
    BY <1>6 DEF Upright
  <2> QED  BY <2>1, <2>2, <2>3, <2>4
<1>16. ASSUME last # <<>>, NEW i \in DOMAIN raw.cast
       PROVE  /\ last[i].key = raw.cast[i].key
              /\ First(raw.cast, i) /\ last[i].pos # raw.cast[i].pos =>
                   LET back == [last[i] EXCEPT !.pos = raw.cast[i].pos]
                   IN back.key \in Keys /\ before[back.key] = <<<<back.pos, back.depth>>, <<back.pos, back.depth>>>>
              /\ last[i].depth # raw.cast[i].depth => Refocused(framing, raw.cast) # raw.cast
  <2>1. cast = raw.cast
    <3>1. CASE framing = "object"
      <4>1. n = 0
        BY <1>5, <3>1 DEF n
      <4>2. DOMAIN last = 1 .. 0 /\ last = [j \in 1 .. 0 |-> last[j]]
        BY <1>6, <4>1 DEF Cast
      <4> QED  BY <1>16, <4>2
    <3> QED  BY <1>5, <3>1
  <2>2. i \in 1 .. n
    BY <1>7, <1>16, <2>1
  <2>3. ASSUME First(cast, i), last[i].pos # cast[i].pos
        PROVE  LET back == [last[i] EXCEPT !.pos = cast[i].pos]
               IN back.key \in Keys /\ before[back.key] = <<<<back.pos, back.depth>>, <<back.pos, back.depth>>>>
    <3> DEFINE back == [last[i] EXCEPT !.pos = cast[i].pos]
    <3>1. last[i] \in Member /\ cast[i].pos \in Positions
      BY <1>2, <1>7, <2>2, SlotsAre DEF Member
    <3>2. back \in Member
      BY <3>1 DEF Member
    <3>3. StoodTwice(back, runs)
      BY <1>6, <2>2, <2>3
    <3> HIDE DEF back
    <3>4. back.key \in Keys /\ before[back.key] = <<<<back.pos, back.depth>>, <<back.pos, back.depth>>>>
      BY <1>14, <3>2, <3>3
    <3> QED  BY <3>4 DEF back
  <2>4. ASSUME last[i].depth # cast[i].depth  PROVE Refocused(framing, cast) # cast
    <3>1. i \in Clashing(framing, cast)
      BY <1>6, <2>2, <2>4
    <3> DEFINE focused == Refocused(framing, cast)
    <3>2. focused = Refocused(framing, cast)
      OBVIOUS
    <3> HIDE DEF focused
    <3>3. focused[i].depth # cast[i].depth
      BY <1>2, <2>2, <3>1, <3>2, RefocusedIs
    <3> QED  BY <3>3 DEF focused
  <2>5. last[i].key = cast[i].key
    BY <1>6, <2>2
  <2> QED  BY <2>1, <2>3, <2>4, <2>5
<1>17. RepairedSoundly'
  <2>1. \A i \in DOMAIN last : last[i].key \in Keys
            /\ before[last[i].key] = <<<<last[i].pos, last[i].depth>>, <<last[i].pos, last[i].depth>>>> => Crowded(last)
    BY <1>7, <1>14, <1>15
  <2>2. WellPlaced(shot.cast)'
    BY <1>1, <1>9, <1>15, <2>1 DEF WellPlaced, StoodAlready
  <2>3. OnlyOffendersMove'
    BY <1>1, <1>9, <1>16 DEF OnlyOffendersMove, StoodAlready
  <2> QED  BY <2>2, <2>3 DEF RepairedSoundly
<1>18. ASSUME NEW k \in Keys  PROVE Behind(runs'[k], Seen(k)')
  <2>1. Seen(k)' = <<At(k, last), before[k][1]>>
    BY <1>1, <1>9, <1>13 DEF Seen
  <2>2. Behind(runs[k], before[k])
    BY <1>1
  <2>3. CASE \E j \in DOMAIN last : last[j].key = k
    <3> DEFINE here == CHOOSE j \in DOMAIN last : last[j].key = k
               m == last[here]
    <3>1. here \in DOMAIN last /\ m.key = k
      BY <2>3
    <3>2. At(k, last) = <<m.pos, m.depth>>
      BY <2>3 DEF At
    <3> HIDE DEF here
    <3>3. m \in Member /\ runs'[k] = RunOn(m, runs)
      BY <1>3, <1>6, <1>7, <3>1 DEF RunsOf
    <3> HIDE DEF m
    <3>4. Behind(RunOn(m, runs), <<<<m.pos, m.depth>>, before[k][1]>>)
      BY <1>1, <2>2, <3>1, <3>3, RunsFollow
    <3> QED  BY <2>1, <3>2, <3>3, <3>4
  <2>4. CASE ~(\E j \in DOMAIN last : last[j].key = k)
    <3>1. runs'[k] = NoRun
      BY <1>3, <1>6, <2>4 DEF RunsOf
    <3>2. At(k, last) = Nowhere
      BY <2>4 DEF At
    <3> QED  BY <2>1, <3>1, <3>2 DEF Behind
  <2> QED  BY <2>3, <2>4
<1>19. PlacementInv'
  BY <1>1, <1>3, <1>6, <1>11, <1>18 DEF PlacementInv
<1> QED  BY <1>12, <1>17, <1>19

LEMMA PlacementKeeps ==
  ASSUME PlacementInv, [PlacementNext]_placementVars
  PROVE  PlacementInv' /\ [RepairedSoundly' /\ RepairIsIdempotent]_placementVars
<1>1. CASE UNCHANGED placementVars
  BY <1>1 DEF PlacementInv, Seen, placementVars
<1>2. CASE Write
  <2>1. shot = NoShot /\ shot' = NoShot
    BY <1>2 DEF Write, PlacementInv
  <2>2. PlacementInv'
    BY <1>2, <2>1 DEF Write, PlacementInv, Seen
  <2>3. RepairedSoundly' /\ RepairIsIdempotent
    BY <2>1 DEF RepairedSoundly, RepairIsIdempotent, Done
  <2> QED  BY <2>2, <2>3
<1>3. CASE Repair
  BY <1>3, RepairPlaces
<1>4. CASE GoOn
  <2>1. shot # NoShot /\ shot' = NoShot /\ raw' = NoShot /\ runs' = runs /\ again' = again
    BY <1>4 DEF GoOn
  <2>2. \A k \in Keys : before'[k] = <<At(k, shot.cast), before[k][1]>>
    BY <1>4 DEF GoOn
  <2>3. \A k \in Keys : Seen(k)' = Seen(k)
    BY <2>1, <2>2 DEF Seen
  <2>4. PlacementInv'
    BY <2>1, <2>3 DEF PlacementInv
  <2>5. RepairedSoundly' /\ RepairIsIdempotent
    BY <2>1 DEF RepairedSoundly, RepairIsIdempotent, Done
  <2> QED  BY <2>4, <2>5
<1> QED  BY <1>1, <1>2, <1>3, <1>4 DEF PlacementNext

-----------------------------------------------------------------------------
\* What is planned holds together: the outline and its briefs, the text with
\* its shots and its verdict, and the camera's movements (PlanHolds).
THEOREM PlanHeld == Spec => []PlanHolds
<1> DEFINE Plan == ChainInv /\ OutlineInv /\ CameraInv
<1>1. Init => Plan
  BY ChainStarts, OutlineStarts, CameraStarts DEF Init
<1>2. Plan /\ [Next]_allVars => Plan'
  <2> SUFFICES ASSUME Plan, [Next]_allVars  PROVE Plan'
    OBVIOUS
  <2>1. [ChainNext]_chainVars /\ [OutlineNext]_outlineVars /\ [CameraNext]_cameraVars
    <3>1. UNCHANGED <<outlineVars, cameraVars>> \/ UNCHANGED <<chainVars, cameraVars>>
            \/ UNCHANGED <<chainVars, outlineVars>>
      BY Zenon DEF Next, allVars
    <3> QED  BY Zenon DEF Next, allVars
  <2>2. ChainInv'
    BY <2>1, ChainKeeps
  <2>3. OutlineInv'
    BY <2>1, OutlineKeeps
  <2>4. CameraInv'
    BY <2>1, CameraKeeps
  <2> QED  BY <2>2, <2>3, <2>4
<1>3. Plan => PlanHolds
  BY ChainFits, OutlineFollows, CameraFollows DEF PlanHolds
<1> QED  BY <1>1, <1>2, <1>3, PTL DEF Spec

\* Whatever the words' times are and whatever the operator edits, the alignment
\* does not fail, and the clips tile the scene and follow its speech
\* (ImagesFollowTheSpeech).
THEOREM ImagesFollow == Spec => []ImagesFollowTheSpeech
<1>1. Init => TimelineInv
  BY TimelineStarts DEF Init
<1>2. TimelineInv /\ [Next]_allVars => TimelineInv'
  <2>1. ASSUME [Next]_allVars  PROVE [TimelineNext]_timelineVars
    <3>1. CASE UNCHANGED timelineVars
      BY <3>1
    <3>2. CASE ~ UNCHANGED timelineVars
      BY <2>1, <3>2, Zenon DEF Next, allVars
    <3> QED  BY <3>1, <3>2
  <2> QED  BY <2>1, TimelineKeeps
<1>3. TimelineInv => ImagesFollowTheSpeech
  BY TimelineFollows
<1> QED  BY <1>1, <1>2, <1>3, PTL DEF Spec

\* Whatever shots the model writes, a repaired one has its cast apart and in
\* keeping with the camera, only cards at fault have moved, and a second pass
\* over it changes nothing (PlacementsAreSound).
THEOREM PlacementsHold == Spec => PlacementsAreSound
<1>1. Init => PlacementInv
  BY PlacementStarts DEF Init
<1>2. PlacementInv /\ [Next]_allVars => PlacementInv' /\ [RepairedSoundly' /\ RepairIsIdempotent]_placementVars
  <2>1. ASSUME [Next]_allVars  PROVE [PlacementNext]_placementVars
    <3>1. CASE UNCHANGED placementVars
      BY <3>1
    <3>2. CASE ~ UNCHANGED placementVars
      BY <2>1, <3>2, Zenon DEF Next, allVars
    <3> QED  BY <3>1, <3>2
  <2> QED  BY <2>1, PlacementKeeps
<1> QED  BY <1>1, <1>2, PTL DEF Spec, PlacementsAreSound

=============================================================================
