----------------------------- MODULE MCEvaluation -----------------------------
(* A chain of one metric that may be unmeasured and one that never is, and  *)
(* the pairs of readings that matter for it; two golden items, of which the *)
(* second only times out; two shots that share a sentence, decompositions   *)
(* of them and reports that nobody should believe.                          *)
EXTENDS Evaluation, TLC

CONSTANTS i1, i2   \* the golden items

MCChain == <<[key |-> "cut_alignment_error", higher |-> FALSE, eps |-> 1],
             [key |-> "motion_archetype_coverage", higher |-> TRUE, eps |-> 1]>>
Reads(cut, coverage) == ("cut_alignment_error" :> cut) @@ ("motion_archetype_coverage" :> coverage)
Pair(a, b) == [A |-> a, B |-> b]
MCReadings ==
  {Pair(Reads(-1, 0), Reads(2, 2)), Pair(Reads(-1, 2), Reads(2, 0)), Pair(Reads(2, 0), Reads(-1, 2)),
   Pair(Reads(0, 0), Reads(2, 2)), Pair(Reads(2, 2), Reads(0, 0)), Pair(Reads(0, 1), Reads(1, 2))}

Marked(atmosphere, fidelity) ==
  [kind |-> "scored", marks |-> ("atmosphere" :> atmosphere) @@ ("fidelity" :> fidelity)]
Without(why) == [Marked(0, 0) EXCEPT !.kind = why]
Drawn(first, second) == (i1 :> first) @@ (i2 :> second)
MCDraws ==
  {Drawn(first, Marked(1, 1)) :
     first \in {Marked(1, 1), Marked(1, 0), Marked(0, 1),
               Without("timeout"), Without("broken"), Without("missing")}}
  \cup {Drawn(Marked(1, 1), Without("timeout"))}

MCShots == <<{1, 2}, {2}>>
Asked(frames, limit, reps, dsg) == [frames |-> frames, limit |-> limit, reps |-> reps, dsg |-> dsg]
MCSweeps ==
  {Asked("images", 0, 2, TRUE), Asked("images", 1, 1, TRUE),
   Asked("shots", 0, 1, TRUE), Asked("images", 0, 3, FALSE)}
Prop(id, kind, body, parent) == [id |-> id, kind |-> kind, body |-> body, parent |-> parent]
Room == Prop("p", "place", "no", "none")
MCGraphs ==
  {<< >>, <<Room>>,
   <<Prop("p", "person", "yes", "none"), Prop("q", "action", "yes", "p")>>,
   <<Room, Prop("q", "object", "no", "p"), Prop("r", "state", "no", "q")>>,
   <<Room, Prop("q", "object", "yes", "p"), Prop("r", "state", "no", "q")>>,
   <<Room, Prop("q", "object", "no", "p"), Prop("r", "person", "no", "p")>>,
   <<Prop("p", "place", "no", "q"), Prop("q", "object", "no", "none")>>,
   <<Room, Prop("p", "object", "no", "none")>>,
   <<Prop("p", "place", "unsaid", "none")>>}
Lying(scored, unreadable, sum, of) ==
  [is |-> "report", scored |-> scored, unreadable |-> unreadable, sum |-> sum, of |-> of]
MCFound == {Torn, Lying(0, 0, 0, 0), Lying(2, 5, 40, 2), Lying(2, -1, -1, 1)}
=============================================================================
