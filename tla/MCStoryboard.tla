----------------------------- MODULE MCStoryboard -----------------------------
(* Shots for ShotPlacement, of which card a crosses and the others stand,  *)
(* and texts and hearings for SceneTimeline.                                *)
EXTENDS Storyboard
CONSTANTS a, b, x, y
MCKeys == {a, b}
MCStrangers == {x, y}
MCMode == [k \in {a, b, x, y} |-> IF k = a THEN "cross" ELSE "anchored"]

\* What parse_cast makes of any direction.
Entries(k, depths) ==
  {[key |-> k, pos |-> pos, depth |-> depth, dir |-> RepairMovement(MCMode[k], dir, pos)] :
     pos \in Positions, depth \in depths, dir \in {"none", "left"}}
Casts(order, depths) ==
  {cast \in [DOMAIN order -> UNION {Entries(order[i], depths) : i \in DOMAIN order}] :
     \A i \in DOMAIN order : cast[i].key = order[i]}
Shots(framings, orders, depths) ==
  {[framing |-> framing, cast |-> cast] :
     framing \in framings, cast \in UNION {Casts(order, depths) : order \in orders}}

MCFrames ==
  Shots({"wide", "close"}, {<<a>>}, {"near", "far"})
    \cup Shots({"other"}, {<<a>>, <<b>>}, {"mid", "near"})
    \cup Shots({"wide"}, {<<a, b>>}, {"near", "mid"})
    \cup Shots({"other"}, {<<b, a>>, <<a, x>>, <<x, a, b>>}, {"mid"})
    \cup Shots({"other"}, {<<a, x, y, b>>}, {"mid"})
    \cup Shots({"object"}, {<<a, b>>}, {"mid"})

\* Heard in order, over the word before, of no length, backwards, past the end.
Word1(from, till) == [from |-> from, till |-> till]
MCHeard == {Unheard, Word1(0, 4), Word1(3, 8), Word1(9, 9), Word1(6, 2), Word1(12, 15)}
Texts == {<<1>>, <<2>>, <<1, 1>>, <<1, 2>>, <<2, 1>>, <<1, 1, 1>>, <<1, 1, 1, 1>>}

\* Scenes of an outline, the opening among them, one too large to open or to
\* close and one off the vocabulary; and what they may do with two loops and
\* a third that is one too few or one too many.
Beat(hook, interrupt, budget) == [hook |-> hook, interrupt |-> interrupt, budget |-> budget]
MCBeats ==
  {Beat(TRUE, "none", 74), Beat(TRUE, "direct_address", 60),
   Beat(FALSE, "none", 74), Beat(FALSE, "none", 130), Beat(FALSE, "direct_address", 70),
   Beat(FALSE, "tone_shift", 100), Beat(FALSE, "pov_shift", 131), Beat(FALSE, "cut", 74)}
Ledger(plants, closes) == [plants |-> plants, closes |-> closes]
MCLedgers ==
  {Ledger({}, {}), Ledger({"l"}, {}), Ledger({"l", "m"}, {}), Ledger({"m"}, {"l"}),
   Ledger({}, {"l"}), Ledger({}, {"m"}), Ledger({}, {"l", "m"}), Ledger({"l"}, {"l"})}
=============================================================================
