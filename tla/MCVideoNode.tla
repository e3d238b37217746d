----------------------------- MODULE MCVideoNode -----------------------------
(* A shot of one figure, and a shot of it and one that CARD_LOOKS has not;  *)
(* scripts of one, two and three scenes; the settings that make a boundary  *)
(* and an end what they are; troupes, depth columns and ways of moving; a   *)
(* figure and an extra in poses and with hints, and libraries that have     *)
(* their cards, lack some, or have no front.                                *)
EXTENDS VideoNode

Member(key, pose, hint) == [key |-> key, pose |-> pose, hint |-> hint]
MCCastings ==
  {<< <<Member("scp", "sitting", "none"), Member("guard", "standing", "none")>>,
      <<Member("guard", "sitting", "hint:kneel"), Member("", "standing", "none")>>,
      <<Member("scp", "standing", "none")>> >>,
   << <<Member("scp", "standing", "hint:kneel")>>,
      <<Member("scp", "sitting", "none"), Member("guard", "standing", "none")>> >>}
MCStocks ==
  [rows : {[k \in {"scp", "guard"} |-> {"front", "back"}], [k \in {"scp"} |-> {"side"}],
           [k \in {"scp", "guard"} |-> IF k = "scp" THEN {"side", "back"} ELSE {}]},
   posed : {{}, {<<"scp", "sitting", "front">>, <<"guard", "hint:kneel", "front">>},
            {<<"scp", "sitting", "side">>, <<"scp", "hint:kneel", "front">>}}]

MCCast == <<{"SCP-049"}, {"SCP-049", "SCP-173"}>>

Told(mood, plan) == [mood |-> mood, plan |-> plan]
MCScripts ==
  {<<Told("dread", <<"a">>)>>,
   <<Told("dread", <<"a", "b">>), Told("clinical", <<"c">>)>>,
   <<Told("clinical", <<"a">>), Told("dread", <<"b", "c">>), Told("clinical", <<"d">>)>>}

AllOn == [cards |-> TRUE, sound |-> TRUE, noise |-> TRUE, credit |-> TRUE]
MCKnobs ==
  {AllOn,
   [AllOn EXCEPT !.cards = FALSE],
   [AllOn EXCEPT !.cards = FALSE, !.credit = FALSE],
   [AllOn EXCEPT !.cards = FALSE, !.sound = FALSE],
   [AllOn EXCEPT !.sound = FALSE, !.credit = FALSE]}

Card(depth, hidden) == [depth |-> depth, hidden |-> hidden]
MCTroupes ==
  {<< >>, <<Card("near", TRUE)>>, <<Card("near", FALSE), Card("far", TRUE)>>,
   <<Card("mid", TRUE), Card("mid", FALSE)>>,
   <<Card("near", FALSE), Card("mid", TRUE), Card("far", FALSE)>>}

\* A floor that begins at a row; one with a box on it; a bright wall above; nothing.
Sloping(from) == [r \in 1 .. 21 |-> IF r < from THEN 0 ELSE r - from + 1]
MCPlates ==
  {<< >>, Sloping(9), [Sloping(12) EXCEPT ![15] = 9, ![16] = 9],
   [r \in 1 .. 21 |-> IF r < 8 THEN 9 ELSE r - 7], [r \in 1 .. 21 |-> 5]}

Going(mode, direction, pace, position) ==
  [mode |-> mode, direction |-> direction, pace |-> pace, position |-> position]
MCMoves ==
  {Going("anchored", "none", "slow", "center"), Going("drift", "none", "slow", "left"),
   Going("enter", "left", "fast", "right"), Going("exit", "right", "medium", "left"),
   Going("cross", "left", "medium", "right"),
   Going("approach", "none", "fast", "center"), Going("retreat", "none", "slow", "center")}
MCLengths == [zoompan |-> 12, warp |-> 2]
=============================================================================
