----------------------------- MODULE MCImageStage -----------------------------
(* Values of ImageStage's constants for TLC. *)
EXTENDS ImageStage

Setting(attempts, key, gate, plates) ==
  [attempts |-> attempts, key |-> key, gate |-> gate, plates |-> plates]

\* The operator changes a knob between passes, loses the key or finds one.
AnySetting ==
  {Setting(1, TRUE, TRUE, FALSE), Setting(0, TRUE, TRUE, TRUE), Setting(1, TRUE, FALSE, TRUE),
   Setting(1, FALSE, TRUE, FALSE)}
LongLadder == {Setting(2, TRUE, TRUE, FALSE)}

OnePrompt == {"p"}
TwoPrompts == {"p", "q"}
First == {1}
None == {}
AnyRoom == {"yes", "no", "null"}
=============================================================================
