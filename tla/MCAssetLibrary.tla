--------------------------- MODULE MCAssetLibrary ---------------------------
(* A small cast, two poses of one key and a key without a description, two   *)
(* plates, two angles of candidates.                                          *)
EXTENDS AssetLibrary, TLC

CONSTANTS SCP049_2, SCP049_3, SCP049_4   \* derived keys

MCAngles == <<"front", "back">>
ThreeOffshoots == <<SCP049_4, SCP049_3, SCP049_2>>
OneHint == << <<SCP049_2, "lying">> >>

MCKeyOf == [s \in Sets |-> IF s = "guard" THEN "STOCK-guard" ELSE "SCP-049"]
BaseName == [w \in Estimators |-> w]
\* The runs are alike, and the two askers, whose base names go with them.
Alike == Permutations(Runs) \cup Permutations(Estimators)
=============================================================================
