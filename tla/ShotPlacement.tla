--------------------------- MODULE ShotPlacement ---------------------------
(* Where the cast of each shot stands (scenario_chain.py, build_scenes):   *)
(* the model's placements, shot by shot, repaired so that two cards do not *)
(* share a slot, a camera does not contradict a depth, and a card does not *)
(* stand in one place for a third shot in a row.                           *)
EXTENDS Integers, Sequences, FiniteSets

CONSTANTS
  Keys,       \* cards that may come back in the next shot
  Strangers,  \* cards of one shot
  Mode,       \* each card's movement_mode
  Frames      \* the shots the model may write: [framing, cast]

VARIABLES
  raw,    \* the shot as parse_cast left it, NoShot between two shots
  shot,   \* the same shot repaired
  runs,   \* _enforce_cast_diversity's runs
  again,  \* the runs of a second pass over what the first one returns
  before  \* where each key stood in the two shots before, latest first

placementVars == <<raw, shot, runs, again, before>>

-----------------------------------------------------------------------------
Positions == {"left", "center", "right"}
Depths == {"near", "mid", "far"}
Framings == {"object", "wide", "close", "other"}
Preferences ==
  [left |-> <<"right", "center">>, center |-> <<"left", "right">>, right |-> <<"left", "center">>]
MaxSame == 2

Modes == {"anchored", "drift", "approach", "retreat", "cross", "enter", "exit"}
Directions == {"none", "left", "right", "in", "out"}

\* _repair_movement: a direction that its mode and the position allow.
RepairMovement(mode, direction, pos) ==
  IF mode \in {"anchored", "drift"} THEN "none"
  ELSE IF mode = "approach" THEN "in"
  ELSE IF mode = "retreat" THEN "out"
  ELSE IF mode = "cross"
       THEN IF direction \in {"left", "right"} \ {pos} THEN direction
            ELSE IF pos = "right" THEN "left" ELSE "right"
  ELSE IF direction \in {"left", "right"} THEN direction
  ELSE IF pos = "right" THEN "right" ELSE "left"

Member == [key : Keys \cup Strangers, pos : Positions, depth : Depths, dir : Directions]
Straight(m) == Mode[m.key] = "cross" => m.dir # m.pos

\* A cast names a card once (_cast_union), and its directions are repaired
\* (_parse_movement_fields).
ASSUME FramesKnown ==
  /\ Frames \subseteq [framing : Framings, cast : Seq(Member)]
  /\ \A frame \in Frames : \A i, j \in DOMAIN frame.cast :
       /\ Straight(frame.cast[i])
       /\ frame.cast[i].key = frame.cast[j].key => i = j
ASSUME ModesKnown == Mode \in [Keys \cup Strangers -> Modes]

\* _reassign_position.
Reassigned(m, pos) ==
  [key |-> m.key, pos |-> pos, depth |-> m.depth, dir |-> RepairMovement(Mode[m.key], m.dir, pos)]

Slots(cast) == {cast[i].pos : i \in DOMAIN cast}
Free(pos, taken) == Positions \ (taken \cup {pos})
Best(pos, free) == IF Preferences[pos][1] \in free THEN Preferences[pos][1] ELSE Preferences[pos][2]

\* _suppress_cast_on_no_figure_framing.
Visible(frame) == IF frame.framing = "object" THEN <<>> ELSE frame.cast

\* The slots a later member of the shot still claims.
\* Mutant: none is reserved, and the repair pushes a healthy card on.
ReservedNone(cast, i, occupied) == {}
Reserved(cast, i, occupied) == {cast[j].pos : j \in i + 1 .. Len(cast)} \ occupied

\* R1.  It gives up on the first member for which no slot is left.
Settle(was, i) ==
  LET m == was.cast[i]
      free == Free(m.pos, was.occupied \cup Reserved(was.cast, i, was.occupied))
      moved == Reassigned(m, Best(m.pos, free))
  IN IF was.full THEN was
     ELSE IF m.pos \notin was.occupied THEN [was EXCEPT !.occupied = @ \cup {m.pos}]
     ELSE IF free = {} THEN [was EXCEPT !.full = TRUE]
     ELSE [cast |-> [was.cast EXCEPT ![i] = moved],
           occupied |-> was.occupied \cup {moved.pos}, full |-> FALSE]
Unstacked(cast) ==
  LET settled[i \in 0 .. Len(cast)] ==
        IF i = 0 THEN [cast |-> cast, occupied |-> {}, full |-> FALSE] ELSE Settle(settled[i - 1], i)
  IN settled[Len(cast)].cast

\* R3: the two pairings of a camera and a depth that never go together.
Clashing(framing, cast) ==
  LET near == {i \in DOMAIN cast : cast[i].depth = "near"}
      far == {i \in DOMAIN cast : cast[i].depth = "far"}
  IN IF framing = "wide" /\ 2 * Cardinality(near) > Len(cast) THEN near
     ELSE IF framing = "close" /\ Len(cast) = 1 THEN far
     ELSE {}
Refocused(framing, cast) ==
  [i \in DOMAIN cast |->
     IF i \in Clashing(framing, cast) THEN [cast[i] EXCEPT !.depth = "mid"] ELSE cast[i]]

\* A count is only ever compared with the cap: above it, all are one.
NoRun == [pos |-> "none", depth |-> "none", count |-> 0]
Run == [pos : Positions, depth : Depths, count : 1 .. MaxSame + 1]
NoRuns == [k \in Keys |-> NoRun]
CountUp(n) == IF n > MaxSame THEN n ELSE n + 1
RunLength(m, ran) ==
  LET prev == IF m.key \in Keys THEN ran[m.key] ELSE NoRun
  IN IF prev.pos = m.pos /\ prev.depth = m.depth THEN CountUp(prev.count) ELSE 1

\* R2, on final slots and depths.  A key that is not in the shot has no run.
Vary(was, i, ran) ==
  LET m == was.cast[i]
      free == Free(m.pos, was.slots)
      moves == RunLength(m, ran) > MaxSame /\ free # {}
      kept == IF moves THEN Reassigned(m, Best(m.pos, free)) ELSE m
      run == [pos |-> kept.pos, depth |-> kept.depth, count |-> IF moves THEN 1 ELSE RunLength(m, ran)]
  IN [cast |-> [was.cast EXCEPT ![i] = kept],
      slots |-> IF moves THEN (was.slots \ {m.pos}) \cup {kept.pos} ELSE was.slots,
      runs |-> IF m.key \in Keys THEN [was.runs EXCEPT ![m.key] = run] ELSE was.runs]
Varied(cast, ran) ==
  LET varied[i \in 0 .. Len(cast)] ==
        IF i = 0 THEN [cast |-> cast, slots |-> Slots(cast), runs |-> NoRuns] ELSE Vary(varied[i - 1], i, ran)
  IN varied[Len(cast)]

\* _enforce_cast_diversity on one shot, in its order.
Placed(frame, ran) == Varied(Refocused(frame.framing, Unstacked(Visible(frame))), ran)

-----------------------------------------------------------------------------
NoShot == [framing |-> "other", cast |-> <<>>]
Nowhere == <<>>

PlacementInit ==
  /\ raw = NoShot /\ shot = NoShot
  /\ runs = NoRuns /\ again = NoRuns
  /\ before = [k \in Keys |-> <<Nowhere, Nowhere>>]

\* visual_breakdown_step's next shot.
Write ==
  /\ raw = NoShot
  /\ raw' \in Frames
  /\ UNCHANGED <<shot, runs, again, before>>

Repair ==
  /\ raw # NoShot /\ shot = NoShot
  /\ shot' = [raw EXCEPT !.cast = Placed(raw, runs).cast]
  /\ runs' = Placed(raw, runs).runs
  /\ again' = Placed(shot', again).runs
  /\ UNCHANGED <<raw, before>>

At(k, cast) ==
  IF \E i \in DOMAIN cast : cast[i].key = k
  THEN LET m == cast[CHOOSE i \in DOMAIN cast : cast[i].key = k] IN <<m.pos, m.depth>>
  ELSE Nowhere

\* The loop goes on; what the properties need of this shot is kept.
GoOn ==
  /\ shot # NoShot
  /\ before' = [k \in Keys |-> <<At(k, shot.cast), before[k][1]>>]
  /\ raw' = NoShot /\ shot' = NoShot
  /\ UNCHANGED <<runs, again>>

PlacementNext == Write \/ Repair \/ GoOn
PlacementSpec == PlacementInit /\ [][PlacementNext]_placementVars
-----------------------------------------------------------------------------

Done == shot # NoShot
First(cast, i) == \A j \in 1 .. i - 1 : cast[j].pos # cast[i].pos
Crowded(cast) == Slots(cast) = Positions
StoodAlready(m) == m.key \in Keys /\ before[m.key] = <<<<m.pos, m.depth>>, <<m.pos, m.depth>>>>

(* No two cards of a repaired shot share a slot, and none stands where it  *)
(* stood in the two shots before, while a slot is free; no depth           *)
(* contradicts the camera; and nobody crosses to the side it starts from.  *)
(* And only a card at fault moves: the first to claim a slot keeps it      *)
(* unless it would stand there a third time, and a depth changes only      *)
(* against the camera.                                                      *)
WellPlaced(cast) ==
  /\ \A i, j \in DOMAIN cast : cast[i].pos = cast[j].pos => i = j \/ Crowded(cast)
  /\ \A i \in DOMAIN cast : StoodAlready(cast[i]) => Crowded(cast)
  /\ Refocused(shot.framing, cast) = cast
  /\ \A i \in DOMAIN cast : Straight(cast[i])
OnlyOffendersMove ==
  shot.cast # <<>> => \A i \in DOMAIN raw.cast :
    /\ shot.cast[i].key = raw.cast[i].key
    /\ First(raw.cast, i) /\ shot.cast[i].pos # raw.cast[i].pos =>
         StoodAlready([shot.cast[i] EXCEPT !.pos = raw.cast[i].pos])
    /\ shot.cast[i].depth # raw.cast[i].depth => Refocused(raw.framing, raw.cast) # raw.cast
RepairedSoundly == Done => WellPlaced(shot.cast) /\ OnlyOffendersMove

(* And a second pass over the repaired shots changes nothing (8.18's AC6).  *)
RepairIsIdempotent ==
  shot = NoShot /\ shot' # NoShot => Placed(shot', again).cast = shot'.cast
PlacementsAreSound == [][RepairedSoundly' /\ RepairIsIdempotent]_placementVars
=============================================================================
