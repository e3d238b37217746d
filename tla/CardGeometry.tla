---------------------------- MODULE CardGeometry ----------------------------
(* Where one card of a shot stands, frame by frame, and where the plate under *)
(* it has moved to: two computations that share no code (compositing_service, *)
(* _zoompan_filter, ground_y_expr, _overlay_filter, camera_path and the warp  *)
(* of parallax_service), both in pixels of the 1920 x 1080 frame; a zoom is   *)
(* in thousandths.  The noise, a hash of the time, is any value in its band.  *)
EXTENDS Integers, Sequences, SequencesExt, FiniteSets, FiniteSetsExt, Functions

CONSTANTS
  Plates,  \* columns of a depth map, top row first, 0 the farthest; <<>>: no map
  Aspects, \* of the plates, in thousandths
  Hints,   \* camera_movement
  Turns,   \* effect indices
  Moves,   \* a card's blocking: [mode, direction, pace, position]
  Lengths, \* frames of a shot, by way: [zoompan |-> n, warp |-> n]
  XyPeak   \* background_displacement, in pixels

ASSUME PeakInBand == XyPeak \in 19 .. 58

VARIABLES
  staged,  \* the shot, with its card placed; NoShot
  sampled, \* sample_path's samples
  tick,    \* frames rendered
  overscan, \* TrajectoryExprs.margin, in thousandths
  zoomed   \* zoompan's own zoom, carried from frame to frame

geometryVars == <<staged, sampled, tick, overscan, zoomed>>

W == 1920
H == 1080
Smaller(a, b) == IF a < b THEN a ELSE b
Larger(a, b) == IF a < b THEN b ELSE a
Dist(a, b) == Larger(a - b, b - a)

Frames == Lengths[staged.way]
DepthsOfCards == {"near", "mid", "far"}
NoShot == [way |-> "none"]
GeometryInit == staged = NoShot /\ sampled = << >> /\ tick = 0 /\ overscan = 0 /\ zoomed = 1000

-----------------------------------------------------------------------------
(* The tables.                                                               *)

ZoomInMax == 1150
\* The most a style moves a card at the loudest energy; the tables of character_motion.
Bob == [hold |-> 0, breath |-> 8, sway |-> 8, tremble |-> 8 + 3, pulse |-> 0, glitch |-> 5]
Swell == [hold |-> 0, breath |-> 15, sway |-> 15, tremble |-> 15, pulse |-> 50, glitch |-> 0]
Energy == [low |-> 6, medium |-> 10, high |-> 15]
Styles == DOMAIN Bob
Loud(amp, energy) == (amp * Energy[energy] + 9) \div 10
MaxMotion == Max({Loud(Bob[s], "high") : s \in Styles})
MaxSwell == 1000 + Max({Loud(Swell[s], "high") : s \in Styles})

LayerRatio == [far |-> 60, mid |-> 70, near |-> 80]
DepthParallax == [far |-> 3, mid |-> 6, near |-> 10]
DepthScale == [far |-> 55, mid |-> 75, near |-> 100]
DisplacementMax == (W * 3) \div 100
CharPan == 12
MacroReserve == Larger(CharPan, (DisplacementMax * LayerRatio["near"]) \div 100 + 1)
CharMaxZoom == 1000 + ((ZoomInMax - 1000) * 13) \div 10
CharMaxH == ((((H - 2 * (MaxMotion + MacroReserve)) * 1000) \div CharMaxZoom) * 1000) \div MaxSwell
GroundMax == H - (MaxMotion + MacroReserve)

PositionX == [left |-> W \div 3, center |-> W \div 2, right |-> (2 * W) \div 3]
Shallower == [near |-> "mid", mid |-> "far", far |-> "far"]
PaceShare == [slow |-> 100, medium |-> 60, fast |-> 35]
DriftPx == 40

PanSign(dir) ==
  CASE dir \in {"pan-up", "pan-up-right", "pan-up-left"} -> -1
    [] dir \in {"pan-down", "pan-down-right", "pan-down-left"} -> 1
    [] OTHER -> 0

Pool == <<"in-center", "pan-right", "pan-left", "out-center", "pan-up", "pan-down",
          "pan-up-right", "pan-up-left", "pan-down-right", "pan-down-left">>
PanPool == SelectSeq(Pool, LAMBDA d : d \notin {"in-center", "out-center"})

\* select_effect; index rotates what has no direction of its own.
Effect(hint, index) ==
  LET dir == CASE hint \in {"push_in", "shake", "locked"} -> "in-center"
               [] hint = "pull_back" -> "out-center"
               [] hint = "drift" -> PanPool[(index % Len(PanPool)) + 1]
               [] OTHER -> Pool[(index % Len(Pool)) + 1]
  IN IF hint = "locked" THEN [dir |-> dir, lo |-> 1000, hi |-> 1005]
     ELSE IF dir = "out-center" THEN [dir |-> dir, lo |-> ZoomInMax, hi |-> 1000]
     ELSE [dir |-> dir, lo |-> 1000, hi |-> ZoomInMax]

\* The bands of an archetype, and of a stinger on top: the frame's shift, the
\* swing of its corners, the micro-zoom.
Noise(hint, trauma) ==
  LET band == CASE hint = "locked" -> [xy |-> 0, swing |-> 0, zoom |-> 0]
                [] hint = "shake" -> [xy |-> 33, swing |-> 16, zoom |-> 8]
                [] OTHER -> [xy |-> 11, swing |-> 3, zoom |-> 3]
  IN IF trauma THEN [band EXCEPT !.xy = @ + 25, !.swing = @ + 18] ELSE band

-----------------------------------------------------------------------------
(* The plate's floor (ground_plane) and what stands before the card.         *)

Nearer(column, row) == Min({column[r] : r \in row .. Len(column)})
Reached(column, tenths) ==
  LET far == Nearer(column, 1)
      near == column[Len(column)]
      target == far * 100 + (near - far) * tenths
      band == {r \in DOMAIN column : Nearer(column, r) * 100 <= target}
      at == ((Max(band) - 1) * 1000) \div (Len(column) - 1)
  IN [ground |-> Larger(550, Smaller(at, 980)), plane |-> target]
Target == [far |-> 45, mid |-> 65, near |-> 85]
DefaultGround == [far |-> 763, mid |-> 863, near |-> 945]
NoPlane == -1
Plane(column, depth) ==
  IF \/ column = << >>
     \/ Reached(column, Target["near"]).ground - Reached(column, Target["far"]).ground < 50
  THEN [ground |-> DefaultGround[depth], plane |-> NoPlane]
  ELSE Reached(column, Target[depth])

\* card_box and occlusion_mask, of the one column: the rows that are cut.
CardHeight == [far |-> 379, mid |-> 516, near |-> 688]
Rows(column, ground, depth) ==
  LET h == Len(column) IN
  Larger(0, ((ground - CardHeight[depth]) * h + 500) \div 1000) + 1 .. Smaller(h, (ground * h + 500) \div 1000)
Covered(column, plane, band, depth) ==
  LET values == Range(column)
      low == IF values = {} THEN 0 ELSE Min(values)
      high == IF values = {} THEN 0 ELSE Max(values)
      behind == IF plane = NoPlane THEN low * 100 + (high - low) * Target[depth] ELSE plane
      before == {r \in band : column[r] * 100 > behind + (high - low) * 10}
  IN IF high = low \/ before = band THEN {} ELSE before

\* frame_fraction: a plate narrower than the frame loses a band above and below.
FrameFraction(aspect, fraction) ==
  LET k == (1778 * 1000) \div aspect
  IN IF k <= 1000 THEN fraction ELSE (fraction * k) \div 1000 - (k - 1000) \div 2

\* resolve_placements, and what _merge_placements lets through of it: nothing, or a
\* number that is clamped, and a mask.
Placed(grounded, aspect, column, depth) ==
  IF ~grounded THEN [is |-> FALSE]
  ELSE LET plane == Plane(column, depth)
           band == Rows(column, plane.ground, depth)
           floor == (FrameFraction(aspect, plane.ground) * H) \div 1000
       IN [is |-> TRUE, y |-> Larger(0, Smaller(floor, GroundMax)), floor |-> floor, on |-> plane,
           sole |-> IF band = {} THEN 0 ELSE Max(band), cut |-> Covered(column, plane.plane, band, depth)]

-----------------------------------------------------------------------------
(* The shot is staged, its path sampled, its frames rendered.                *)

\* video_node and build_motion_source: the plate is zoompanned, or warped.
Stage(way, hint, index, trauma, depth, column, aspect, grounded, move) ==
  /\ staged' = [way |-> way, hint |-> hint, trauma |-> trauma, depth |-> depth, move |-> move,
                effect |-> Effect(hint, index), at |-> Placed(grounded, aspect, column, depth)]
  /\ UNCHANGED <<sampled, tick, overscan, zoomed>>

Pan == PanSign(staged.effect.dir) * DisplacementMax
Panned == staged.effect.dir \notin {"in-center", "out-center"}
Band == Noise(staged.hint, staged.trauma)
Share(part, whole) == IF part >= 0 THEN (part * XyPeak) \div whole ELSE -((-part * XyPeak) \div whole)
\* xy_gain: pan and noise together reach the peak, never one of them alone.
\* Mutant: the larger of them does.
GainedApart(shift) ==
  LET peak == Larger(IF Panned THEN DisplacementMax ELSE 0, Band.xy)
  IN IF peak = 0 THEN 0 ELSE Share(shift, peak)
Gained(shift) ==
  LET peak == (IF Panned THEN DisplacementMax ELSE 0) + Band.xy
  IN IF peak = 0 THEN 0 ELSE Share(shift, peak)

\* sample_overscan_margin: what is shifted, what swings, and the least zoom.
EdgeSlack == 2
Margin(samples) ==
  LET least == Min({sample.zoom : sample \in Range(samples)})
      shift == Max({Dist(sample.y, 0) + sample.swing : sample \in Range(samples)})
  IN Larger(0, 1000 - least) + ((shift + EdgeSlack) * 2000) \div H + 1

\* One frame of sample_path.
Sample(y, zoom) ==
  /\ staged.way = "warp" /\ Len(sampled) < Frames
  /\ LET on == Len(sampled)
         lo == staged.effect.lo
     IN sampled' = Append(sampled,
          [y |-> Gained((Pan * on) \div Frames + y),
           swing |-> Band.swing,
           zoom |-> lo + ((staged.effect.hi - lo) * on) \div Frames + zoom])
  /\ overscan' = Margin(sampled')
  /\ UNCHANGED <<staged, tick, zoomed>>

\* overscan_margin: of the bands, for no path is sampled; the flat path shakes what is
\* composed, scaled up by it.
ShakeMargin(band) == band.zoom + ((band.xy + band.swing + EdgeSlack) * 2000) \div H + 1

\* zoompan keeps its zoom between frames.
Zoompan(spec, zoom) ==
  IF spec.dir = "out-center"
  THEN IF zoom <= spec.hi THEN spec.lo ELSE Larger(spec.hi + 1, zoom - (spec.lo - spec.hi) \div Frames)
  ELSE Smaller(zoom + (spec.hi - spec.lo) \div Frames, spec.hi)

RenderFrame ==
  /\ staged # NoShot /\ tick < Frames
  /\ staged.way = "warp" => Len(sampled) = Frames
  /\ tick' = tick + 1
  /\ zoomed' = IF staged.way = "zoompan" THEN Zoompan(staged.effect, zoomed) ELSE zoomed
  /\ UNCHANGED <<staged, sampled, overscan>>

NextShot ==
  /\ staged # NoShot /\ tick = Frames
  /\ staged' = NoShot /\ sampled' = << >> /\ tick' = 0 /\ overscan' = 0 /\ zoomed' = 1000

GeometryNext ==
  \/ /\ staged = NoShot
     /\ \E way \in {"zoompan", "warp"}, hint \in Hints, index \in Turns, trauma, grounded \in BOOLEAN,
           depth \in DepthsOfCards, column \in Plates, aspect \in Aspects, move \in Moves :
          /\ hint \notin {"drift", ""} => index = Min(Turns)
          /\ ~grounded => column = << >>
          /\ way = "zoompan" => ~trauma
          /\ grounded => move.mode = "anchored"
          /\ Stage(way, hint, index, trauma, depth, column, aspect, grounded, move)
  \/ staged.way = "warp" /\ \E y \in {-Band.xy, Band.xy}, zoom \in {-Band.zoom, Band.zoom} : Sample(y, zoom)
  \/ RenderFrame \/ NextShot
GeometrySpec == GeometryInit /\ [][GeometryNext]_geometryVars

-----------------------------------------------------------------------------
(* The frame that was rendered last: the plate.                              *)

On == tick - 1
Scaled(n, zoom) == IF n >= 0 THEN (n * zoom) \div 1000 ELSE -((-n * zoom) \div 1000)

\* Where zoompan puts the row p of the plate: the crop's top, then the zoom.
Zoompanned(p) ==
  LET dir == staged.effect.dir
      room == ((zoomed - 1000) * H) \div 1000
  IN Scaled(p, zoomed) - (CASE PanSign(dir) = -1 -> (room * On) \div Frames
                            [] PanSign(dir) = 1 -> (room * (Frames - On)) \div Frames
                            [] OTHER -> room \div 2)

Overscanned(p) == Scaled(p - H \div 2, 1000 + overscan)
\* _warp_block, read forwards: the pixel of depth gain g (in hundredths) lands here.
Warped(p, g) ==
  H \div 2 + Scaled(Overscanned(p) + (g * sampled[tick].y) \div 100, sampled[tick].zoom)
\* depth_gain_field: the farthest and the nearest.
Gains == {25, 100}
\* The source row the edge of the frame is read from, and how far the source reaches.
Fetched(v, g) == (v * 1000) \div sampled[tick].zoom - (g * sampled[tick].y) \div 100
Reach == Scaled(H \div 2, 1000 + overscan)
ShakenReach(zoom) == Scaled(H \div 2, 1000 + ShakeMargin(Band) + zoom)

-----------------------------------------------------------------------------
(* The card.                                                                 *)

\* ground_y_expr: the zoom and the crop again, as expressions in t.
TrackedZoom ==
  LET spec == staged.effect
      inc == ((spec.lo - spec.hi) * (IF spec.dir = "out-center" THEN 1 ELSE -1)) \div Frames
  IN IF spec.dir = "out-center" THEN Larger(spec.hi + 1, spec.lo - inc * On)
     ELSE Smaller(spec.lo + inc * On, spec.hi)
Top(zoom) ==
  LET room == ((zoom - 1000) * H) \div 1000 IN
  CASE PanSign(staged.effect.dir) = -1 -> (room * On) \div Frames
    [] PanSign(staged.effect.dir) = 1 -> (room * (Frames - On)) \div Frames
    [] OTHER -> room \div 2
\* MotionSource.ground_expr, for something so high that its lower edge comes to rest there.
GroundExpr(high) ==
  Smaller(GroundMax,
    IF staged.way = "zoompan" THEN Scaled(staged.at.y, TrackedZoom) - Top(TrackedZoom)
    ELSE H \div 2 + Scaled(Overscanned(staged.at.y), sampled[tick].zoom)) - high

\* The layer term, or 7.3's pan.
LayerTerm == IF staged.way = "warp" THEN (LayerRatio[staged.depth] * sampled[tick].y) \div 100 ELSE 0
MacroPan ==
  IF staged.way = "warp" THEN 0
  ELSE (PanSign(staged.effect.dir) * CharPan * DepthParallax[staged.depth] * On) \div (10 * Frames)

\* _ease_progress: smoothstep, reached at the pace's share of the shot.
Eased ==
  LET part == Smaller(1000, (On * 100000) \div (Frames * PaceShare[staged.move.pace]))
  IN (((part * part) \div 1000) * (3000 - 2 * part)) \div 1000
\* build_movement_terms: how far from its mark, and how large.
Start(from, to) == IF from \in DOMAIN PositionX THEN PositionX[from] ELSE PositionX[to]
MovedX ==
  LET move == staged.move
      side == IF move.direction = "left" THEN -1 ELSE 1
  IN CASE move.mode = "enter" -> side * Scaled(W, 1000 - Eased)
       [] move.mode = "exit" -> side * Scaled(W, Eased)
       [] move.mode = "cross" -> Scaled(Start(move.direction, move.position) - PositionX[move.position], 1000 - Eased)
       [] move.mode = "drift" -> Scaled(DriftPx, Eased)
       [] OTHER -> 0
MovedScale ==
  LET ratio == (DepthScale[Shallower[staged.depth]] * 1000) \div DepthScale[staged.depth] IN
  CASE staged.move.mode = "approach" -> 1000 - Scaled(1000 - ratio, 1000 - Eased)
    [] staged.move.mode = "retreat" -> 1000 - Scaled(1000 - ratio, Eased)
    [] OTHER -> 1000

\* The cap, the parallax zoom and the loudest swell of a card drawn too large.
CardH(style, energy) ==
  LET cap == (CharMaxH * DepthScale[staged.depth]) \div 100
      factor == 100 + 3 * DepthParallax[staged.depth]
      spec == staged.effect
      base == spec.lo + ((spec.hi - spec.lo) * On) \div Frames - 1000
      moved == Scaled(cap, MovedScale)
      grown == IF staged.way = "warp" THEN moved ELSE Scaled(moved, 1000 + (base * factor) \div 100)
  IN Scaled(grown, 1000 + Loud(Swell[style], energy))
Feet == LET high == CardH("hold", "low") IN GroundExpr(high) + LayerTerm + MacroPan + high
\* An ellipse drawn at ground_y on a layer as high as the frame, which slides with the feet.
Shadow == staged.at.y + (GroundExpr(H) + H - staged.at.y + LayerTerm)

-----------------------------------------------------------------------------

Stride == ((ZoomInMax - 1000) * H) \div (1000 * Frames)
Slip == (XyPeak * 75) \div 100

\* A card no wider than it is high is out of the frame.
Outside == LET x == PositionX[staged.move.position] + MovedX
               half == CardH("hold", "low") \div 2
           IN x + half <= 0 \/ x - half >= W

(* In no frame does a card that stands on its plate leave the floor by more   *)
(* than a step of the zoom and its layer's share of the shift, unless the     *)
(* floor has sunk below the lowest place a card may stand; its shadow goes    *)
(* with it but for the pan of the flat path; no loudness of its idle motion   *)
(* takes the feet, or either end of a card that hangs in the middle, out of   *)
(* the frame; the plate is shifted no more than was asked and is never read   *)
(* beyond its edge, nor the composed frame by a shake; what cuts a card is    *)
(* not the floor it stands on; and who comes or goes is out of the frame on   *)
(* that side and on the mark on this, by the pace's share of the shot.        *)
CardsStandTrue ==
  /\ \A i \in DOMAIN sampled : Dist(sampled[i].y, 0) <= XyPeak
  /\ tick > 0 =>
       /\ staged.at.is /\ staged.way = "zoompan" =>
            \/ Dist(Feet, Zoompanned(staged.at.floor)) <= Stride + Dist(MacroPan, 0) + 4
            \/ Feet - MacroPan = GroundMax /\ Zoompanned(staged.at.floor) >= GroundMax - Stride
            \/ staged.at.floor > GroundMax
       /\ staged.at.is /\ staged.way = "warp" => \A g \in Gains :
            \/ Dist(Feet, Warped(staged.at.floor, g)) <= Slip + 4
            \/ Feet - LayerTerm = GroundMax \/ staged.at.floor > GroundMax
       /\ staged.at.is => Dist(Feet, Shadow) = Dist(MacroPan, 0)
       /\ staged.way = "warp" => \A g \in Gains, end \in {-(H \div 2), H \div 2} :
            Dist(Fetched(end, g), 0) + sampled[tick].swing <= Reach
       /\ LET feet == Feet
              pan == Dist(LayerTerm + MacroPan, 0)
          IN \A style \in Styles, energy \in DOMAIN Energy :
               IF staged.at.is THEN feet + Loud(Bob[style], energy) <= H
               ELSE CardH(style, energy) \div 2 + Loud(Bob[style], energy) + pan <= H \div 2
       /\ LET settled == On * 100 >= Frames * PaceShare[staged.move.pace] IN
          /\ settled /\ staged.move.mode \in {"enter", "cross", "approach"} => MovedX = 0 /\ MovedScale = 1000
          /\ (staged.move.mode = "enter" /\ On = 0) \/ (staged.move.mode = "exit" /\ settled) => Outside
          /\ staged.move.mode = "drift" => Dist(MovedX, 0) < W \div 12
       /\ \A y \in {-Band.xy, Band.xy}, zoom \in {-Band.zoom, Band.zoom} :
            staged.way = "zoompan" => H \div 2 + Dist(y, 0) + Band.swing <= ShakenReach(zoom)
       /\ (staged.at.is /\ staged.at.on.plane # NoPlane /\ staged.at.on.ground \in 551 .. 979) =>
            staged.at.sole \notin staged.at.cut
=============================================================================
