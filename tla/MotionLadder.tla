---------------------------- MODULE MotionLadder ----------------------------
(* The moving backgrounds of a film (build_motion_source in video.py,       *)
(* render_motion_clip in parallax_service.py): a clip is rendered from its  *)
(* shot's plate, depth map and trajectory by the first renderer that can,   *)
(* kept with a sidecar that says what it was made of, and served again      *)
(* while that is what is asked for; a shot for which none can has its still *)
(* plate zoomed, and is counted.                                            *)
EXTENDS Integers, Sequences, FiniteSets

CONSTANTS
  Clips,         \* the clips of the film
  Trajectories,  \* what camera_path may ask of a clip
  MotionFaults,  \* "flow", "warp": it fails; "probe", "raise", "kill"
  MaxFilms,      \* the passes of the video stage
  MaxRemakes     \* changes of a plate or a depth map

NoMap == 0
Ladders == {"uninjected", "off", "warp", "flow"}
NoClip == [image |-> -1, map |-> NoMap, moves |-> "none", renderer |-> "none"]
Reasons == {"disabled", "no_depth_map", "renderer_failed", "renderer_exception"}

ASSUME ClipsKnown == IsFiniteSet(Clips) /\ MaxFilms \in Nat /\ MaxRemakes \in Nat

VARIABLES
  image, map,     \* the bytes of each clip's plate and depth map
  ladder, moves,  \* the pass's settings: its renderers, its trajectories
  clip, sidecar,  \* the files of each clip: what it was made of, what the sidecar says
  hand,           \* the clip in hand, and how far it is
  rungs,          \* the renderers left for it
  made,           \* a render that is not yet moved to its place
  source,         \* the MotionSource each clip is composed from
  tally,          \* renderer_counts
  films, remakes

motionVars == <<image, map, ladder, moves, clip, sidecar, hand, rungs, made, source, tally, films, remakes>>
plates == <<image, map>>
asked == <<ladder, moves>>

Unsourced == [renderer |-> "none", cached |-> FALSE, of |-> NoClip, reason |-> "none"]
NoTally == [c \in {"flow", "warp", "legacy", "cached"} \cup Reasons |-> 0]
AtRest == [at |-> "rest", of |-> "none"]

-----------------------------------------------------------------------------
\* build_provenance.
Provenance(c, renderer) ==
  [image |-> image[c], map |-> map[c], moves |-> moves, renderer |-> renderer]

\* verify_clip: the sidecar beside a clip says of it all that is asked.
\* Mutant: the renderer is not asked for.
HitOfAny(c, renderer) ==
  clip[c] # NoClip /\ [sidecar[c] EXCEPT !.renderer = renderer] = Provenance(c, renderer)
Hit(c, renderer) == clip[c] # NoClip /\ sidecar[c] = Provenance(c, renderer)

Backends == IF ladder = "flow" THEN <<"flow", "warp">> ELSE <<"warp">>

MotionInit ==
  /\ image = [c \in Clips |-> 0] /\ map = [c \in Clips |-> 1]
  /\ ladder = "uninjected" /\ moves = "none"
  /\ clip = [c \in Clips |-> NoClip] /\ sidecar = clip
  /\ hand = AtRest /\ rungs = <<>> /\ made = NoClip
  /\ source = [c \in Clips |-> Unsourced] /\ tally = NoTally
  /\ films = 0 /\ remakes = 0

Rests == hand = AtRest

\* The image stage draws the plate again, a depth map is computed or lost.
Remake ==
  /\ Rests /\ remakes < MaxRemakes
  /\ \E c \in Clips :
       \/ image' = [image EXCEPT ![c] = @ + 1] /\ UNCHANGED map
       \/ map' = [map EXCEPT ![c] = IF @ = NoMap THEN 1 ELSE NoMap] /\ UNCHANGED image
  /\ remakes' = remakes + 1
  /\ source' = [c \in Clips |-> Unsourced] /\ tally' = NoTally
  /\ UNCHANGED <<asked, clip, sidecar, hand, rungs, made, films>>

Roll ==
  /\ Rests /\ films < MaxFilms
  /\ ladder' \in Ladders /\ moves' \in Trajectories
  /\ source' = [c \in Clips |-> Unsourced] /\ tally' = NoTally
  /\ films' = films + 1
  /\ hand' = [at |-> "film", of |-> "none"]
  /\ UNCHANGED <<plates, clip, sidecar, rungs, made, remakes>>

Unserved == {c \in Clips : source[c] = Unsourced}
Wrap ==
  /\ hand.at = "film" /\ Unserved = {}
  /\ hand' = AtRest
  /\ UNCHANGED <<plates, asked, clip, sidecar, rungs, made, source, tally, films, remakes>>

-----------------------------------------------------------------------------
(* One clip.                                                                *)

Serves(c, from) ==
  /\ source' = [source EXCEPT ![c] = from]
  /\ hand' = [at |-> "film", of |-> "none"] /\ rungs' = <<>>

\* legacy: with no renderer injected it is no degradation.
Tallies(reason) ==
  LET flat == [tally EXCEPT !["legacy"] = @ + 1]
  IN IF reason = "none" THEN flat ELSE [flat EXCEPT ![reason] = @ + 1]
Legacy(c, reason) ==
  /\ Serves(c, [renderer |-> "legacy", cached |-> FALSE, of |-> NoClip, reason |-> reason])
  /\ tally' = Tallies(reason)

Served(c, renderer, cached, of) ==
  /\ Serves(c, [renderer |-> renderer, cached |-> cached, of |-> of, reason |-> "none"])
  /\ tally' = LET counted == [tally EXCEPT ![renderer] = @ + 1]
              IN IF cached THEN [counted EXCEPT !["cached"] = @ + 1] ELSE counted

\* A plate the trajectory or the map cannot be had for.
Flat ==
  /\ hand.at = "film"
  /\ \E c \in Unserved :
       \/ ladder = "uninjected" /\ Legacy(c, "none")
       \/ ladder = "off" /\ Legacy(c, "disabled")
       \/ ladder \in {"warp", "flow"} /\ map[c] = NoMap /\ Legacy(c, "no_depth_map")
  /\ UNCHANGED <<plates, asked, clip, sidecar, made, films, remakes>>

Climb ==
  /\ hand.at = "film" /\ ladder \in {"warp", "flow"}
  /\ \E c \in Unserved : map[c] # NoMap /\ hand' = [at |-> "rung", of |-> c]
  /\ rungs' = Backends
  /\ UNCHANGED <<plates, asked, clip, sidecar, made, source, tally, films, remakes>>

Rung == hand.at = "rung" /\ rungs # <<>>

\* The plate or the map goes as build_provenance reads it, or the disk is
\* full as the clip is promoted: build_motion_source catches what is raised.
Raised ==
  /\ Rung \/ hand.at \in {"move", "note"}
  /\ "raise" \in MotionFaults
  /\ Legacy(hand.of, "renderer_exception")
  /\ made' = NoClip
  /\ UNCHANGED <<plates, asked, clip, sidecar, films, remakes>>

Cached ==
  /\ Rung /\ Hit(hand.of, Head(rungs))
  /\ Served(hand.of, Head(rungs), TRUE, clip[hand.of])
  /\ UNCHANGED <<plates, asked, clip, sidecar, made, films, remakes>>

NextRung ==
  /\ Rung /\ ~Hit(hand.of, Head(rungs))
  /\ rungs' = Tail(rungs)
  /\ UNCHANGED <<plates, asked, clip, sidecar, hand, made, source, tally, films, remakes>>

\* The backend fails, or probe_clip refuses what it has made; that is removed.
RungFails == Rung /\ Head(rungs) \in MotionFaults /\ NextRung
ProbeRefuses == Rung /\ "probe" \in MotionFaults /\ NextRung

Exhausted ==
  /\ hand.at = "rung" /\ rungs = <<>>
  /\ Legacy(hand.of, "renderer_failed")
  /\ UNCHANGED <<plates, asked, clip, sidecar, made, films, remakes>>

\* A render the probe accepts is promoted in three writes: the sidecar goes,
\* the clip comes, the sidecar comes.
Render ==
  /\ Rung /\ ~Hit(hand.of, Head(rungs))
  /\ made' = Provenance(hand.of, Head(rungs))
  /\ sidecar' = [sidecar EXCEPT ![hand.of] = NoClip]
  /\ hand' = [hand EXCEPT !.at = "move"]
  /\ UNCHANGED <<plates, asked, clip, rungs, source, tally, films, remakes>>

MoveClip ==
  /\ hand.at = "move"
  /\ clip' = [clip EXCEPT ![hand.of] = made]
  /\ hand' = [hand EXCEPT !.at = "note"]
  /\ UNCHANGED <<plates, asked, sidecar, rungs, made, source, tally, films, remakes>>

NoteClip ==
  /\ hand.at = "note"
  /\ sidecar' = [sidecar EXCEPT ![hand.of] = made]
  /\ Served(hand.of, made.renderer, FALSE, clip[hand.of])
  /\ made' = NoClip
  /\ UNCHANGED <<plates, asked, clip, films, remakes>>

\* The process dies: what was rendered and not moved is litter.
Killed ==
  /\ ~Rests /\ "kill" \in MotionFaults
  /\ hand' = AtRest /\ rungs' = <<>> /\ made' = NoClip
  /\ source' = [c \in Clips |-> Unsourced] /\ tally' = NoTally
  /\ UNCHANGED <<plates, asked, clip, sidecar, films, remakes>>

MotionNext ==
  \/ Remake \/ Roll \/ Wrap
  \/ Flat \/ Climb \/ Raised \/ Cached \/ RungFails \/ ProbeRefuses \/ Exhausted
  \/ Render \/ MoveClip \/ NoteClip
  \/ Killed
MotionSpec == MotionInit /\ [][MotionNext]_motionVars
-----------------------------------------------------------------------------

(* What moves behind the cast is of this plate, this depth map and this     *)
(* trajectory, and of the renderer it is put down to, whatever clips and    *)
(* sidecars earlier passes left or died over.                               *)
ClipsAreOfTheirPlates ==
  \A c \in Clips : source[c].of # NoClip => source[c].of = Provenance(c, source[c].renderer)

(* What a pass that has every clip tells of its renderers is what it shows: *)
(* every clip counted once, and one that lost its movement counted with a   *)
(* reason unless 2.5D was never wired.                                      *)
Shown(renderer) == Cardinality({c \in Clips : source[c].renderer = renderer})
Fallen(reason) == Cardinality({c \in Clips : source[c].reason = reason})
TallyIsTrue == hand.at = "film" /\ Unserved = {} =>
  /\ \A renderer \in {"flow", "warp", "legacy"} : tally[renderer] = Shown(renderer)
  /\ \A reason \in Reasons : tally[reason] = Fallen(reason)
  /\ tally["cached"] = Cardinality({c \in Clips : source[c].cached})
  /\ \A c \in Clips : source[c].renderer = "legacy" /\ source[c].reason = "none" => ladder = "uninjected"

(* And a clip that is good for something is only ever replaced by one that  *)
(* was rendered and probed: no failure, and no death, loses it otherwise.   *)
Good(c) == clip[c] # NoClip /\ sidecar[c] = clip[c]
ClipsAreKept ==
  \A c \in Clips : Good(c) /\ ~Good(c)' => hand'.at = "move" /\ hand'.of = c /\ made' # sidecar[c]
MotionIsOfItsPlate == [][ClipsAreOfTheirPlates' /\ TallyIsTrue' /\ ClipsAreKept]_motionVars
=============================================================================
