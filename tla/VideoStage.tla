----------------------------- MODULE VideoStage -----------------------------
(* The figures of a video over its passes: the cast resolved to cards,     *)
(* shots drawn again with their cast in them (recompose_run_shots) or left  *)
(* to the overlay, what is recorded of a frame beside its plate, and what a *)
(* pass reports (video_node).  An image_path is rewritten in the state a    *)
(* pass was given and is saved when the pass returns, with or without error.*)
EXTENDS Integers, Sequences, FiniteSets

CONSTANTS
  Shots,      \* the number of shots
  Cast,       \* the keys each shot asks for
  Looks,      \* CARD_LOOKS: the keys the instruction can describe
  MaxRounds,  \* bound: passes of video_node and changes between them
  Changes,    \* which: "redo", "redraft", "graph", "off"
  MaxSamples, \* MAX_SAMPLE_RECORDS
  Faults      \* what may go wrong: "resolver", "card", "preflight", "render", "stamp", "ffmpeg", "crash"

Shot == 1 .. Shots
ASSUME CastKnown ==
  /\ Shots \in Nat \ {0} /\ Cast \in [Shot -> SUBSET STRING]
  /\ \A s \in Shot : IsFiniteSet(Cast[s])
ASSUME SamplesKnown == MaxSamples \in Nat \ {0}
ASSUME RoundsBounded == MaxRounds \in Nat

VARIABLES
  enabled,  \* shot_recompose_enabled
  graph,    \* which recompose workflow is on disk
  plate,    \* the bytes of each shot's plate
  place,    \* the placement of each shot's cast
  path,     \* image_path as the pass holds it: Plate, or a frame's digest
  saved,    \* image_path in the checkpoint
  frames,   \* recomposed/: [shot, digest, graph], by the graph that drew it
  block,    \* the recompose block in each shot's sidecar
  rows,     \* run_warnings in the checkpoint
  step, at, \* how far the pass is, and at which shot of the sweep
  cards,    \* the cards each shot's cast resolved to
  overlaid, \* the shots whose cards are still in the cast map
  found,    \* the pass's own warnings
  unsaid,   \* sidecar_failed
  retract,  \* retract_sidecar_rows
  rounds    \* passes and changes so far

files == <<plate, frames, block>>
settings == <<enabled, graph, place>>
pass == <<cards, overlaid, found, unsaid, retract>>
figuresVars == <<settings, files, path, saved, rows, step, at, pass, rounds>>

Plate == [plate |-> -1, cast |-> {}, place |-> -1]
NoGraph == -1
NoBlock == [digest |-> Plate, graph |-> NoGraph, cast |-> {}]

-----------------------------------------------------------------------------
\* recompose_digest: the plate, the cards and their placement.
Digest(s) == [plate |-> plate[s], cast |-> cards[s], place |-> place[s]]
Recomposed(s) == path[s] # Plate
Drawn(s, digest) == {frame \in frames : frame.shot = s /\ frame.digest = digest}
DrawnBy(s, digest) == (CHOOSE frame \in Drawn(s, digest) : TRUE).graph

\* _cast_warnings: a row for each member that no card was found for.
\* Mutant: only in the shots some card was found for.
CastRowsOfCarded(hits) ==
  UNION {{<<"missing", s, k>> : k \in Cast[s] \ hits[s]} : s \in {t \in Shot : hits[t] # {}}}
CastRows(hits) == UNION {{<<"missing", s, k>> : k \in Cast[s] \ hits[s]} : s \in Shot}

\* cap_samples: a few rows by name, and one row that counts.
Capped(code, new) ==
  LET named == {row \in new : row[1] = code}
  IN IF Cardinality(named) <= MaxSamples THEN named
     ELSE {<<code, 0>>} \cup CHOOSE few \in SUBSET named : Cardinality(few) = MaxSamples
Filed == UNION {Capped(code, found) : code \in {row[1] : row \in found}}

\* _retract_sidecar_rows, and the merge of what is left with the new rows.
Kept(kept) == {row \in kept : retract /\ row[1] = "unsaid" => row[2] \in unsaid}
Merged(kept) == Kept(kept) \cup Filed

\* _stamp_sidecar: a block of the frame that is there stays if this pass did
\* not draw it.
\* Mutant: any block stays.
KeepsAny(s, new, overwrite) == ~overwrite /\ block[s] # NoBlock
Keeps(s, new, overwrite) == ~overwrite /\ block[s] # NoBlock /\ block[s].digest = new.digest

-----------------------------------------------------------------------------
Nothing == [s \in Shot |-> {}]

FiguresInit ==
  /\ enabled = TRUE /\ graph = 0
  /\ plate = [s \in Shot |-> 0] /\ place = [s \in Shot |-> 0]
  /\ path = [s \in Shot |-> Plate] /\ saved = path
  /\ frames = {} /\ block = [s \in Shot |-> NoBlock] /\ rows = {}
  /\ step = "idle" /\ at = 1
  /\ cards = Nothing /\ overlaid = {} /\ found = {} /\ unsaid = {} /\ retract = FALSE
  /\ rounds = 0

Idle == step \in {"idle", "shipped"}

\* A pass keeps nothing of its own.
Over == at' = 1 /\ cards' = Nothing /\ overlaid' = {} /\ found' = {} /\ unsaid' = {} /\ retract' = FALSE

(* Between two passes.                                                      *)

\* retry_stage of the image: the plates and sidecars are made anew, not the
\* frames, and a seed may draw the same plate again.
Redo ==
  /\ Idle /\ "redo" \in Changes /\ rounds < MaxRounds
  /\ \E fresh \in {0, 1} : plate' = [s \in Shot |-> plate[s] + fresh]
  /\ block' = [s \in Shot |-> NoBlock]
  /\ path' = [s \in Shot |-> Plate] /\ saved' = path'
  /\ step' = "idle" /\ rounds' = rounds + 1 /\ Over
  /\ UNCHANGED <<settings, frames, rows>>

\* retry_stage of the scenario: another placement, over plates that are kept.
Redraft ==
  /\ Idle /\ "redraft" \in Changes /\ rounds < MaxRounds
  /\ \E s \in Shot : place' = [place EXCEPT ![s] = 1 - @]
  /\ path' = [s \in Shot |-> Plate] /\ saved' = path'
  /\ step' = "idle" /\ rounds' = rounds + 1 /\ Over
  /\ UNCHANGED <<enabled, graph, files, rows>>

NewGraph ==
  /\ Idle /\ "graph" \in Changes /\ rounds < MaxRounds
  /\ graph' = graph + 1
  /\ step' = "idle" /\ rounds' = rounds + 1 /\ Over
  /\ UNCHANGED <<enabled, place, files, path, saved, rows>>

SwitchOff ==
  /\ Idle /\ "off" \in Changes /\ rounds < MaxRounds /\ enabled
  /\ enabled' = FALSE
  /\ step' = "idle" /\ rounds' = rounds + 1 /\ Over
  /\ UNCHANGED <<graph, place, files, path, saved, rows>>

-----------------------------------------------------------------------------
(* A pass.                                                                  *)

Begin ==
  /\ Idle /\ rounds < MaxRounds
  /\ step' = "begun" /\ rounds' = rounds + 1 /\ Over
  /\ UNCHANGED <<settings, files, path, saved, rows>>

Resolve ==
  /\ step = "begun"
  /\ \E hits \in [Shot -> SUBSET UNION {Cast[s] : s \in Shot}] :
       /\ \A s \in Shot : hits[s] \subseteq Cast[s] /\ ("card" \in Faults \/ hits[s] = Cast[s])
       /\ cards' = hits
       /\ overlaid' = {s \in Shot : hits[s] # {}}
       /\ found' = CastRows(hits)
  /\ step' = "resolved"
  /\ UNCHANGED <<settings, files, path, saved, rows, at, unsaid, retract, rounds>>

ResolverRaises ==
  /\ step = "begun" /\ "resolver" \in Faults
  /\ found' = {<<"unresolved">>} \cup CastRows(Nothing)
  /\ step' = "resolved"
  /\ UNCHANGED <<settings, files, path, saved, rows, at, cards, overlaid, unsaid, retract, rounds>>

\* Recompose is off, or there is no card at all.
NoSweep ==
  /\ step = "resolved" /\ (~enabled \/ overlaid = {})
  /\ step' = "compose"
  /\ UNCHANGED <<settings, files, path, saved, rows, at, pass, rounds>>

\* The preflight refuses: the cast map stays as it was.
Refused ==
  /\ step = "resolved" /\ enabled /\ overlaid # {} /\ "preflight" \in Faults
  /\ found' = found \cup {<<"preflight">>}
  /\ retract' = TRUE
  /\ step' = "compose"
  /\ UNCHANGED <<settings, files, path, saved, rows, at, cards, overlaid, unsaid, rounds>>

\* The resolver of the recomposition raises.
RecomposeRaises ==
  /\ step = "resolved" /\ enabled /\ overlaid # {} /\ "preflight" \in Faults
  /\ found' = found \cup {<<"preflight">>}
  /\ step' = "compose"
  /\ UNCHANGED <<settings, files, path, saved, rows, at, cards, overlaid, unsaid, retract, rounds>>

StartSweep ==
  /\ step = "resolved" /\ enabled /\ overlaid # {}
  /\ step' = "sweep"
  /\ UNCHANGED <<settings, files, path, saved, rows, at, pass, rounds>>

-----------------------------------------------------------------------------
(* One shot of the sweep.                                                   *)

Sweeping == step = "sweep" /\ at \in Shot
Uncast == Sweeping /\ cards[at] = {}
Unfit(s) == ~(cards[s] \subseteq Looks)

PassBy ==
  /\ Uncast
  /\ at' = at + 1
  /\ UNCHANGED <<settings, files, path, saved, rows, step, pass, rounds>>

\* Skipped or failed: the shot keeps its cards.
Degrade ==
  /\ Sweeping /\ cards[at] # {}
  /\ \/ Unfit(at)
     \/ ~Unfit(at) /\ ~Recomposed(at) /\ "render" \in Faults
  /\ found' = found \cup {<<"degraded">>}
  /\ at' = at + 1
  /\ UNCHANGED <<settings, files, path, saved, rows, step, cards, overlaid, unsaid, retract, rounds>>

Fit == Sweeping /\ cards[at] # {} /\ ~Unfit(at)

\* The frame is drawn and written; what follows it is another write.
Draw ==
  /\ Fit /\ ~Recomposed(at) /\ Drawn(at, Digest(at)) = {}
  /\ frames' = frames \cup {[shot |-> at, digest |-> Digest(at), graph |-> graph]}
  /\ step' = "stamp"
  /\ UNCHANGED <<settings, plate, block, path, saved, rows, at, pass, rounds>>

\* stamp, and what the loop does after it.
\* Mutant: the shot keeps its cards.
TookBeside(s, frame, recorded) ==
  /\ path' = [path EXCEPT ![s] = frame]
  /\ unsaid' = IF recorded THEN unsaid ELSE unsaid \cup {s}
  /\ found' = IF recorded THEN found ELSE found \cup {<<"unsaid", s>>}
  /\ UNCHANGED overlaid
Took(s, frame, recorded) ==
  /\ path' = [path EXCEPT ![s] = frame]
  /\ overlaid' = overlaid \ {s}
  /\ unsaid' = IF recorded THEN unsaid ELSE unsaid \cup {s}
  /\ found' = IF recorded THEN found ELSE found \cup {<<"unsaid", s>>}

Stamp(s, new, overwrite) ==
  \/ /\ block' = IF Keeps(s, new, overwrite) THEN block ELSE [block EXCEPT ![s] = new]
     /\ Took(s, new.digest, TRUE)
  \/ /\ "stamp" \in Faults
     /\ UNCHANGED block
     /\ Took(s, new.digest, FALSE)

\* A frame of this pass.
StampDrawn ==
  /\ step = "stamp"
  /\ Stamp(at, [digest |-> Digest(at), graph |-> graph, cast |-> Digest(at).cast], TRUE)
  /\ step' = "sweep" /\ at' = at + 1
  /\ UNCHANGED <<settings, plate, frames, saved, rows, cards, retract, rounds>>

\* A frame of an earlier pass over the same plate and placement: which graph
\* drew it is not known.
FromCache ==
  /\ Fit /\ ~Recomposed(at) /\ Drawn(at, Digest(at)) # {}
  /\ Stamp(at, [digest |-> Digest(at), graph |-> NoGraph, cast |-> Digest(at).cast], FALSE)
  /\ at' = at + 1
  /\ UNCHANGED <<settings, plate, frames, saved, rows, step, cards, retract, rounds>>

\* Re-entry: the plate is a frame with the cast in it already.
Reenter ==
  /\ Fit /\ Recomposed(at)
  /\ Stamp(at, [digest |-> path[at], graph |-> NoGraph, cast |-> {}], FALSE)
  /\ at' = at + 1
  /\ UNCHANGED <<settings, plate, frames, saved, rows, step, cards, retract, rounds>>

EndSweep ==
  /\ step = "sweep" /\ at = Shots + 1
  /\ retract' = TRUE
  /\ step' = "compose"
  /\ UNCHANGED <<settings, files, path, saved, rows, at, cards, overlaid, found, unsaid, rounds>>

-----------------------------------------------------------------------------
Ship ==
  /\ step = "compose"
  /\ rows' = Merged(rows)
  /\ saved' = path
  /\ step' = "shipped"
  /\ UNCHANGED <<settings, files, path, at, pass, rounds>>

\* An opaque card, an asset that is not there, ffmpeg: the pass returns its
\* error and its warnings, and the state it was given is the state it rewrote.
Fail ==
  /\ step \in {"resolved", "compose"} /\ "ffmpeg" \in Faults
  /\ rows' = Merged(rows)
  /\ saved' = path
  /\ step' = "idle" /\ Over
  /\ UNCHANGED <<settings, files, path, rounds>>

Crash ==
  /\ ~Idle /\ "crash" \in Faults
  /\ path' = saved
  /\ step' = "idle" /\ Over
  /\ UNCHANGED <<settings, files, saved, rows, rounds>>

FiguresNext ==
  \/ Redo \/ Redraft \/ NewGraph \/ SwitchOff
  \/ Begin \/ Resolve \/ ResolverRaises
  \/ NoSweep \/ Refused \/ RecomposeRaises \/ StartSweep
  \/ PassBy \/ Degrade \/ Draw \/ StampDrawn \/ FromCache \/ Reenter \/ EndSweep
  \/ Ship \/ Fail \/ Crash
FiguresSpec == FiguresInit /\ [][FiguresNext]_figuresVars
-----------------------------------------------------------------------------

InFrame(s) == IF Recomposed(s) THEN path[s].cast ELSE {}
InOverlay(s) == IF s \in overlaid THEN cards[s] ELSE {}
Shipped == step = "shipped"
SweptHere(s) == cards[s] # {} /\ s \notin overlaid

(* Whoever the script put into a shot and is not to be seen in it is in a  *)
(* row of the run's warnings, through retries, redos and frames that were   *)
(* drawn by a pass before.                                                  *)
AbsenceIsTold ==
  Shipped => \A s \in Shot : \A k \in Cast[s] :
    \/ k \in InFrame(s) \cup InOverlay(s)
    \/ rows \cap {<<"missing", s, k>>, <<"missing", 0>>, <<"unresolved">>} # {}

(* A card is laid over a frame that has its figure in it only when the pass *)
(* left the frames of an earlier one alone: recompose was switched off or   *)
(* refused, or the shot has since been given a card nobody can describe.    *)
TwiceOnlyIfLeftAlone ==
  Shipped => \A s \in Shot :
    InFrame(s) \cap InOverlay(s) # {} =>
      ~enabled \/ <<"preflight">> \in found \/ ~(cards[s] \subseteq Looks)

(* Everybody the script names is seen once, or a row says why not. *)
SeenOnceOrTold == AbsenceIsTold /\ TwiceOnlyIfLeftAlone

(* What is recorded of a frame is true, or said to be missing.  A block     *)
(* names a graph only if that graph drew the frame it describes, and the    *)
(* cast it names is the frame's; a shot this pass took has the block of the *)
(* frame that is shipped or is in a row, and after a sweep no row is left   *)
(* of a frame that is described.                                            *)
BlocksAreTrue ==
  \A s \in Shot : block[s] # NoBlock =>
    /\ block[s].graph # NoGraph => \E frame \in Drawn(s, block[s].digest) : frame.graph = block[s].graph
    /\ block[s].cast \in {{}, block[s].digest.cast}
LostAttributionIsTold ==
  Shipped => \A s \in Shot : SweptHere(s) /\ Recomposed(s) =>
    /\ block[s].digest # path[s] => rows \cap {<<"unsaid", s>>, <<"unsaid", 0>>} # {}
    /\ <<"unsaid", s>> \in rows => s \in unsaid
    /\ s \notin unsaid => block[s].digest = path[s]
AttributionIsTrue == BlocksAreTrue /\ LostAttributionIsTold
=============================================================================
