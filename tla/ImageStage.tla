------------------------------ MODULE ImageStage ------------------------------
(***************************************************************************)
(* The image stage of one run: image_node's loop over the shots, the       *)
(* png/sidecar pairs it leaves on disk as its own resume cache, the two    *)
(* vision verdicts it asks for (is somebody in the background, can the     *)
(* cast stand there) with their breakers, and ComfyUI going away.          *)
(*                                                                         *)
(* A pass is one execution of the node.  It may be cut by a crash or end   *)
(* in an error, and the next pass finds the disk as it was left; a redo of *)
(* the stage and a new scenario happen between passes.  Settings are read  *)
(* once per pass, so the operator may change them between two.             *)
(*                                                                         *)
(* Every await is a step boundary, and so is every write to the disk: the  *)
(* process may die between them.  Definitions marked "Mutant" are slips a  *)
(* change to the code could make; no action uses them.                     *)
(***************************************************************************)
EXTENDS Naturals, FiniteSets

CONSTANTS
  N,             \* number of shots, in the order the loop visits them
  Prompts,       \* the prompts a draft of the scenario may give a shot
  CastShots,     \* the shots the scenario gives a cast
  PlateShots,    \* the shots whose location_key has approved stock plates
  PlateRooms,    \* standing_room of the plates that pass every other filter
  MaxAttempts,   \* BACKGROUND_PERSON_GUARD_MAX_ATTEMPTS, 4 in the program
  BreakerStreak, \* BACKGROUND_PERSON_GUARD_BREAKER_STREAK, 3
  BreakerTotal,  \* BACKGROUND_PERSON_GUARD_BREAKER_TOTAL, 6
  PollEvery,     \* comfyui_health_poll_every_n_shots, 20
  Passes,        \* bound: how often the node is run
  Configs,       \* the settings a pass may read
  Faults         \* of "crash", "comfy", "disk", "redraft", "redo", "undeleted", "plates"

ASSUME ShotsAssumption == N \in Nat
ASSUME ShotSetsAssumption == CastShots \subseteq 1 .. N /\ PlateShots \subseteq 1 .. N
ASSUME PromptsAssumption == "none" \notin Prompts
ASSUME BoundsAssumption ==
  /\ MaxAttempts \in Nat /\ Passes \in Nat
  /\ BreakerStreak \in Nat \ {0} /\ BreakerTotal \in Nat \ {0} /\ PollEvery \in Nat \ {0}

Shots == 1 .. N
Settings == [attempts: 0 .. MaxAttempts, key: BOOLEAN, gate: BOOLEAN, plates: BOOLEAN]
ASSUME ConfigsAssumption == Configs \subseteq Settings
ASSUME RoomsAssumption == PlateRooms \subseteq {"yes", "no", "null"}

\* The detectors: a verdict, or None ("unknown").
PersonVerdict == {"clear", "populated", "unknown"}
RoomVerdict == {"yes", "no", "unknown"}

VARIABLES
  shots,    \* the checkpoint's scenes: each shot's prompt, and whether it has a cast
  rows,     \* the checkpoint's run_warnings: <<finding, shot>>, 0 for the whole run
  png,      \* the image files, with what this stage found out about each
  side,     \* the sidecars
  passes,   \* how often the node was started
  cfg,      \* Settings of the pass
  pc, shot, rung,   \* where the pass is: its current shot, and rung of the seed ladder
  flags,    \* what the sidecar of the current shot will say
  guard, room,      \* the two breakers
  looked, since,    \* health_checked, requests_since_health_check
  found,    \* the pass's warnings
  dropped,  \* shots the pass returns without their cast
  blind,    \* requests submitted since ComfyUI last answered a health check
  done      \* the last pass returned its scenes

vars == <<shots, rows, png, side, passes, cfg, pc, shot, rung, flags, guard, room,
          looked, since, found, dropped, blind, done>>

Frame ==
  [prompt: Prompts \cup {"none"},
   guard: PersonVerdict \cup {"unasked", "unwanted", "plate"},
   room: RoomVerdict \cup {"null", "unasked", "unwanted", "empty"}]

\* What is known of a frame no verdict was asked for: whether one was wanted.
Unasked(wanted) == IF wanted THEN "unasked" ELSE "unwanted"
NoFrame == [prompt |-> "none", guard |-> "unasked", room |-> "unasked"]

Flags ==
  [exhausted: BOOLEAN, undecidable: BOOLEAN, roomless: BOOLEAN, unjudged: BOOLEAN,
   plate: {"none", "yes", "no", "null"}]
NoFlags ==
  [exhausted |-> FALSE, undecidable |-> FALSE, roomless |-> FALSE, unjudged |-> FALSE,
   plate |-> "none"]

Sidecar == [prompt: Prompts \cup {"none"}, rung: 0 .. MaxAttempts, flags: Flags]
NoSidecar == [prompt |-> "none", rung |-> 0, flags |-> NoFlags]

Breaker == [off: BOOLEAN, streak: Nat, total: Nat]
Armed(on) == [off |-> ~on, streak |-> 0, total |-> 0]

Findings == {"background", "roomless", "unjudged", "plate"}
Pcs == {"idle", "shot", "look", "poll", "recover", "submit", "again", "resubmit",
        "judge", "room", "side"}

-----------------------------------------------------------------------------
(* The resume cache and the stock plates. *)

\* Mutant: the accepted rungs follow the knob of the current pass.
AcceptedRungsOfPass == 0 .. cfg.attempts

\* _seed_ladder: every rung a pass with any setting may have accepted.
AcceptedRungs == 0 .. MaxAttempts

\* Mutant: the prompt the image was made for is not compared.
CompleteWhateverPrompt(s) ==
  png[s] # NoFrame /\ side[s] # NoSidecar /\ side[s].rung \in AcceptedRungs

\* _existing_complete_shot
Complete(s) ==
  /\ png[s] # NoFrame
  /\ side[s].prompt = shots[s].prompt
  /\ side[s].rung \in AcceptedRungs

HasCast(s) == shots[s].cast

\* _select_plate, by the one verdict its callers depend on.
FittingPlates(s) ==
  {p \in PlateRooms : cfg.plates /\ s \in PlateShots /\ (cfg.gate /\ HasCast(s) => p = "yes")}

\* One answer of a detector, and the breaker it may trip.
Answered(b, undecidable) ==
  IF undecidable
  THEN [b EXCEPT !.streak = @ + 1, !.total = @ + 1,
                 !.off = b.streak + 1 >= BreakerStreak \/ b.total + 1 >= BreakerTotal]
  ELSE [b EXCEPT !.streak = 0]

Row(b, finding, s) == IF b THEN {<<finding, s>>} ELSE {}

-----------------------------------------------------------------------------
disk == <<png, side>>
checkpoint == <<shots, rows>>
tallies == <<guard, room, looked, since, blind>>

TypeOK ==
  /\ shots \in [Shots -> [prompt: Prompts, cast: BOOLEAN]]
  /\ rows \subseteq Findings \X (0 .. N)
  /\ png \in [Shots -> Frame] /\ side \in [Shots -> Sidecar]
  /\ passes \in 0 .. Passes /\ cfg \in Settings
  /\ pc \in Pcs /\ shot \in 1 .. N + 1 /\ rung \in 0 .. MaxAttempts
  /\ pc \notin {"idle", "shot"} => shot \in Shots
  /\ flags \in Flags /\ guard \in Breaker /\ room \in Breaker
  /\ looked \in BOOLEAN /\ since \in Nat /\ blind \in Nat
  /\ found \subseteq Findings \X (0 .. N) /\ dropped \subseteq Shots
  /\ done \in BOOLEAN

NoConfig == [attempts |-> 0, key |-> FALSE, gate |-> FALSE, plates |-> FALSE]

Init ==
  /\ shots \in [Shots -> [prompt: Prompts, cast: BOOLEAN]]
  /\ \A s \in Shots : shots[s].cast = (s \in CastShots)
  /\ rows = {} /\ passes = 0 /\ cfg = NoConfig
  /\ png = [s \in Shots |-> NoFrame] /\ side = [s \in Shots |-> NoSidecar]
  /\ pc = "idle" /\ shot = 1 /\ rung = 0 /\ flags = NoFlags
  /\ guard = Armed(FALSE) /\ room = Armed(FALSE)
  /\ looked = FALSE /\ since = 0 /\ blind = 0
  /\ found = {} /\ dropped = {} /\ done = FALSE

\* The pass is over: its locals go.
Leave ==
  /\ pc' = "idle" /\ shot' = 1 /\ rung' = 0 /\ flags' = NoFlags
  /\ guard' = Armed(FALSE) /\ room' = Armed(FALSE)
  /\ looked' = FALSE /\ since' = 0 /\ blind' = 0
  /\ found' = {} /\ dropped' = {}

-----------------------------------------------------------------------------
(* Between passes. *)

\* image_node is entered: run-level facts are warned of once.
Begin(c) ==
  /\ pc = "idle" /\ ~done /\ passes < Passes
  /\ passes' = passes + 1 /\ cfg' = c
  /\ pc' = "shot"
  /\ guard' = Armed(c.attempts >= 1 /\ c.key)
  /\ room' = Armed(c.gate /\ c.key)
  /\ found' = Row(c.attempts >= 1 /\ ~c.key, "background", 0)
                \cup Row(c.gate /\ ~c.key, "unjudged", 0)
  /\ UNCHANGED <<disk, checkpoint, shot, rung, flags, looked, since, blind, dropped, done>>

\* The operator rejects or retries the stage: the files of every shot go,
\* png first, and a file that cannot be unlinked is left behind.
Redo(pngs, sides) ==
  /\ pc = "idle" /\ "redo" \in Faults
  /\ pngs \cup sides # {} => "undeleted" \in Faults
  /\ png' = [s \in Shots |-> IF s \in pngs THEN png[s] ELSE NoFrame]
  /\ side' = [s \in Shots |-> IF s \in sides \cup pngs THEN side[s] ELSE NoSidecar]
  /\ done' = FALSE
  /\ UNCHANGED <<checkpoint, passes, cfg, pc, shot, rung, flags, tallies, found, dropped>>

\* A retried or edited scenario: its shots are new, the files are not touched.
Redraft(drafted) ==
  /\ pc = "idle" /\ "redraft" \in Faults
  /\ shots' = [s \in Shots |-> [prompt |-> drafted[s], cast |-> s \in CastShots]]
  /\ done' = FALSE
  /\ UNCHANGED <<rows, disk, passes, cfg, pc, shot, rung, flags, tallies, found, dropped>>

-----------------------------------------------------------------------------
(* One shot. *)

\* The emptied cast is applied again from disk, while the gate is up.
ResumedDrop(s) == HasCast(s) /\ cfg.gate /\ side[s].flags.roomless

\* Mutant: a cached frame is taken for a verified one.
ResumedRowsNone(s) == {}

\* The rows a shot found complete on disk files again.
ResumedRows(s) ==
  LET f == side[s].flags
  IN Row(f.exhausted \/ f.undecidable, "background", s)
       \cup Row(ResumedDrop(s), "roomless", s)
       \cup Row(HasCast(s) /\ ~ResumedDrop(s) /\ f.plate \in {"none", "null"} /\ f.unjudged,
                "unjudged", s)

\* A shot an earlier pass completed is taken from disk, with its findings.
Resume ==
  /\ pc = "shot" /\ shot <= N /\ Complete(shot)
  /\ found' = found \cup ResumedRows(shot)
  /\ dropped' = IF ResumedDrop(shot) THEN dropped \cup {shot} ELSE dropped
  /\ shot' = shot + 1
  /\ UNCHANGED <<disk, checkpoint, passes, cfg, pc, rung, flags, tallies, done>>

\* A plate is copied; its sidecar follows.
CopyPlate(p) ==
  /\ pc = "shot" /\ shot <= N /\ ~Complete(shot)
  /\ p \in FittingPlates(shot)
  /\ png' = [png EXCEPT ![shot] = [prompt |-> shots[shot].prompt, guard |-> "plate",
                                   room |-> IF HasCast(shot) THEN p ELSE "empty"]]
  /\ flags' = [NoFlags EXCEPT !.plate = p,
                              !.unjudged = HasCast(shot) /\ p = "null" /\ cfg.gate]
  /\ rung' = 0 /\ pc' = "side"
  /\ UNCHANGED <<side, checkpoint, passes, cfg, shot, tallies, found, dropped, done>>

\* Mutant: a poll needs a round number of requests, which a shot of several
\* steps over.
PollDueOnMultiples == since > 0 /\ since % PollEvery = 0

StartFlags == NoFlags
PollDue == since >= PollEvery

\* No plate serves the shot: its ladder starts, after a look at ComfyUI when
\* one is due.
StartLadder ==
  /\ found' = found \cup Row(cfg.plates /\ shot \in PlateShots, "plate", shot)
  /\ flags' = StartFlags /\ rung' = 0
  /\ pc' = IF ~looked THEN "look" ELSE IF PollDue THEN "poll" ELSE "submit"
  /\ since' = IF looked /\ PollDue THEN 0 ELSE since
  /\ UNCHANGED <<checkpoint, passes, cfg, shot, guard, room, looked, blind, dropped, done>>

Generate ==
  /\ pc = "shot" /\ shot <= N /\ ~Complete(shot)
  /\ FittingPlates(shot) = {} \/ "plates" \in Faults
  /\ StartLadder /\ UNCHANGED disk

-----------------------------------------------------------------------------
(* ComfyUI. *)

\* The node's error path: the warnings are merged, the scenes are not returned.
Fail ==
  /\ rows' = rows \cup found
  /\ Leave
  /\ UNCHANGED <<shots, passes, cfg, done>>

\* The first check of a pass fails fast.
LookUp ==
  /\ pc = "look"
  /\ looked' = TRUE /\ since' = 0 /\ blind' = 0 /\ pc' = "submit"
  /\ UNCHANGED <<disk, checkpoint, passes, cfg, shot, rung, flags, guard, room, found, dropped, done>>
LookDown == pc = "look" /\ "comfy" \in Faults /\ Fail /\ UNCHANGED disk

\* A later check that fails is waited out.
Poll(up) ==
  /\ pc = "poll"
  /\ up \/ "comfy" \in Faults
  /\ pc' = IF up THEN "submit" ELSE "recover"
  /\ blind' = IF up THEN 0 ELSE blind
  /\ UNCHANGED <<disk, checkpoint, passes, cfg, shot, rung, flags, guard, room, looked, since,
                 found, dropped, done>>

\* Mutant: a request is repeated for as long as ComfyUI comes back.
AfterRecoveryAgain == "submit"
AfterRecovery == IF pc = "recover" THEN "submit" ELSE "resubmit"

\* _wait_for_comfyui_recovery: it answers again, or the time is up.
Recovered ==
  /\ pc \in {"recover", "again"}
  /\ blind' = 0 /\ pc' = AfterRecovery
  /\ UNCHANGED <<disk, checkpoint, passes, cfg, shot, rung, flags, guard, room, looked, since,
                 found, dropped, done>>
GivenUp == pc \in {"recover", "again"} /\ Fail /\ UNCHANGED disk

\* submit_and_fetch, then once more after a recovery.
Submit(up) ==
  /\ pc = "submit"
  /\ up \/ "comfy" \in Faults
  /\ blind' = blind + 1
  /\ since' = IF up THEN since + 1 ELSE since
  /\ pc' = IF up THEN "judge" ELSE "again"
  /\ UNCHANGED <<disk, checkpoint, passes, cfg, shot, rung, flags, guard, room, looked, found,
                 dropped, done>>
Resubmit ==
  /\ pc = "resubmit"
  /\ blind' = blind + 1 /\ since' = since + 1 /\ pc' = "judge"
  /\ UNCHANGED <<disk, checkpoint, passes, cfg, shot, rung, flags, guard, room, looked, found,
                 dropped, done>>
ResubmitFails == pc = "resubmit" /\ "comfy" \in Faults /\ Fail /\ UNCHANGED disk

-----------------------------------------------------------------------------
(* The verdicts. *)

RungLeft == rung < cfg.attempts

\* Mutant: nobody is told that the breaker tripped.
TripRowNone(before, after, finding) == {}
TripRow(before, after, finding) == Row(~before.off /\ after.off, finding, 0)

\* _populated says somebody is there, and a rung is left: render again.
Regenerate ==
  /\ pc = "judge" /\ ~guard.off /\ RungLeft
  /\ guard' = Answered(guard, FALSE)
  /\ rung' = rung + 1 /\ pc' = "submit"
  /\ UNCHANGED <<disk, checkpoint, passes, cfg, shot, flags, room, looked, since, found,
                 dropped, blind, done>>

\* The render the ladder settles on is written; the last rung is kept even
\* when populated.
Settle(v) ==
  /\ pc = "judge"
  /\ IF guard.off THEN v = Unasked(cfg.attempts >= 1)
     ELSE v \in PersonVerdict /\ (v = "populated" => ~RungLeft)
  /\ guard' = IF guard.off THEN guard ELSE Answered(guard, v = "unknown")
  /\ png' = [png EXCEPT ![shot] = [prompt |-> shots[shot].prompt, guard |-> v,
                                   room |-> IF HasCast(shot) THEN "unasked" ELSE "empty"]]
  /\ flags' = [flags EXCEPT !.exhausted = v = "populated", !.undecidable = @ \/ v = "unknown"]
  /\ found' = found \cup Row(v \in {"populated", "unknown"}, "background", shot)
                    \cup TripRow(guard, guard', "background")
  /\ pc' = IF HasCast(shot) THEN "room" ELSE "side"
  /\ UNCHANGED <<side, checkpoint, passes, cfg, shot, rung, room, looked, since, dropped,
                 blind, done>>

NoRoom(v) == v = "no"
Unjudged(v) == v \in {"unknown", "unasked"}

\* _no_standing_room, asked of the frame just written: only a plain "no"
\* takes the cast away.
JudgeRoom(v) ==
  /\ pc = "room"
  /\ IF room.off THEN v = Unasked(cfg.gate) ELSE v \in RoomVerdict
  /\ room' = IF room.off THEN room ELSE Answered(room, v = "unknown")
  /\ png' = [png EXCEPT ![shot].room = v]
  /\ flags' = [flags EXCEPT !.roomless = NoRoom(v), !.unjudged = Unjudged(v)]
  /\ dropped' = IF NoRoom(v) THEN dropped \cup {shot} ELSE dropped
  /\ found' = found \cup Row(NoRoom(v), "roomless", shot)
                    \cup Row(v = "unknown", "unjudged", shot)
                    \cup TripRow(room, room', "unjudged")
  /\ pc' = "side"
  /\ UNCHANGED <<side, checkpoint, passes, cfg, shot, rung, guard, looked, since, blind, done>>

\* _write_sidecar, the completion sentinel.
WriteSidecar ==
  /\ pc = "side"
  /\ side' = [side EXCEPT ![shot] = [prompt |-> shots[shot].prompt, rung |-> rung, flags |-> flags]]
  /\ shot' = shot + 1 /\ pc' = "shot"
  /\ UNCHANGED <<png, checkpoint, passes, cfg, rung, flags, tallies, found, dropped, done>>

\* It cannot be written: the old one stays or is cut to nothing.  A copied
\* plate then falls back to the ladder; otherwise the stage fails.
SidecarFails(cut) ==
  /\ pc = "side" /\ "disk" \in Faults
  /\ side' = IF cut THEN [side EXCEPT ![shot] = NoSidecar] ELSE side
  /\ png' = png
  /\ IF flags.plate = "none" THEN Fail ELSE StartLadder

\* The node returns its scenes and its warnings.
Return ==
  /\ pc = "shot" /\ shot > N
  /\ rows' = rows \cup found
  /\ shots' = [s \in Shots |-> [shots[s] EXCEPT !.cast = @ /\ s \notin dropped]]
  /\ Leave /\ done' = TRUE
  /\ UNCHANGED <<disk, passes, cfg>>

\* The process dies: the pass's warnings and its verdict on the casts go.
Crash ==
  /\ pc # "idle" /\ "crash" \in Faults
  /\ Leave
  /\ UNCHANGED <<disk, checkpoint, passes, cfg, done>>

-----------------------------------------------------------------------------
Step ==
  \/ Resume \/ Generate \/ (\E p \in PlateRooms : CopyPlate(p))
  \/ LookUp \/ LookDown \/ Recovered \/ GivenUp \/ Resubmit \/ ResubmitFails
  \/ \E up \in BOOLEAN : Poll(up) \/ Submit(up)
  \/ Regenerate
  \/ \E v \in PersonVerdict \cup {"unasked", "unwanted"} : Settle(v)
  \/ \E v \in RoomVerdict \cup {"unasked", "unwanted"} : JudgeRoom(v)
  \/ WriteSidecar \/ Return
  \/ \E cut \in BOOLEAN : SidecarFails(cut)

Next ==
  \/ \E c \in Configs : Begin(c)
  \/ \E pngs, sides \in SUBSET Shots : Redo(pngs, sides)
  \/ \E drafted \in [Shots -> Prompts] : Redraft(drafted)
  \/ Step
  \/ Crash

Spec == Init /\ [][Next]_vars

\* Every outside call of a pass has a timeout, so a pass always takes its
\* next step; nothing is assumed of the operator or of crashes.
FairSpec == Spec /\ WF_vars(Step)

-----------------------------------------------------------------------------
(* What a finished stage owes its reviewer. *)

\* A pair that would be taken as complete is: its sidecar was written for the
\* image beside it, and says of it what the detectors said.
CompleteMeansCompleted ==
  pc = "idle" => \A s \in Shots : Complete(s) =>
    /\ png[s].prompt = side[s].prompt
    /\ side[s].flags.exhausted = (png[s].guard = "populated")
    /\ side[s].flags.undecidable = (png[s].guard = "unknown")
    /\ (side[s].flags.plate = "none") = (png[s].guard # "plate")
    /\ png[s].guard # "plate" => side[s].flags.roomless = (png[s].room = "no")

\* With the gate up, no cast stands on a render the detector found no room in,
\* whichever pass asked.  (A plate of no room served while the gate was down
\* keeps its cast: the code counts it as judged.)
NoRoomNoCast ==
  done /\ cfg.gate =>
    \A s \in Shots : HasCast(s) /\ png[s].guard # "plate" => png[s].room # "no"

\* A background the detector saw somebody in, or could not judge, is named to
\* the operator when the stage is done, through however many crashes, errors
\* and resumes the frame came; and so is a cast that stands on a frame nobody
\* judged, although the gate was up when it was written, by name or for the run.
DefectsAreReported ==
  /\ NoRoomNoCast
  /\ done => \A s \in Shots :
    /\ png[s].guard \in {"populated", "unknown"} => <<"background", s>> \in rows
    /\ HasCast(s) /\ png[s].room \in {"unknown", "unasked"}
         => rows \cap {<<"unjudged", s>>, <<"unjudged", 0>>} # {}

\* When the stage is done, every shot's frame was made for the prompt the
\* current scenario gives it, whatever earlier drafts left on disk; and a frame
\* nobody screened although the guard was wanted is reported, by name or for
\* the whole run.
FramesFitTheDraft ==
  done => \A s \in Shots :
    /\ png[s].prompt = shots[s].prompt
    /\ png[s].guard = "unasked" => rows \cap {<<"background", s>>, <<"background", 0>>} # {}

\* What a dead service costs a pass is bounded: a ComfyUI nobody has seen alive
\* gets no more requests than a shot's ladder past the poll interval, a detector
\* that cannot answer costs BreakerTotal timeouts.
OutagesAreBounded ==
  /\ pc # "idle" => blind <= PollEvery + cfg.attempts
  /\ guard.total <= BreakerTotal /\ room.total <= BreakerTotal

\* A pass never renders again what an earlier pass completed, whatever knob
\* either of them ran with; and what it will take for completed is: its sidecar
\* says of the image beside it what the detectors said, however a pass stopped.
CompletedIsKept ==
  [][/\ CompleteMeansCompleted'
     /\ pc # "idle" => \A s \in Shots :
          png[s] # NoFrame /\ side[s].prompt = shots[s].prompt
            => png'[s] = png[s] /\ side'[s] = side[s]]_vars

\* Every pass ends.
PassEnds == (pc # "idle") ~> (pc = "idle")
=============================================================================
