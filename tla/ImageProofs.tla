----------------------------- MODULE ImageProofs -----------------------------
(***************************************************************************)
(* Theorems about ImageStage, for every number of shots, passes, settings  *)
(* and rungs: what is left on disk is truthful, what is wrong with a frame *)
(* is reported, frames are of their draft, and outages are bounded.        *)
(***************************************************************************)
EXTENDS ImageStage, TLAPS

\* Where a stale sidecar may vouch for a newer image.  Either nothing leaves
\* one beside a shot that is drawn again, or nothing stops the pass between
\* an image and its sidecar.
NoStaleSidecar == Faults \cap {"redraft", "undeleted"} = {}
NothingBetween == Faults \cap {"crash", "disk"} = {}
Sound == NoStaleSidecar \/ NothingBetween

Drawing == {"look", "poll", "recover", "submit", "again", "resubmit", "judge"}
Written == {"room", "side"}
Frames == 0 .. N

-----------------------------------------------------------------------------
(* What is on disk. *)

\* The flags t say of the frame f what the detectors said.
Says(t, f) ==
  /\ t.exhausted <=> f.guard = "populated"
  /\ t.undecidable <=> f.guard = "unknown"
  /\ t.plate = "none" <=> f.guard # "plate"
  /\ f.guard # "plate" =>
       /\ t.roomless <=> f.room = "no"
       /\ t.unjudged <=> f.room \in {"unknown", "unasked"}
  /\ f.guard = "plate" => f.room \notin {"unknown", "unasked"}

Whole(s) ==
  png[s] # NoFrame /\ side[s] # NoSidecar =>
    png[s].prompt = side[s].prompt /\ Says(side[s].flags, png[s])

\* A pair is whole, but for the one between its image and its sidecar.
PairsHold == \A s \in Shots : Whole(s) \/ (s = shot /\ pc \in Written)

\* The locals of the pass speak of the frame in hand.
InHand ==
  /\ pc \in Drawing => flags = NoFlags
  /\ pc \in Written => png[shot].prompt = shots[shot].prompt
  /\ pc = "room" =>
       /\ HasCast(shot) /\ png[shot].guard # "plate" /\ png[shot].room = "unasked"
       /\ flags.plate = "none" /\ ~flags.roomless /\ ~flags.unjudged
       /\ flags.exhausted <=> png[shot].guard = "populated"
       /\ flags.undecidable <=> png[shot].guard = "unknown"
  /\ pc = "side" => Says(flags, png[shot])

\* Where sidecars come from, as far as the faults leave it so.
SidecarsHold ==
  /\ "undeleted" \notin Faults =>
       /\ \A s \in Shots : side[s] # NoSidecar => png[s] # NoFrame
       /\ pc \notin {"idle", "shot"} => side[shot].prompt # shots[shot].prompt
  /\ "redraft" \notin Faults =>
       \A s \in Shots : side[s] # NoSidecar => side[s].prompt = shots[s].prompt

\* Nothing of a pass is left when it is over.
Over == (done => pc = "idle") /\ (pc = "idle" => found = {} /\ dropped = {} /\ shot = 1)

DiskInv == TypeOK /\ Over /\ PairsHold /\ InHand /\ SidecarsHold

-----------------------------------------------------------------------------
(* What has been reported, of the frame of s. *)

BackgroundTold(s, said) ==
  png[s].guard \in {"populated", "unknown"} => <<"background", s>> \in said
Told(s, said) ==
  /\ png[s].prompt = shots[s].prompt
  /\ BackgroundTold(s, said)
  /\ HasCast(s) /\ s \notin dropped /\ png[s].room \in {"unknown", "unasked"} =>
       said \cap {<<"unjudged", s>>, <<"unjudged", 0>>} # {}
  /\ cfg.gate /\ HasCast(s) /\ png[s].guard # "plate" /\ png[s].room = "no" => s \in dropped

ShotsTold ==
  /\ pc # "idle" => \A s \in Shots : s < shot => Told(s, rows \cup found)
  /\ pc \in Written => BackgroundTold(shot, rows \cup found)
  /\ pc = "side" => Told(shot, rows \cup found)
  /\ done => \A s \in Shots : Told(s, rows)
  /\ pc # "idle" /\ cfg.gate /\ room.off => <<"unjudged", 0>> \in found

\* When no pass is cut, a breaker that is off has been reported, and with it
\* every frame that was written since.
UnaskedTold ==
  "crash" \notin Faults =>
    /\ pc # "idle" /\ cfg.attempts >= 1 /\ guard.off => <<"background", 0>> \in found
    /\ \A s \in Shots : png[s] # NoFrame /\ png[s].guard = "unasked" =>
         <<"background", 0>> \in rows \cup found

ReportInv == ShotsTold /\ UnaskedTold

-----------------------------------------------------------------------------
(* What an outage has cost. *)

BreakerHolds(b) == b.total <= BreakerTotal /\ (~b.off => b.total < BreakerTotal)
OutageInv ==
  /\ TypeOK
  /\ BreakerHolds(guard) /\ BreakerHolds(room)
  /\ pc # "idle" => rung <= cfg.attempts /\ blind <= PollEvery + cfg.attempts
  /\ ~looked => since = 0 /\ blind = 0
  /\ pc = "idle" => ~looked /\ rung = 0
  /\ pc \in Drawing \ {"look"} => looked
  /\ pc \in {"shot", "judge", "room", "side"} => blind <= since /\ since <= PollEvery + cfg.attempts
  /\ pc = "judge" => since <= PollEvery + rung
  /\ pc = "submit" => blind <= since /\ since < PollEvery + rung
  /\ pc = "again" => blind <= since + 1 /\ since < PollEvery + rung
  /\ pc = "resubmit" => blind = 0 /\ since < PollEvery + rung
  /\ pc \in {"look", "poll", "recover"} => since = 0 /\ rung = 0

-----------------------------------------------------------------------------
(* Types.                                                                   *)

LEMMA ShotFacts ==
  /\ N \in Nat /\ Shots \subseteq Nat /\ "none" \notin Prompts
  /\ NoFrame \in Frame /\ NoSidecar \in Sidecar /\ NoFlags \in Flags /\ NoConfig \in Settings
  /\ NoFrame.prompt = "none" /\ NoSidecar.prompt = "none" /\ 1 \in 1 .. N + 1
  /\ \A on \in BOOLEAN : Armed(on) \in Breaker
<1>1. N \in Nat /\ "none" \notin Prompts /\ MaxAttempts \in Nat
  BY ShotsAssumption, PromptsAssumption, BoundsAssumption
<1>2. NoFrame \in Frame /\ NoFlags \in Flags
  BY DEF NoFrame, Frame, NoFlags, Flags
<1>3. NoSidecar \in Sidecar /\ NoConfig \in Settings
  BY <1>1, <1>2 DEF NoSidecar, Sidecar, NoConfig, Settings
<1>4. \A on \in BOOLEAN : Armed(on) \in Breaker
  BY DEF Armed, Breaker
<1> QED  BY <1>1, <1>2, <1>3, <1>4 DEF Shots, NoFrame, NoSidecar

LEMMA AnsweredType ==
  ASSUME NEW b \in Breaker, NEW u \in BOOLEAN PROVE Answered(b, u) \in Breaker
<1> DEFINE trips == b.streak + 1 >= BreakerStreak \/ b.total + 1 >= BreakerTotal
<1>1. trips \in BOOLEAN /\ b.streak \in Nat /\ b.total \in Nat /\ b.off \in BOOLEAN
  BY DEF Breaker
<1>2. CASE u
  <2>1. Answered(b, u) = [off |-> trips, streak |-> b.streak + 1, total |-> b.total + 1]
    BY <1>2 DEF Answered, Breaker
  <2> HIDE DEF trips
  <2> QED  BY <1>1, <2>1 DEF Breaker
<1>3. CASE ~u
  <2>1. Answered(b, u) = [off |-> b.off, streak |-> 0, total |-> b.total]
    BY <1>3 DEF Answered, Breaker
  <2> QED  BY <1>1, <2>1 DEF Breaker
<1> QED  BY <1>2, <1>3

LEMMA RowType ==
  ASSUME NEW b \in BOOLEAN, NEW finding \in Findings, NEW s \in 0 .. N
  PROVE  Row(b, finding, s) \subseteq Findings \X (0 .. N)
  BY DEF Row

LEMMA TypeBegin == Init => TypeOK
<1> SUFFICES ASSUME Init PROVE TypeOK
  OBVIOUS
<1>1. /\ png \in [Shots -> Frame] /\ side \in [Shots -> Sidecar] /\ flags \in Flags
      /\ cfg \in Settings /\ guard \in Breaker /\ room \in Breaker
  BY ShotFacts DEF Init
<1>2. /\ passes \in 0 .. Passes /\ rung \in 0 .. MaxAttempts /\ shot \in 1 .. N + 1
  BY ShotFacts, BoundsAssumption DEF Init
<1> QED  BY <1>1, <1>2 DEF Init, TypeOK, Pcs

\* What ends a pass.
LEMMA LeaveType ==
  ASSUME Leave
  PROVE  /\ pc' = "idle" /\ shot' \in 1 .. N + 1 /\ rung' \in 0 .. MaxAttempts /\ flags' \in Flags
         /\ guard' \in Breaker /\ room' \in Breaker /\ looked' \in BOOLEAN
         /\ since' \in Nat /\ blind' \in Nat
         /\ found' \subseteq Findings \X (0 .. N) /\ dropped' \subseteq Shots
<1>1. Armed(FALSE) \in Breaker
  BY ShotFacts
<1>2. guard' \in Breaker /\ room' \in Breaker
  BY <1>1 DEF Leave
<1>3. flags' \in Flags /\ shot' \in 1 .. N + 1 /\ rung' \in 0 .. MaxAttempts
  BY ShotFacts, BoundsAssumption DEF Leave
<1> QED  BY <1>2, <1>3 DEF Leave

\* The steps that only talk to ComfyUI, or ask for another render.
Talks ==
  \/ LookUp \/ Recovered \/ Resubmit \/ Regenerate
  \/ \E up \in BOOLEAN : Poll(up) \/ Submit(up)

LEMMA TalksType == TypeOK /\ Talks => TypeOK'
<1> SUFFICES ASSUME TypeOK, Talks PROVE TypeOK'
  OBVIOUS
<1> USE BoundsAssumption, ConfigsAssumption DEF TypeOK, disk, checkpoint, tallies
<1>1. CASE LookUp
  BY <1>1 DEF LookUp, Pcs
<1>2. CASE Recovered
  BY <1>2 DEF Recovered, AfterRecovery, Pcs
<1>3. CASE Resubmit
  BY <1>3 DEF Resubmit, Pcs
<1>4. CASE Regenerate
  <2>1. guard' \in Breaker
    BY <1>4, AnsweredType DEF Regenerate
  <2>2. rung' \in 0 .. MaxAttempts
    BY <1>4 DEF Regenerate, RungLeft, Settings
  <2> QED  BY <1>4, <2>1, <2>2 DEF Regenerate, Pcs
<1>5. ASSUME NEW up \in BOOLEAN, Poll(up) \/ Submit(up) PROVE TypeOK'
  BY <1>5 DEF Poll, Submit, Pcs
<1> QED  BY <1>1, <1>2, <1>3, <1>4, <1>5 DEF Talks

\* The steps that end a pass without its scenes.
Stops == LookDown \/ GivenUp \/ ResubmitFails

LEMMA FailType == TypeOK /\ Fail /\ UNCHANGED png /\ side' \in [Shots -> Sidecar] => TypeOK'
<1> SUFFICES ASSUME TypeOK, Fail, UNCHANGED png, side' \in [Shots -> Sidecar] PROVE TypeOK'
  OBVIOUS
<1>1. Leave /\ rows' = rows \cup found /\ UNCHANGED <<shots, passes, cfg, done>>
  BY DEF Fail
<1> QED  BY <1>1, LeaveType DEF TypeOK, Pcs

LEMMA LadderType ==
  TypeOK /\ StartLadder /\ shot \in Shots /\ UNCHANGED png /\ side' \in [Shots -> Sidecar] => TypeOK'
<1> SUFFICES ASSUME TypeOK, StartLadder, shot \in Shots, UNCHANGED png,
                    side' \in [Shots -> Sidecar] PROVE TypeOK'
  OBVIOUS
<1>1. found' \subseteq Findings \X (0 .. N)
  <2>1. "plate" \in Findings /\ shot \in 0 .. N /\ (cfg.plates /\ shot \in PlateShots) \in BOOLEAN
    BY ShotFacts DEF Findings, Shots, TypeOK, Settings
  <2> QED  BY <2>1, RowType DEF StartLadder, TypeOK
<1> QED
  BY <1>1, ShotFacts, BoundsAssumption
  DEF TypeOK, StartLadder, StartFlags, NoFlags, Pcs, checkpoint

LEMMA WritesType ==
  ASSUME TypeOK, NEW p \in PlateRooms, CopyPlate(p) PROVE TypeOK'
<1>1. shot \in Shots /\ p \in {"yes", "no", "null"}
  BY RoomsAssumption DEF TypeOK, CopyPlate, Shots
<1>2. png' \in [Shots -> Frame]
  <2> DEFINE f == [prompt |-> shots[shot].prompt, guard |-> "plate",
                   room |-> IF HasCast(shot) THEN p ELSE "empty"]
  <2>1. f \in Frame
    BY <1>1 DEF TypeOK, Frame, RoomVerdict
  <2> HIDE DEF f
  <2>2. png' = [png EXCEPT ![shot] = f]
    BY DEF CopyPlate, f
  <2> QED  BY <1>1, <2>1, <2>2 DEF TypeOK
<1>3. flags' \in Flags
  BY <1>1 DEF CopyPlate, NoFlags, Flags, TypeOK, Settings, HasCast
<1> QED  BY <1>1, <1>2, <1>3, BoundsAssumption DEF TypeOK, CopyPlate, Pcs, checkpoint, tallies

LEMMA SettleType ==
  ASSUME TypeOK, NEW v \in PersonVerdict \cup {"unasked", "unwanted"}, Settle(v)
  PROVE  TypeOK'
<1>1. shot \in Shots
  BY DEF TypeOK, Settle
<1>2. png' \in [Shots -> Frame]
  <2> DEFINE f == [prompt |-> shots[shot].prompt, guard |-> v,
                   room |-> IF HasCast(shot) THEN "unasked" ELSE "empty"]
  <2>1. f \in Frame
    BY <1>1 DEF TypeOK, Frame
  <2> HIDE DEF f
  <2>2. png' = [png EXCEPT ![shot] = f]
    BY DEF Settle, f
  <2> QED  BY <1>1, <2>1, <2>2 DEF TypeOK
<1>3. flags' \in Flags
  BY DEF Settle, Flags, TypeOK
<1>4. guard' \in Breaker
  BY AnsweredType DEF Settle, TypeOK
<1>5. found' \subseteq Findings \X (0 .. N)
  <2>1. "background" \in Findings /\ shot \in 0 .. N /\ 0 \in 0 .. N
    BY <1>1, ShotFacts DEF Findings, Shots
  <2>2. TripRow(guard, guard', "background") \subseteq Findings \X (0 .. N)
    BY <1>4, <2>1, RowType DEF TripRow, TypeOK, Breaker
  <2>3. Row(v \in {"populated", "unknown"}, "background", shot) \subseteq Findings \X (0 .. N)
    <3> DEFINE a == v \in {"populated", "unknown"}
    <3>1. a \in BOOLEAN
      OBVIOUS
    <3> HIDE DEF a
    <3>2. Row(a, "background", shot) \subseteq Findings \X (0 .. N)
      BY <2>1, <3>1, RowType
    <3> QED  BY <3>2 DEF a
  <2>4. found' = found \cup Row(v \in {"populated", "unknown"}, "background", shot)
                      \cup TripRow(guard, guard', "background")
    BY DEF Settle
  <2> QED  BY <2>2, <2>3, <2>4 DEF TypeOK
<1> QED  BY <1>1, <1>2, <1>3, <1>4, <1>5 DEF TypeOK, Settle, Pcs, checkpoint

LEMMA RoomType ==
  ASSUME TypeOK, NEW v \in RoomVerdict \cup {"unasked", "unwanted"}, JudgeRoom(v)
  PROVE  TypeOK'
<1>1. shot \in Shots
  BY DEF TypeOK, JudgeRoom
<1>2. png' \in [Shots -> Frame]
  BY <1>1 DEF JudgeRoom, TypeOK, Frame
<1>3. flags' \in Flags
  <2> DEFINE a == NoRoom(v)
             b == Unjudged(v)
  <2>1. a \in BOOLEAN /\ b \in BOOLEAN
    BY DEF NoRoom, Unjudged
  <2>2. flags' = [flags EXCEPT !.roomless = a, !.unjudged = b]
    BY DEF JudgeRoom
  <2> HIDE DEF a, b
  <2> QED  BY <2>1, <2>2 DEF Flags, TypeOK
<1>4. room' \in Breaker
  BY AnsweredType DEF JudgeRoom, TypeOK
<1>5. found' \subseteq Findings \X (0 .. N)
  <2>1. {"roomless", "unjudged"} \subseteq Findings /\ shot \in 0 .. N /\ 0 \in 0 .. N
    BY <1>1, ShotFacts DEF Findings, Shots
  <2>2. TripRow(room, room', "unjudged") \subseteq Findings \X (0 .. N)
    BY <1>4, <2>1, RowType DEF TripRow, TypeOK, Breaker
  <2>3. Row(NoRoom(v), "roomless", shot) \subseteq Findings \X (0 .. N)
    BY <2>1, RowType DEF NoRoom
  <2>4. Row(v = "unknown", "unjudged", shot) \subseteq Findings \X (0 .. N)
    BY <2>1, RowType
  <2> QED  BY <2>2, <2>3, <2>4 DEF JudgeRoom, TypeOK
<1>6. dropped' \subseteq Shots
  BY <1>1 DEF JudgeRoom, TypeOK
<1> QED  BY <1>1, <1>2, <1>3, <1>4, <1>5, <1>6 DEF TypeOK, JudgeRoom, Pcs, checkpoint

LEMMA PassType ==
  ASSUME TypeOK, \/ \E c \in Configs : Begin(c)
                 \/ \E pngs, sides \in SUBSET Shots : Redo(pngs, sides)
                 \/ \E drafted \in [Shots -> Prompts] : Redraft(drafted)
                 \/ Crash \/ Return
  PROVE  TypeOK'
<1>1. ASSUME NEW c \in Configs, Begin(c) PROVE TypeOK'
  <2>1. c \in Settings
    BY ConfigsAssumption
  <2>2. guard' \in Breaker /\ room' \in Breaker
    BY <1>1, <2>1, ShotFacts DEF Begin, Settings
  <2>3. found' \subseteq Findings \X (0 .. N)
    <3>1. {"background", "unjudged"} \subseteq Findings /\ 0 \in 0 .. N
      BY ShotFacts DEF Findings
    <3>2. /\ Row(c.attempts >= 1 /\ ~c.key, "background", 0) \subseteq Findings \X (0 .. N)
          /\ Row(c.gate /\ ~c.key, "unjudged", 0) \subseteq Findings \X (0 .. N)
      BY <3>1, RowType
    <3> QED  BY <1>1, <3>2 DEF Begin
  <2> QED
    BY <1>1, <2>1, <2>2, <2>3, BoundsAssumption DEF TypeOK, Begin, Pcs, disk, checkpoint
<1>2. ASSUME NEW pngs \in SUBSET Shots, NEW sides \in SUBSET Shots, Redo(pngs, sides) PROVE TypeOK'
  BY <1>2, ShotFacts DEF TypeOK, Redo, checkpoint, tallies
<1>3. ASSUME NEW drafted \in [Shots -> Prompts], Redraft(drafted) PROVE TypeOK'
  <2>1. shots' \in [Shots -> [prompt: Prompts, cast: BOOLEAN]]
    <3>1. \A s \in Shots : [prompt |-> drafted[s], cast |-> s \in CastShots]
                            \in [prompt: Prompts, cast: BOOLEAN]
      OBVIOUS
    <3> QED  BY <1>3, <3>1 DEF Redraft
  <2> QED  BY <1>3, <2>1 DEF TypeOK, Redraft, disk, tallies
<1>4. CASE Crash
  BY <1>4, LeaveType DEF TypeOK, Crash, Pcs, disk, checkpoint
<1>5. CASE Return
  <2>1. shots' \in [Shots -> [prompt: Prompts, cast: BOOLEAN]]
    BY <1>5 DEF TypeOK, Return
  <2> QED  BY <1>5, <2>1, LeaveType DEF TypeOK, Return, Pcs, disk
<1> QED  BY <1>1, <1>2, <1>3, <1>4, <1>5

LEMMA ResumeType == TypeOK /\ Resume => TypeOK'
<1> SUFFICES ASSUME TypeOK, Resume PROVE TypeOK'
  OBVIOUS
<1>1. shot \in Shots /\ shot + 1 \in 1 .. N + 1 /\ N \in Nat
  BY ShotFacts DEF TypeOK, Resume, Shots
<1>2. dropped' \subseteq Shots
  BY <1>1 DEF Resume, TypeOK
<1>3. found' \subseteq Findings \X (0 .. N)
  <2>1. {"background", "roomless", "unjudged"} \subseteq Findings /\ shot \in 0 .. N
    BY <1>1 DEF Findings, Shots
  <2> DEFINE f == side[shot].flags
             a == f.exhausted \/ f.undecidable
             b == ResumedDrop(shot)
             c == HasCast(shot) /\ ~ResumedDrop(shot) /\ f.plate \in {"none", "null"} /\ f.unjudged
  <2>2. /\ Row(a, "background", shot) \subseteq Findings \X (0 .. N)
        /\ Row(b, "roomless", shot) \subseteq Findings \X (0 .. N)
        /\ Row(c, "unjudged", shot) \subseteq Findings \X (0 .. N)
    <3>1. a \in BOOLEAN /\ b \in BOOLEAN /\ c \in BOOLEAN
      BY DEF ResumedDrop
    <3> HIDE DEF a, b, c
    <3> QED  BY <2>1, <3>1, RowType
  <2>3. found' = found \cup (Row(a, "background", shot) \cup Row(b, "roomless", shot)
                               \cup Row(c, "unjudged", shot))
    BY DEF Resume, ResumedRows
  <2> QED  BY <2>2, <2>3 DEF TypeOK
<1> QED  BY <1>1, <1>2, <1>3 DEF TypeOK, Resume, disk, checkpoint, tallies

LEMMA SidecarType ==
  ASSUME TypeOK, WriteSidecar \/ \E cut \in BOOLEAN : SidecarFails(cut) PROVE TypeOK'
<1>0. shot \in Shots /\ N \in Nat
  BY ShotFacts DEF TypeOK, WriteSidecar, SidecarFails
<1>1. CASE WriteSidecar
  <2> DEFINE c == [prompt |-> shots[shot].prompt, rung |-> rung, flags |-> flags]
  <2>1. c \in Sidecar
    BY <1>0 DEF TypeOK, Sidecar
  <2> HIDE DEF c
  <2>2. side' = [side EXCEPT ![shot] = c]
    BY <1>1 DEF WriteSidecar, c
  <2>3. shot' \in 1 .. N + 1
    BY <1>0, <1>1 DEF WriteSidecar, Shots
  <2> QED  BY <1>0, <1>1, <2>1, <2>2, <2>3 DEF TypeOK, WriteSidecar, Pcs, checkpoint, tallies
<1>2. ASSUME NEW cut \in BOOLEAN, SidecarFails(cut) PROVE TypeOK'
  <2>1. side' \in [Shots -> Sidecar] /\ UNCHANGED png
    BY <1>0, <1>2, ShotFacts DEF TypeOK, SidecarFails
  <2> QED  BY <1>0, <1>2, <2>1, FailType, LadderType DEF SidecarFails
<1> QED  BY <1>1, <1>2

LEMMA TypeStep == TypeOK /\ [Next]_vars => TypeOK'
<1> SUFFICES ASSUME TypeOK, [Next]_vars PROVE TypeOK'
  OBVIOUS
<1>1. CASE Talks
  BY <1>1, TalksType
<1>2. CASE Stops
  <2>1. Fail /\ UNCHANGED png /\ side' \in [Shots -> Sidecar]
    BY <1>2 DEF Stops, LookDown, GivenUp, ResubmitFails, disk, TypeOK
  <2> QED  BY <2>1, FailType
<1>3. CASE Generate
  <2>1. shot \in Shots /\ UNCHANGED png /\ side' \in [Shots -> Sidecar]
    BY <1>3, ShotFacts DEF Generate, disk, TypeOK, Shots
  <2> QED  BY <1>3, <2>1, LadderType DEF Generate
<1>4. CASE Resume
  BY <1>4, ResumeType
<1>5. CASE \E p \in PlateRooms : CopyPlate(p)
  BY <1>5, WritesType
<1>6. CASE \E v \in PersonVerdict \cup {"unasked", "unwanted"} : Settle(v)
  BY <1>6, SettleType
<1>7. CASE \E v \in RoomVerdict \cup {"unasked", "unwanted"} : JudgeRoom(v)
  BY <1>7, RoomType
<1>8. CASE WriteSidecar \/ \E cut \in BOOLEAN : SidecarFails(cut)
  BY <1>8, SidecarType
<1>9. CASE UNCHANGED vars
  BY <1>9 DEF vars, TypeOK
<1> QED
  BY <1>1, <1>2, <1>3, <1>4, <1>5, <1>6, <1>7, <1>8, <1>9, PassType DEF Next, Step, Talks, Stops

-----------------------------------------------------------------------------
(* What is on disk, step by step.                                           *)

DiskHolds == Over /\ PairsHold /\ InHand /\ SidecarsHold

LEMMA DiskBegin == Init => DiskInv
<1> SUFFICES ASSUME Init PROVE DiskInv
  OBVIOUS
<1>1. TypeOK
  BY TypeBegin
<1>2. DiskHolds
  BY DEF Init, DiskHolds, Over, PairsHold, Whole, InHand, SidecarsHold, Drawing, Written
<1> QED  BY <1>1, <1>2 DEF DiskInv, DiskHolds

\* A frame of the prompt of its shot is a frame.
LEMMA FrameIsThere ==
  ASSUME TypeOK, NEW s \in Shots
  PROVE  /\ png[s].prompt = shots[s].prompt => png[s] # NoFrame
         /\ side[s].prompt = shots[s].prompt => side[s] # NoSidecar
  BY ShotFacts DEF TypeOK

\* A shot that is drawn has no sidecar of its prompt.
LEMMA DrawnHasNone ==
  ASSUME DiskInv, "undeleted" \notin Faults, NEW s \in Shots, ~Complete(s)
  PROVE  side[s].prompt # shots[s].prompt
<1>1. side[s].rung \in AcceptedRungs
  BY DEF DiskInv, TypeOK, Sidecar, AcceptedRungs
<1>2. CASE png[s] = NoFrame
  BY <1>2, FrameIsThere DEF DiskInv, SidecarsHold
<1> QED  BY <1>1, <1>2 DEF Complete

\* Where the faults leave no stale sidecar, the shot in hand has none at all.
LEMMA InHandHasNone ==
  ASSUME DiskInv, Sound, ~NothingBetween, pc \notin {"idle", "shot"}
  PROVE  side[shot] = NoSidecar /\ shot \in Shots
  BY DEF DiskInv, SidecarsHold, Sound, NoStaleSidecar, TypeOK

\* A step that leaves the disk alone.
LEMMA DiskKept ==
  ASSUME DiskInv, UNCHANGED <<png, side>>, pc \in Written => pc' \in Written /\ shot' = shot,
         \A s \in Shots : shots'[s].prompt = shots[s].prompt,
         pc' \in {"idle", "shot"} \/ (pc \notin {"idle", "shot"} /\ shot' = shot),
         Over', InHand'
  PROVE  DiskHolds'
<1>1. PairsHold'
  BY DEF DiskInv, PairsHold, Whole, Written
<1>2. SidecarsHold'
  BY DEF DiskInv, SidecarsHold, TypeOK
<1> QED  BY <1>1, <1>2 DEF DiskHolds

LEMMA TalksKept ==
  Talks => /\ pc \in Drawing /\ pc' \in Drawing
           /\ UNCHANGED <<png, side, shots, rows, cfg, shot, flags, room, found, dropped, done>>
           /\ guard'.off => guard.off
<1> SUFFICES ASSUME Talks
             PROVE  /\ pc \in Drawing /\ pc' \in Drawing
                    /\ UNCHANGED <<png, side, shots, rows, cfg, shot, flags, room, found, dropped, done>>
                    /\ guard'.off => guard.off
  OBVIOUS
<1> USE DEF Drawing, disk, checkpoint
<1>1. CASE LookUp \/ Recovered \/ Resubmit
  BY <1>1 DEF LookUp, Recovered, Resubmit, AfterRecovery
<1>2. CASE Regenerate
  <2>1. ~guard'.off
    BY <1>2 DEF Regenerate, Answered
  <2> QED  BY <1>2, <2>1 DEF Regenerate
<1>3. CASE \E up \in BOOLEAN : Poll(up) \/ Submit(up)
  BY <1>3 DEF Poll, Submit
<1> QED  BY <1>1, <1>2, <1>3 DEF Talks

LEMMA StopsKept ==
  Stops => pc \in Drawing /\ Fail /\ UNCHANGED <<png, side>>
  BY DEF Stops, LookDown, GivenUp, ResubmitFails, Drawing, disk

LEMMA TalksDisk == DiskInv /\ Talks => DiskHolds'
<1> SUFFICES ASSUME DiskInv, Talks PROVE DiskHolds'
  OBVIOUS
<1>1. /\ pc \in Drawing /\ pc' \in Drawing
      /\ UNCHANGED <<png, side, shots, shot, flags, found, dropped, done>>
  BY TalksKept
<1>2. Over' /\ InHand'
  BY <1>1 DEF DiskInv, Over, InHand, Drawing, Written
<1> QED  BY <1>1, <1>2, DiskKept DEF Drawing, Written

\* The end of a pass, at a point where nothing is between.
LEMMA LeaveDisk ==
  ASSUME DiskInv, Leave, UNCHANGED <<png, side>>, pc \notin Written, done' => pc' = "idle",
         \A s \in Shots : shots'[s].prompt = shots[s].prompt
  PROVE  DiskHolds'
<1>1. Over' /\ InHand'
  BY DEF Leave, Over, InHand, Drawing, Written
<1> QED  BY <1>1, DiskKept DEF Leave

LEMMA CrashDisk == DiskInv /\ Sound /\ Crash => DiskHolds'
<1> SUFFICES ASSUME DiskInv, Sound, Crash PROVE DiskHolds'
  OBVIOUS
<1>1. CASE pc \notin Written
  BY <1>1, LeaveDisk DEF Crash, disk, checkpoint, Leave
<1>2. CASE pc \in Written
  <2>1. side[shot] = NoSidecar
    BY <1>2, InHandHasNone DEF NothingBetween, Crash, Written
  <2>2. /\ UNCHANGED <<png, side, shots, done>> /\ pc' = "idle"
        /\ found' = {} /\ dropped' = {} /\ shot' = 1
    BY DEF Crash, disk, checkpoint, Leave
  <2>3. PairsHold'
    BY <2>1, <2>2 DEF DiskInv, PairsHold, Whole
  <2>4. SidecarsHold' /\ Over' /\ InHand'
    BY <2>2 DEF DiskInv, SidecarsHold, Over, InHand, Drawing, Written
  <2> QED  BY <2>3, <2>4 DEF DiskHolds
<1> QED  BY <1>1, <1>2

LEMMA ReturnDisk == DiskInv /\ Return => DiskHolds'
<1> SUFFICES ASSUME DiskInv, Return PROVE DiskHolds'
  OBVIOUS
<1>1. \A s \in Shots : shots'[s].prompt = shots[s].prompt
  BY DEF Return, DiskInv, TypeOK
<1> QED  BY <1>1, LeaveDisk DEF Return, disk, Leave, Written

LEMMA BeginDisk == DiskInv /\ (\E c \in Configs : Begin(c)) => DiskHolds'
<1> SUFFICES ASSUME DiskInv, NEW c \in Configs, Begin(c) PROVE DiskHolds'
  OBVIOUS
<1>1. /\ UNCHANGED <<png, side, shots, done>> /\ ~done /\ pc = "idle" /\ pc' = "shot"
  BY DEF Begin, disk, checkpoint
<1>2. Over' /\ InHand'
  BY <1>1 DEF Over, InHand, Drawing, Written
<1> QED  BY <1>1, <1>2, DiskKept DEF Written

LEMMA ResumeDisk == DiskInv /\ Resume => DiskHolds'
<1> SUFFICES ASSUME DiskInv, Resume PROVE DiskHolds'
  OBVIOUS
<1>1. UNCHANGED <<png, side, shots, done, pc>> /\ pc = "shot"
  BY DEF Resume, disk, checkpoint
<1>2. Over' /\ InHand'
  BY <1>1 DEF DiskInv, Over, InHand, Drawing, Written
<1> QED  BY <1>1, <1>2, DiskKept DEF Written

LEMMA RedoDisk ==
  ASSUME DiskInv, NEW pngs \in SUBSET Shots, NEW sides \in SUBSET Shots, Redo(pngs, sides)
  PROVE  DiskHolds'
<1>1. /\ \A s \in Shots : png'[s] = IF s \in pngs THEN png[s] ELSE NoFrame
      /\ \A s \in Shots : side'[s] = IF s \in sides \cup pngs THEN side[s] ELSE NoSidecar
      /\ pngs \cup sides # {} => "undeleted" \in Faults
      /\ pc = "idle" /\ ~done' /\ UNCHANGED <<shots, pc, shot, found, dropped>>
  BY DEF Redo, checkpoint
<1>2. PairsHold'
  BY <1>1 DEF DiskInv, PairsHold, Whole, Written
<1>3. SidecarsHold'
  BY <1>1 DEF DiskInv, SidecarsHold
<1>4. Over' /\ InHand'
  BY <1>1 DEF DiskInv, Over, InHand, Drawing, Written
<1> QED  BY <1>2, <1>3, <1>4 DEF DiskHolds

LEMMA RedraftDisk ==
  ASSUME DiskInv, NEW drafted \in [Shots -> Prompts], Redraft(drafted)
  PROVE  DiskHolds'
<1>1. /\ pc = "idle" /\ ~done' /\ "redraft" \in Faults
      /\ UNCHANGED <<png, side, pc, shot, found, dropped>>
  BY DEF Redraft, disk
<1>2. PairsHold' /\ SidecarsHold'
  BY <1>1 DEF DiskInv, PairsHold, Whole, Written, SidecarsHold
<1>3. Over' /\ InHand'
  BY <1>1 DEF DiskInv, Over, InHand, Drawing, Written
<1> QED  BY <1>2, <1>3 DEF DiskHolds

\* A ladder starts, for a shot that has no sidecar of its prompt.
LEMMA LadderDisk ==
  ASSUME DiskInv, StartLadder, pc # "idle", UNCHANGED png, \A s \in Shots : Whole(s)',
         \A s \in Shots : side'[s] = side[s] \/ side'[s] = NoSidecar,
         "undeleted" \notin Faults => side'[shot].prompt # shots[shot].prompt
  PROVE  DiskHolds'
<1>1. UNCHANGED <<png, shots, shot, done>> /\ pc' \in Drawing /\ flags' = NoFlags /\ ~done
  BY DEF StartLadder, StartFlags, Drawing, checkpoint, DiskInv, Over
<1>2. Over' /\ InHand'
  BY <1>1 DEF Over, InHand, Drawing, Written
<1>3. PairsHold'
  BY DEF PairsHold
<1>4. SidecarsHold'
  BY <1>1 DEF SidecarsHold, DiskInv
<1> QED  BY <1>2, <1>3, <1>4 DEF DiskHolds

LEMMA GenerateDisk == DiskInv /\ Generate => DiskHolds'
<1> SUFFICES ASSUME DiskInv, Generate PROVE DiskHolds'
  OBVIOUS
<1>1. shot \in Shots /\ ~Complete(shot) /\ pc = "shot" /\ UNCHANGED <<png, side>> /\ StartLadder
  BY ShotFacts DEF Generate, DiskInv, TypeOK, disk, Shots
<1>2. \A s \in Shots : Whole(s)'
  BY <1>1 DEF DiskInv, PairsHold, Whole, Written
<1>3. "undeleted" \notin Faults => side'[shot].prompt # shots[shot].prompt
  BY <1>1, DrawnHasNone
<1> QED  BY <1>1, <1>2, <1>3, LadderDisk

\* An image is written for the shot in hand, and its sidecar is yet to come.
LEMMA WrittenDisk ==
  ASSUME DiskInv, shot \in Shots, NEW f \in Frame, png' = [png EXCEPT ![shot] = f],
         UNCHANGED <<side, shots, shot, done>>, pc # "idle", pc' \in Written, InHand',
         "undeleted" \notin Faults => side[shot].prompt # shots[shot].prompt,
         f.prompt = shots[shot].prompt
  PROVE  DiskHolds'
<1>1. png'[shot] = f /\ \A s \in Shots : s # shot => png'[s] = png[s]
  BY DEF DiskInv, TypeOK
<1>2. PairsHold'
  BY <1>1 DEF DiskInv, PairsHold, Whole
<1>3. png'[shot] # NoFrame
  BY <1>1, ShotFacts DEF DiskInv, TypeOK
<1>4. SidecarsHold'
  BY <1>1, <1>3 DEF DiskInv, SidecarsHold
<1>5. Over'
  BY DEF DiskInv, Over, Written
<1> QED  BY <1>2, <1>4, <1>5 DEF DiskHolds

LEMMA CopyDisk == DiskInv /\ (\E p \in PlateRooms : CopyPlate(p)) => DiskHolds'
<1> SUFFICES ASSUME DiskInv, NEW p \in PlateRooms, CopyPlate(p) PROVE DiskHolds'
  OBVIOUS
<1>0. shot \in Shots /\ p \in {"yes", "no", "null"} /\ TypeOK
  BY RoomsAssumption DEF DiskInv, TypeOK, CopyPlate, Shots
<1> DEFINE f == [prompt |-> shots[shot].prompt, guard |-> "plate",
                 room |-> IF HasCast(shot) THEN p ELSE "empty"]
<1>1. /\ f \in Frame /\ f.prompt = shots[shot].prompt /\ f.guard = "plate"
      /\ f.room \in {"yes", "no", "null", "empty"}
  BY <1>0 DEF TypeOK, Frame, RoomVerdict
<1>2. png' = [png EXCEPT ![shot] = f]
  BY DEF CopyPlate
<1> HIDE DEF f
<1>3. /\ UNCHANGED <<side, shots, shot, done>> /\ pc = "shot" /\ pc' = "side"
      /\ ~Complete(shot)
  BY DEF CopyPlate, checkpoint
<1>4. ~flags'.exhausted /\ ~flags'.undecidable /\ flags'.plate = p
  BY DEF CopyPlate, NoFlags
<1>5. png'[shot] = f
  BY <1>0, <1>2 DEF TypeOK
<1>6. InHand'
  BY <1>0, <1>1, <1>3, <1>4, <1>5 DEF InHand, Says, Drawing, Written
<1> QED  BY <1>0, <1>1, <1>2, <1>3, <1>6, WrittenDisk, DrawnHasNone DEF Written

LEMMA SettleDisk ==
  ASSUME DiskInv, NEW v \in PersonVerdict \cup {"unasked", "unwanted"}, Settle(v)
  PROVE  DiskHolds'
<1>0. shot \in Shots /\ TypeOK
  BY DEF DiskInv, TypeOK, Settle
<1> DEFINE f == [prompt |-> shots[shot].prompt, guard |-> v,
                 room |-> IF HasCast(shot) THEN "unasked" ELSE "empty"]
<1>1. /\ f \in Frame /\ f.prompt = shots[shot].prompt /\ f.guard = v /\ v # "plate"
      /\ HasCast(shot) => f.room = "unasked"
      /\ ~HasCast(shot) => f.room = "empty"
  BY <1>0 DEF TypeOK, Frame, PersonVerdict
<1>2. png' = [png EXCEPT ![shot] = f]
  BY DEF Settle
<1> HIDE DEF f
<1>3. /\ UNCHANGED <<side, shots, shot, done>> /\ pc = "judge"
      /\ pc' = IF HasCast(shot) THEN "room" ELSE "side"
  BY DEF Settle, checkpoint
<1>4. /\ flags'.exhausted <=> v = "populated"
      /\ flags'.undecidable <=> v = "unknown"
      /\ flags'.plate = "none" /\ ~flags'.roomless /\ ~flags'.unjudged
  <2> DEFINE a == v = "populated"
             b == v = "unknown"
  <2>1. flags' = [NoFlags EXCEPT !.exhausted = a, !.undecidable = @ \/ b]
    BY <1>3 DEF Settle, DiskInv, InHand, Drawing
  <2>2. a \in BOOLEAN /\ b \in BOOLEAN
    OBVIOUS
  <2> HIDE DEF a, b
  <2>3. /\ flags'.exhausted = a /\ flags'.undecidable = b
        /\ flags'.plate = "none" /\ flags'.roomless = FALSE /\ flags'.unjudged = FALSE
    BY <2>1, <2>2 DEF NoFlags
  <2> QED  BY <2>3 DEF a, b
<1>5. png'[shot] = f /\ HasCast(shot)' = HasCast(shot)
  BY <1>0, <1>2, <1>3 DEF TypeOK, HasCast
<1>6. InHand'
  BY <1>1, <1>3, <1>4, <1>5 DEF InHand, Says, Drawing, Written
<1>7. "undeleted" \notin Faults => side[shot].prompt # shots[shot].prompt
  BY <1>3 DEF DiskInv, SidecarsHold
<1> QED  BY <1>0, <1>1, <1>2, <1>3, <1>6, <1>7, WrittenDisk DEF Written

LEMMA RoomDisk ==
  ASSUME DiskInv, NEW v \in RoomVerdict \cup {"unasked", "unwanted"}, JudgeRoom(v)
  PROVE  DiskHolds'
<1>0. shot \in Shots /\ TypeOK
  BY DEF DiskInv, TypeOK, JudgeRoom
<1> DEFINE f == [png[shot] EXCEPT !.room = v]
<1>1. /\ f \in Frame /\ f.prompt = png[shot].prompt /\ f.guard = png[shot].guard /\ f.room = v
  BY <1>0 DEF TypeOK, Frame
<1>2. png' = [png EXCEPT ![shot] = f]
  BY DEF JudgeRoom
<1> HIDE DEF f
<1>3. UNCHANGED <<side, shots, shot, done>> /\ pc = "room" /\ pc' = "side"
  BY DEF JudgeRoom, checkpoint
<1>4. /\ flags'.exhausted = flags.exhausted /\ flags'.undecidable = flags.undecidable
      /\ flags'.plate = flags.plate
      /\ flags'.roomless <=> v = "no"
      /\ flags'.unjudged <=> v \in {"unknown", "unasked"}
  BY <1>0 DEF JudgeRoom, TypeOK, Flags, NoRoom, Unjudged
<1>5. png'[shot] = f
  BY <1>0, <1>2 DEF TypeOK
<1>6. InHand'
  BY <1>1, <1>3, <1>4, <1>5 DEF DiskInv, InHand, Says, Drawing, Written
<1>7. "undeleted" \notin Faults => side[shot].prompt # shots[shot].prompt
  BY <1>3 DEF DiskInv, SidecarsHold
<1>8. f.prompt = shots[shot].prompt
  BY <1>1, <1>3 DEF DiskInv, InHand, Written
<1> QED  BY <1>0, <1>1, <1>2, <1>3, <1>6, <1>7, <1>8, WrittenDisk DEF Written

LEMMA WriteDisk == DiskInv /\ WriteSidecar => DiskHolds'
<1> SUFFICES ASSUME DiskInv, WriteSidecar PROVE DiskHolds'
  OBVIOUS
<1>0. shot \in Shots /\ TypeOK
  BY DEF DiskInv, TypeOK, WriteSidecar
<1> DEFINE c == [prompt |-> shots[shot].prompt, rung |-> rung, flags |-> flags]
<1>1. c.prompt = shots[shot].prompt /\ c.flags = flags
  OBVIOUS
<1>2. side' = [side EXCEPT ![shot] = c]
  BY DEF WriteSidecar
<1> HIDE DEF c
<1>3. side'[shot] = c /\ \A s \in Shots : s # shot => side'[s] = side[s]
  BY <1>0, <1>2 DEF TypeOK
<1>4. UNCHANGED <<png, shots, done>> /\ pc = "side" /\ pc' = "shot"
  BY DEF WriteSidecar, checkpoint
<1>5. PairsHold'
  BY <1>1, <1>3, <1>4 DEF DiskInv, PairsHold, Whole, InHand, Written
<1>6. SidecarsHold'
  <2>1. png[shot] # NoFrame
    BY <1>0, <1>4, FrameIsThere DEF DiskInv, InHand, Written
  <2> QED  BY <1>1, <1>3, <1>4, <2>1 DEF DiskInv, SidecarsHold
<1>7. Over' /\ InHand'
  BY <1>4 DEF DiskInv, Over, InHand, Drawing, Written
<1> QED  BY <1>5, <1>6, <1>7 DEF DiskHolds

LEMMA UnwrittenDisk ==
  ASSUME DiskInv, Sound, NEW cut \in BOOLEAN, SidecarFails(cut) PROVE DiskHolds'
<1>0. shot \in Shots /\ pc = "side" /\ TypeOK /\ UNCHANGED png
  BY DEF DiskInv, TypeOK, SidecarFails
<1>1. side[shot] = NoSidecar
  BY <1>0, InHandHasNone DEF NothingBetween, SidecarFails
<1>2. UNCHANGED side
  <2>1. \A s \in Shots : side'[s] = side[s]
    BY <1>0, <1>1 DEF SidecarFails, TypeOK
  <2>2. side \in [Shots -> Sidecar] /\ side' \in [Shots -> Sidecar]
    BY <1>0, ShotFacts DEF SidecarFails, TypeOK
  <2> QED  BY <2>1, <2>2
<1>3. \A s \in Shots : Whole(s)'
  BY <1>0, <1>1, <1>2 DEF DiskInv, PairsHold, Whole
<1>4. CASE Fail
  <2>1. UNCHANGED <<shots, done>> /\ pc' = "idle" /\ found' = {} /\ dropped' = {} /\ shot' = 1
    BY <1>4 DEF Fail, Leave
  <2>2. SidecarsHold'
    BY <1>0, <1>2, <2>1 DEF DiskInv, SidecarsHold
  <2>3. Over' /\ InHand'
    BY <2>1 DEF DiskInv, Over, InHand, Drawing, Written
  <2> QED  BY <1>3, <2>2, <2>3 DEF DiskHolds, PairsHold
<1>5. CASE StartLadder
  <2>1. "undeleted" \notin Faults => side'[shot].prompt # shots[shot].prompt
    BY <1>0, <1>2 DEF DiskInv, SidecarsHold
  <2> QED  BY <1>0, <1>2, <1>3, <1>5, <2>1, LadderDisk
<1> QED  BY <1>4, <1>5 DEF SidecarFails

LEMMA DiskStep == DiskInv /\ Sound /\ [Next]_vars => DiskInv'
<1> SUFFICES ASSUME DiskInv, Sound, [Next]_vars PROVE DiskInv'
  OBVIOUS
<1>1. TypeOK'
  BY TypeStep DEF DiskInv
<1>2. DiskHolds'
  <2>1. CASE Talks
    BY <2>1, TalksDisk
  <2>2. CASE Stops
    BY <2>2, StopsKept, LeaveDisk DEF Fail, Drawing, Written, Leave
  <2>3. CASE Generate
    BY <2>3, GenerateDisk
  <2>4. CASE Resume
    BY <2>4, ResumeDisk
  <2>5. CASE \E p \in PlateRooms : CopyPlate(p)
    BY <2>5, CopyDisk
  <2>6. CASE \E v \in PersonVerdict \cup {"unasked", "unwanted"} : Settle(v)
    BY <2>6, SettleDisk
  <2>7. CASE \E v \in RoomVerdict \cup {"unasked", "unwanted"} : JudgeRoom(v)
    BY <2>7, RoomDisk
  <2>8. CASE WriteSidecar \/ \E cut \in BOOLEAN : SidecarFails(cut)
    BY <2>8, WriteDisk, UnwrittenDisk
  <2>9. CASE Return \/ Crash
    BY <2>9, ReturnDisk, CrashDisk
  <2>10. CASE \E c \in Configs : Begin(c)
    BY <2>10, BeginDisk
  <2>11. CASE \E pngs, sides \in SUBSET Shots : Redo(pngs, sides)
    BY <2>11, RedoDisk
  <2>12. CASE \E drafted \in [Shots -> Prompts] : Redraft(drafted)
    BY <2>12, RedraftDisk
  <2>13. CASE UNCHANGED vars
    BY <2>13
    DEF vars, DiskInv, DiskHolds, Over, PairsHold, Whole, InHand, SidecarsHold, HasCast
  <2> QED
    BY <2>1, <2>2, <2>3, <2>4, <2>5, <2>6, <2>7, <2>8, <2>9, <2>10, <2>11, <2>12, <2>13
    DEF Next, Step, Talks, Stops
<1> QED  BY <1>1, <1>2 DEF DiskInv, DiskHolds

-----------------------------------------------------------------------------
(* What is reported, step by step.                                          *)

LEMMA ReportBegin == Init => ReportInv
<1> SUFFICES ASSUME Init PROVE ReportInv
  OBVIOUS
<1> QED  BY DEF Init, ReportInv, ShotsTold, UnaskedTold, Written

LEMMA TalksReport == DiskInv /\ ReportInv /\ Talks => ReportInv'
<1> SUFFICES ASSUME DiskInv, ReportInv, Talks PROVE ReportInv'
  OBVIOUS
<1>1. /\ pc \in Drawing /\ pc' \in Drawing /\ (guard'.off => guard.off) /\ ~done
      /\ UNCHANGED <<png, side, shots, rows, cfg, shot, flags, room, found, dropped, done>>
  BY TalksKept DEF DiskInv, Over, Drawing
<1>2. \A s \in Shots : Told(s, rows \cup found) => Told(s, rows \cup found)'
  BY <1>1 DEF Told, BackgroundTold, HasCast
<1>3. ShotsTold'
  BY <1>1, <1>2 DEF ReportInv, ShotsTold, Drawing, Written
<1>4. UnaskedTold'
  BY <1>1 DEF ReportInv, UnaskedTold, Drawing
<1> QED  BY <1>3, <1>4 DEF ReportInv

\* A pass that ends without its scenes, by an error or a crash.
LEMMA EndReport ==
  ASSUME ReportInv, ~done, done' = done, UNCHANGED png, pc' = "idle",
         "crash" \notin Faults => rows \cup found \subseteq rows'
  PROVE  ReportInv'
<1>1. ShotsTold'
  BY DEF ShotsTold, Written
<1>2. UnaskedTold'
  BY DEF ReportInv, UnaskedTold
<1> QED  BY <1>1, <1>2 DEF ReportInv

LEMMA FailReport == DiskInv /\ ReportInv /\ Fail /\ pc # "idle" /\ UNCHANGED png => ReportInv'
  BY EndReport DEF Fail, Leave, DiskInv, Over

LEMMA CrashReport == DiskInv /\ ReportInv /\ Crash => ReportInv'
  BY EndReport DEF Crash, Leave, DiskInv, Over, disk

\* Before a pass, and at its begin.
LEMMA BeginReport == DiskInv /\ ReportInv /\ (\E c \in Configs : Begin(c)) => ReportInv'
<1> SUFFICES ASSUME DiskInv, ReportInv, NEW c \in Configs, Begin(c) PROVE ReportInv'
  OBVIOUS
<1>1. /\ UNCHANGED <<png, shots, rows>> /\ pc' = "shot" /\ ~done' /\ cfg' = c
      /\ shot' = 1 /\ found = {}
      /\ found' = Row(c.attempts >= 1 /\ ~c.key, "background", 0)
                    \cup Row(c.gate /\ ~c.key, "unjudged", 0)
      /\ guard'.off = ~(c.attempts >= 1 /\ c.key) /\ room'.off = ~(c.gate /\ c.key)
  BY DEF Begin, disk, checkpoint, DiskInv, Over, Armed
<1>2. c.key \in BOOLEAN /\ c.gate \in BOOLEAN
  BY ConfigsAssumption DEF Settings
<1>3. /\ c.gate /\ room'.off => <<"unjudged", 0>> \in found'
      /\ c.attempts >= 1 /\ guard'.off => <<"background", 0>> \in found'
  BY <1>1, <1>2 DEF Row
<1>4. ShotsTold'
  BY <1>1, <1>3 DEF ShotsTold, Written, Shots
<1>5. UnaskedTold'
  BY <1>1, <1>3 DEF ReportInv, UnaskedTold
<1> QED  BY <1>4, <1>5 DEF ReportInv

LEMMA RedoReport ==
  ASSUME ReportInv, NEW pngs \in SUBSET Shots, NEW sides \in SUBSET Shots, Redo(pngs, sides)
  PROVE  ReportInv'
<1>1. /\ \A s \in Shots : png'[s] = NoFrame \/ png'[s] = png[s]
      /\ pc' = "idle" /\ ~done' /\ UNCHANGED <<rows, found>>
  BY DEF Redo, checkpoint
<1>2. ShotsTold'
  BY <1>1 DEF ShotsTold, Written
<1>3. UnaskedTold'
  BY <1>1 DEF ReportInv, UnaskedTold
<1> QED  BY <1>2, <1>3 DEF ReportInv

LEMMA RedraftReport ==
  ASSUME ReportInv, NEW drafted \in [Shots -> Prompts], Redraft(drafted) PROVE ReportInv'
<1>1. pc' = "idle" /\ ~done' /\ UNCHANGED <<rows, found, png>>
  BY DEF Redraft, disk
<1>2. ShotsTold'
  BY <1>1 DEF ShotsTold, Written
<1>3. UnaskedTold'
  BY <1>1 DEF ReportInv, UnaskedTold
<1> QED  BY <1>2, <1>3 DEF ReportInv

\* A step inside a pass, at shot k, that adds findings and leaves the other
\* shots alone.
LEMMA InsideReport ==
  ASSUME DiskInv, ReportInv, NEW k, k = shot, pc # "idle", pc' # "idle",
         UNCHANGED <<shots, rows, cfg, done>>,
         found \subseteq found', dropped' = dropped \/ dropped' = dropped \cup {k},
         \A s \in Shots : s # k => png'[s] = png[s],
         shot' = k \/ (shot' = k + 1 /\ Told(k, rows \cup found)'),
         pc' \in Written => shot' = k /\ BackgroundTold(k, rows \cup found)',
         pc' = "side" => Told(k, rows \cup found)',
         cfg.gate /\ room'.off => room.off \/ <<"unjudged", 0>> \in found',
         cfg.attempts >= 1 /\ guard'.off => guard.off \/ <<"background", 0>> \in found',
         k \in Shots => png'[k] = png[k] \/ png'[k].guard # "unasked"
                        \/ (cfg.attempts >= 1 /\ guard.off)
                        \/ (png[k] # NoFrame /\ png[k].guard = "unasked")
  PROVE  ReportInv'
<1>1. ~done /\ ~done'
  BY DEF DiskInv, Over
<1>2. \A s \in Shots : s < k => Told(s, rows \cup found)'
  <2> TAKE s \in Shots
  <2> HAVE s < k
  <2>1. s # k /\ png'[s] = png[s] /\ (s \in dropped <=> s \in dropped')
    BY DEF DiskInv, TypeOK, Shots
  <2>2. Told(s, rows \cup found)
    BY DEF ReportInv, ShotsTold
  <2>3. rows \cup found \subseteq (rows \cup found)'
    OBVIOUS
  <2>4. shots'[s] = shots[s] /\ cfg' = cfg
    OBVIOUS
  <2> QED  BY <2>1, <2>2, <2>3, <2>4 DEF Told, BackgroundTold, HasCast
<1>3. ShotsTold'
  <2>1. \A s \in Shots : s < shot' => Told(s, rows \cup found)'
    <3>1. k \in Nat /\ Shots \subseteq Nat
      BY ShotFacts DEF DiskInv, TypeOK
    <3>2. \A s \in Shots : s < shot' => s < k \/ (s = k /\ shot' = k + 1)
      BY <3>1
    <3> QED  BY <1>2, <3>2
  <2>2. cfg'.gate /\ room'.off => <<"unjudged", 0>> \in found'
    BY DEF ReportInv, ShotsTold
  <2>3. /\ pc' \in Written => BackgroundTold(shot, rows \cup found)'
        /\ pc' = "side" => Told(shot, rows \cup found)'
    BY DEF Written
  <2> QED  BY <1>1, <2>1, <2>2, <2>3 DEF ShotsTold
<1>4. UnaskedTold'
  BY DEF ReportInv, UnaskedTold
<1> QED  BY <1>3, <1>4 DEF ReportInv

LEMMA ResumeReport == DiskInv /\ ReportInv /\ Resume => ReportInv'
<1> SUFFICES ASSUME DiskInv, ReportInv, Resume, NEW k, k = shot PROVE ReportInv'
  OBVIOUS
<1>0. k \in Shots /\ k \in Nat /\ Complete(k) /\ TypeOK
  BY ShotFacts DEF DiskInv, TypeOK, Resume, Shots
<1>1. /\ UNCHANGED <<png, side, shots, rows, cfg, done, pc, guard, room>> /\ pc = "shot"
      /\ found' = found \cup ResumedRows(k) /\ shot' = k + 1
      /\ dropped' = IF ResumedDrop(k) THEN dropped \cup {k} ELSE dropped
  BY DEF Resume, disk, checkpoint, tallies
<1>2. png[k].prompt = shots[k].prompt /\ Says(side[k].flags, png[k])
  <2>1. side[k] # NoSidecar /\ png[k] # NoFrame /\ side[k].prompt = shots[k].prompt
    BY <1>0, FrameIsThere DEF Complete
  <2> QED  BY <1>0, <1>1, <2>1 DEF DiskInv, PairsHold, Whole, Written
<1>3. Told(k, rows \cup found)'
  <2> DEFINE f == side[k].flags
  <2>1. f.exhausted \/ f.undecidable => <<"background", k>> \in found'
    BY <1>1 DEF ResumedRows, Row
  <2>2. HasCast(k) /\ ~ResumedDrop(k) /\ f.plate \in {"none", "null"} /\ f.unjudged
          => <<"unjudged", k>> \in found'
    BY <1>1 DEF ResumedRows, Row
  <2>3. ResumedDrop(k) <=> HasCast(k) /\ cfg.gate /\ f.roomless
    BY DEF ResumedDrop
  <2>4. /\ png'[k] = png[k] /\ shots'[k] = shots[k] /\ cfg' = cfg
        /\ (HasCast(k)' <=> HasCast(k))
        /\ ResumedDrop(k) => k \in dropped'
    BY <1>1 DEF HasCast
  <2> HIDE DEF f
  <2>5. BackgroundTold(k, rows \cup found)'
    BY <1>2, <2>1, <2>4 DEF BackgroundTold, Says, f
  <2>6. /\ f.plate = "none" <=> png[k].guard # "plate"
        /\ png[k].guard # "plate" =>
             /\ f.roomless <=> png[k].room = "no"
             /\ f.unjudged <=> png[k].room \in {"unknown", "unasked"}
        /\ png[k].guard = "plate" => png[k].room \notin {"unknown", "unasked"}
    BY <1>2 DEF Says, f
  <2> QED  BY <1>2, <2>2, <2>3, <2>4, <2>5, <2>6 DEF Told
<1>4. found \subseteq found'
  BY <1>1
<1> QED  BY <1>1, <1>3, <1>4, InsideReport DEF Written

LEMMA LadderReport ==
  DiskInv /\ ReportInv /\ StartLadder /\ pc # "idle" /\ UNCHANGED png => ReportInv'
<1> SUFFICES ASSUME DiskInv, ReportInv, StartLadder, pc # "idle", UNCHANGED png,
                    NEW k, k = shot
             PROVE  ReportInv'
  OBVIOUS
<1>1. /\ UNCHANGED <<shots, rows, cfg, done, guard, room, dropped>> /\ shot' = k
      /\ pc' \in Drawing /\ found \subseteq found'
  BY DEF StartLadder, checkpoint, Drawing
<1> QED  BY <1>1, InsideReport DEF Drawing, Written

LEMMA CopyReport == DiskInv /\ ReportInv /\ (\E p \in PlateRooms : CopyPlate(p)) => ReportInv'
<1> SUFFICES ASSUME DiskInv, ReportInv, NEW p \in PlateRooms, CopyPlate(p), NEW k, k = shot
             PROVE  ReportInv'
  OBVIOUS
<1>0. k \in Shots /\ p \in {"yes", "no", "null"} /\ TypeOK
  BY RoomsAssumption DEF DiskInv, TypeOK, CopyPlate, Shots
<1> DEFINE f == [prompt |-> shots[k].prompt, guard |-> "plate",
                 room |-> IF HasCast(k) THEN p ELSE "empty"]
<1>1. f.prompt = shots[k].prompt /\ f.guard = "plate" /\ f.room \in {"yes", "no", "null", "empty"}
  BY <1>0
<1>2. png' = [png EXCEPT ![k] = f]
  BY DEF CopyPlate
<1> HIDE DEF f
<1>3. png'[k] = f /\ \A s \in Shots : s # k => png'[s] = png[s]
  BY <1>0, <1>2 DEF TypeOK
<1>4. /\ UNCHANGED <<shots, rows, cfg, done, guard, room, dropped, found>> /\ shot' = k
      /\ pc = "shot" /\ pc' = "side"
  BY DEF CopyPlate, checkpoint, tallies
<1>5. Told(k, rows \cup found)'
  BY <1>1, <1>3, <1>4 DEF Told, BackgroundTold, HasCast
<1>6. BackgroundTold(k, rows \cup found)'
  BY <1>5 DEF Told
<1> QED  BY <1>1, <1>3, <1>4, <1>5, <1>6, InsideReport

LEMMA SettleReport ==
  ASSUME DiskInv, ReportInv, NEW v \in PersonVerdict \cup {"unasked", "unwanted"}, Settle(v)
  PROVE  ReportInv'
<1> SUFFICES ASSUME NEW k, k = shot PROVE ReportInv'
  OBVIOUS
<1>0. k \in Shots /\ TypeOK
  BY DEF DiskInv, TypeOK, Settle
<1> DEFINE f == [prompt |-> shots[k].prompt, guard |-> v,
                 room |-> IF HasCast(k) THEN "unasked" ELSE "empty"]
<1>1. f.prompt = shots[k].prompt /\ f.guard = v
  OBVIOUS
<1>2. png' = [png EXCEPT ![k] = f]
  BY DEF Settle
<1> HIDE DEF f
<1>3. png'[k] = f /\ \A s \in Shots : s # k => png'[s] = png[s]
  BY <1>0, <1>2 DEF TypeOK
<1>4. /\ UNCHANGED <<shots, rows, cfg, done, room, dropped>> /\ shot' = k /\ pc = "judge"
      /\ pc' = IF HasCast(k) THEN "room" ELSE "side"
      /\ found' = found \cup Row(v \in {"populated", "unknown"}, "background", k)
                        \cup TripRow(guard, guard', "background")
      /\ v = "unasked" => guard.off /\ cfg.attempts >= 1
  BY DEF Settle, checkpoint, Unasked, PersonVerdict
<1>5. /\ found \subseteq found'
      /\ v \in {"populated", "unknown"} => <<"background", k>> \in found'
      /\ guard'.off => guard.off \/ <<"background", 0>> \in found'
  BY <1>4 DEF Row, TripRow
<1>6. BackgroundTold(k, rows \cup found)'
  BY <1>1, <1>3, <1>4, <1>5 DEF BackgroundTold
<1>7. ~HasCast(k) => Told(k, rows \cup found)'
  BY <1>1, <1>3, <1>4, <1>6 DEF Told, HasCast
<1>8. /\ pc' \in Written => shot' = k /\ BackgroundTold(k, rows \cup found)'
      /\ pc' = "side" => Told(k, rows \cup found)'
      /\ pc' # "idle" /\ pc # "idle"
  BY <1>4, <1>6, <1>7
<1> QED  BY <1>1, <1>3, <1>4, <1>5, <1>8, InsideReport

LEMMA RoomReport ==
  ASSUME DiskInv, ReportInv, NEW v \in RoomVerdict \cup {"unasked", "unwanted"}, JudgeRoom(v)
  PROVE  ReportInv'
<1> SUFFICES ASSUME NEW k, k = shot PROVE ReportInv'
  OBVIOUS
<1>0. k \in Shots /\ TypeOK
  BY DEF DiskInv, TypeOK, JudgeRoom
<1> DEFINE f == [png[k] EXCEPT !.room = v]
<1>1. f.prompt = png[k].prompt /\ f.guard = png[k].guard /\ f.room = v
  BY <1>0 DEF TypeOK, Frame
<1>2. png' = [png EXCEPT ![k] = f]
  BY DEF JudgeRoom
<1> HIDE DEF f
<1>3. png'[k] = f /\ \A s \in Shots : s # k => png'[s] = png[s]
  BY <1>0, <1>2 DEF TypeOK
<1>4. /\ UNCHANGED <<shots, rows, cfg, done, guard>> /\ shot' = k /\ pc = "room" /\ pc' = "side"
      /\ found' = found \cup Row(NoRoom(v), "roomless", k)
                        \cup Row(v = "unknown", "unjudged", k)
                        \cup TripRow(room, room', "unjudged")
      /\ dropped' = IF NoRoom(v) THEN dropped \cup {k} ELSE dropped
      /\ v = "unasked" => room.off /\ cfg.gate
  BY DEF JudgeRoom, checkpoint, Unasked, RoomVerdict
<1>5. /\ found \subseteq found'
      /\ v = "unknown" => <<"unjudged", k>> \in found'
      /\ room'.off => room.off \/ <<"unjudged", 0>> \in found'
  BY <1>4 DEF Row, TripRow
<1>6. BackgroundTold(k, rows \cup found)'
  <2>1. BackgroundTold(k, rows \cup found)
    BY <1>4 DEF ReportInv, ShotsTold, Written
  <2> QED  BY <1>1, <1>3, <1>4, <1>5, <2>1 DEF BackgroundTold
<1>7. Told(k, rows \cup found)'
  <2>1. png[k].prompt = shots[k].prompt
    BY <1>4 DEF DiskInv, InHand, Written
  <2>2. v = "unasked" => <<"unjudged", 0>> \in found
    BY <1>4 DEF ReportInv, ShotsTold
  <2> QED  BY <1>1, <1>3, <1>4, <1>5, <1>6, <2>1, <2>2 DEF Told, HasCast, NoRoom
<1>8. png'[k].guard = png[k].guard /\ png[k] # NoFrame
  <2>1. png[k].prompt = shots[k].prompt
    BY <1>4 DEF DiskInv, InHand, Written
  <2> QED  BY <1>0, <1>1, <1>3, <2>1, FrameIsThere
<1>9. dropped' = dropped \/ dropped' = dropped \cup {k}
  BY <1>4
<1> QED  BY <1>3, <1>4, <1>5, <1>6, <1>7, <1>8, <1>9, InsideReport

LEMMA WriteReport == DiskInv /\ ReportInv /\ WriteSidecar => ReportInv'
<1> SUFFICES ASSUME DiskInv, ReportInv, WriteSidecar, NEW k, k = shot PROVE ReportInv'
  OBVIOUS
<1>1. /\ UNCHANGED <<png, shots, rows, cfg, done, guard, room, dropped, found>> /\ shot' = k + 1
      /\ pc = "side" /\ pc' = "shot"
  BY DEF WriteSidecar, checkpoint, tallies
<1>2. Told(k, rows \cup found)
  BY <1>1 DEF ReportInv, ShotsTold
<1>3. Told(k, rows \cup found)'
  BY <1>1, <1>2 DEF Told, BackgroundTold, HasCast
<1> QED  BY <1>1, <1>3, InsideReport DEF Written

LEMMA ReturnReport == DiskInv /\ ReportInv /\ Return => ReportInv'
<1> SUFFICES ASSUME DiskInv, ReportInv, Return PROVE ReportInv'
  OBVIOUS
<1>1. /\ UNCHANGED <<png, side, cfg>> /\ rows' = rows \cup found /\ pc = "shot" /\ pc' = "idle"
      /\ shot > N /\ found' = {} /\ dropped' = {}
      /\ shots' = [s \in Shots |-> [shots[s] EXCEPT !.cast = @ /\ s \notin dropped]]
  BY DEF Return, Leave, disk
<1>2. \A s \in Shots : Told(s, rows)'
  <2> TAKE s \in Shots
  <2>0. s < shot
    BY <1>1, ShotFacts DEF DiskInv, TypeOK, Shots
  <2>1. Told(s, rows \cup found)
    BY <1>1, <2>0 DEF ReportInv, ShotsTold
  <2>2. /\ shots'[s].prompt = shots[s].prompt
        /\ HasCast(s)' => HasCast(s) /\ s \notin dropped
    BY <1>1 DEF DiskInv, TypeOK, HasCast
  <2> QED  BY <1>1, <2>1, <2>2 DEF Told, BackgroundTold
<1>3. ShotsTold'
  BY <1>1, <1>2 DEF ShotsTold, Written
<1>4. UnaskedTold'
  BY <1>1 DEF ReportInv, UnaskedTold
<1> QED  BY <1>3, <1>4 DEF ReportInv

LEMMA ReportStep == DiskInv /\ ReportInv /\ [Next]_vars => ReportInv'
<1> SUFFICES ASSUME DiskInv, ReportInv, [Next]_vars PROVE ReportInv'
  OBVIOUS
<1>1. CASE Talks
  BY <1>1, TalksReport
<1>2. CASE Stops
  BY <1>2, StopsKept, FailReport DEF Drawing
<1>3. CASE Generate
  BY <1>3, LadderReport DEF Generate, disk
<1>4. CASE Resume
  BY <1>4, ResumeReport
<1>5. CASE \E p \in PlateRooms : CopyPlate(p)
  BY <1>5, CopyReport
<1>6. CASE \E v \in PersonVerdict \cup {"unasked", "unwanted"} : Settle(v)
  BY <1>6, SettleReport
<1>7. CASE \E v \in RoomVerdict \cup {"unasked", "unwanted"} : JudgeRoom(v)
  BY <1>7, RoomReport
<1>8. CASE WriteSidecar \/ \E cut \in BOOLEAN : SidecarFails(cut)
  <2>1. ASSUME NEW cut \in BOOLEAN, SidecarFails(cut) PROVE ReportInv'
    BY <2>1, FailReport, LadderReport DEF SidecarFails
  <2> QED  BY <1>8, <2>1, WriteReport
<1>9. CASE Return \/ Crash
  BY <1>9, ReturnReport, CrashReport
<1>10. CASE \E c \in Configs : Begin(c)
  BY <1>10, BeginReport
<1>11. CASE \E pngs, sides \in SUBSET Shots : Redo(pngs, sides)
  BY <1>11, RedoReport
<1>12. CASE \E drafted \in [Shots -> Prompts] : Redraft(drafted)
  BY <1>12, RedraftReport
<1>13. CASE UNCHANGED vars
  BY <1>13 DEF vars, ReportInv, ShotsTold, UnaskedTold, Told, BackgroundTold, HasCast
<1> QED
  BY <1>1, <1>2, <1>3, <1>4, <1>5, <1>6, <1>7, <1>8, <1>9, <1>10, <1>11, <1>12, <1>13
  DEF Next, Step, Talks, Stops
-----------------------------------------------------------------------------
(* Outages.                                                                 *)

LEMMA BreakerKept ==
  ASSUME NEW b \in Breaker, BreakerHolds(b), ~b.off, NEW u \in BOOLEAN
  PROVE  BreakerHolds(Answered(b, u))
<1> DEFINE trips == b.streak + 1 >= BreakerStreak \/ b.total + 1 >= BreakerTotal
<1>1. b.total \in Nat /\ b.total < BreakerTotal /\ BreakerTotal \in Nat
  BY BoundsAssumption DEF Breaker, BreakerHolds
<1>2. CASE u
  <2>1. Answered(b, u) = [off |-> trips, streak |-> b.streak + 1, total |-> b.total + 1]
    BY <1>2 DEF Answered, Breaker
  <2>2. ~trips => b.total + 1 < BreakerTotal
    BY <1>1
  <2> HIDE DEF trips
  <2> QED  BY <1>1, <2>1, <2>2 DEF BreakerHolds
<1>3. CASE ~u
  <2>1. Answered(b, u) = [off |-> b.off, streak |-> 0, total |-> b.total]
    BY <1>3 DEF Answered, Breaker
  <2> QED  BY <1>1, <2>1 DEF BreakerHolds
<1> QED  BY <1>2, <1>3

LEMMA ArmedHolds == \A on \in BOOLEAN : BreakerHolds(Armed(on))
  BY BoundsAssumption DEF Armed, BreakerHolds

LEMMA OutageBegin == Init => OutageInv
  BY TypeBegin, ArmedHolds DEF Init, OutageInv, Drawing

LEMMA LeaveOutage == TypeOK' /\ Leave => OutageInv'
  BY ArmedHolds DEF Leave, OutageInv, Drawing

LEMMA LadderOutage ==
  OutageInv /\ TypeOK' /\ StartLadder /\ pc \in {"shot", "side"} => OutageInv'
<1> SUFFICES ASSUME OutageInv, TypeOK', StartLadder, pc \in {"shot", "side"} PROVE OutageInv'
  OBVIOUS
<1>1. /\ UNCHANGED <<cfg, guard, room, looked, blind>> /\ rung' = 0
      /\ pc' = IF ~looked THEN "look" ELSE IF PollDue THEN "poll" ELSE "submit"
      /\ since' = IF looked /\ PollDue THEN 0 ELSE since
  BY DEF StartLadder
<1>2. /\ since \in Nat /\ blind \in Nat /\ looked \in BOOLEAN /\ cfg.attempts \in Nat
      /\ PollEvery \in Nat \ {0} /\ blind <= since /\ since <= PollEvery + cfg.attempts
      /\ ~looked => since = 0 /\ blind = 0
  BY BoundsAssumption DEF OutageInv, TypeOK, Settings
<1>3. pc' = "submit" => since' < PollEvery /\ blind' <= since'
  BY <1>1, <1>2 DEF PollDue
<1> QED  BY <1>1, <1>2, <1>3 DEF OutageInv, BreakerHolds, PollDue, Drawing

LEMMA TalksOutage == OutageInv /\ TypeOK' /\ Talks => OutageInv'
<1> SUFFICES ASSUME OutageInv, TypeOK', Talks PROVE OutageInv'
  OBVIOUS
<1>0. /\ TypeOK /\ since \in Nat /\ blind \in Nat /\ looked \in BOOLEAN /\ rung \in Nat
      /\ cfg.attempts \in Nat /\ PollEvery \in Nat \ {0}
  BY BoundsAssumption DEF OutageInv, TypeOK, Settings
<1>1. CASE LookUp
  BY <1>0, <1>1 DEF LookUp, OutageInv, BreakerHolds, Drawing
<1>2. CASE Recovered
  BY <1>0, <1>2 DEF Recovered, AfterRecovery, OutageInv, BreakerHolds, Drawing
<1>3. CASE Resubmit
  <2>1. /\ UNCHANGED <<cfg, rung, guard, room, looked>> /\ pc = "resubmit" /\ pc' = "judge"
        /\ blind' = blind + 1 /\ since' = since + 1
    BY <1>3 DEF Resubmit
  <2>2. blind = 0 /\ since < PollEvery + rung /\ rung <= cfg.attempts /\ looked
    BY <1>0, <2>1 DEF OutageInv, Drawing
  <2>3. blind' <= since' /\ since' <= PollEvery + rung /\ since' <= PollEvery + cfg.attempts
    BY <1>0, <2>1, <2>2
  <2> QED  BY <1>0, <2>1, <2>2, <2>3 DEF OutageInv, BreakerHolds, Drawing
<1>4. CASE Regenerate
  <2>1. BreakerHolds(guard') /\ BreakerHolds(room')
    BY <1>0, <1>4, BreakerKept DEF Regenerate, OutageInv, TypeOK, BreakerHolds
  <2>2. UNCHANGED <<cfg, looked, since, blind>> /\ pc' = "submit" /\ rung' = rung + 1
        /\ rung < cfg.attempts /\ pc = "judge"
    BY <1>4 DEF Regenerate, RungLeft
  <2> QED  BY <1>0, <2>1, <2>2 DEF OutageInv, BreakerHolds, Drawing
<1>5. ASSUME NEW up \in BOOLEAN, Poll(up) PROVE OutageInv'
  BY <1>0, <1>5 DEF Poll, OutageInv, BreakerHolds, Drawing
<1>6. ASSUME NEW up \in BOOLEAN, Submit(up) PROVE OutageInv'
  <2>1. /\ UNCHANGED <<cfg, rung, guard, room, looked>> /\ pc = "submit"
        /\ blind' = blind + 1 /\ since' = IF up THEN since + 1 ELSE since
        /\ pc' = IF up THEN "judge" ELSE "again"
    BY <1>6 DEF Submit
  <2>2. blind <= since /\ since < PollEvery + rung /\ rung <= cfg.attempts /\ looked
    BY <1>0, <2>1 DEF OutageInv, Drawing
  <2>3. blind' <= since + 1 /\ blind' <= PollEvery + cfg.attempts
        /\ since + 1 <= PollEvery + rung /\ since + 1 <= PollEvery + cfg.attempts
    BY <1>0, <2>1, <2>2
  <2> QED  BY <1>0, <2>1, <2>2, <2>3 DEF OutageInv, BreakerHolds, Drawing
<1> QED  BY <1>1, <1>2, <1>3, <1>4, <1>5, <1>6 DEF Talks

LEMMA SettleOutage ==
  ASSUME OutageInv, TypeOK', NEW v \in PersonVerdict \cup {"unasked", "unwanted"}, Settle(v)
  PROVE  OutageInv'
<1>1. BreakerHolds(guard') /\ BreakerHolds(room')
  <2>1. guard' = guard \/ (~guard.off /\ guard' = Answered(guard, v = "unknown"))
    BY DEF Settle
  <2> QED  BY <2>1, BreakerKept DEF Settle, OutageInv, TypeOK, BreakerHolds
<1>2. UNCHANGED <<cfg, looked, since, blind, rung>> /\ pc' \in {"room", "side"} /\ pc = "judge"
  BY DEF Settle
<1> QED  BY <1>1, <1>2 DEF OutageInv, BreakerHolds, Drawing

LEMMA RoomOutage ==
  ASSUME OutageInv, TypeOK', NEW v \in RoomVerdict \cup {"unasked", "unwanted"}, JudgeRoom(v)
  PROVE  OutageInv'
<1>1. BreakerHolds(guard') /\ BreakerHolds(room')
  <2>1. room' = room \/ (~room.off /\ room' = Answered(room, v = "unknown"))
    BY DEF JudgeRoom
  <2> QED  BY <2>1, BreakerKept DEF JudgeRoom, OutageInv, TypeOK, BreakerHolds
<1>2. UNCHANGED <<cfg, looked, since, blind, rung>> /\ pc' = "side" /\ pc = "room"
  BY DEF JudgeRoom
<1> QED  BY <1>1, <1>2 DEF OutageInv, BreakerHolds, Drawing

LEMMA OutageStep == OutageInv /\ [Next]_vars => OutageInv'
<1> SUFFICES ASSUME OutageInv, [Next]_vars PROVE OutageInv'
  OBVIOUS
<1>0. TypeOK /\ TypeOK'
  BY TypeStep DEF OutageInv
<1>1. CASE Talks
  BY <1>0, <1>1, TalksOutage
<1>2. CASE Stops \/ Crash \/ Return
  <2>1. Leave
    BY <1>2 DEF Stops, LookDown, GivenUp, ResubmitFails, Fail, Crash, Return
  <2> QED  BY <1>0, <2>1, LeaveOutage
<1>3. CASE Generate
  BY <1>0, <1>3, LadderOutage DEF Generate
<1>4. CASE Resume
  BY <1>0, <1>4 DEF Resume, tallies, OutageInv, BreakerHolds, Drawing
<1>5. ASSUME NEW p \in PlateRooms, CopyPlate(p) PROVE OutageInv'
  <2>1. cfg.attempts \in Nat
    BY <1>0 DEF TypeOK, Settings
  <2> QED  BY <1>0, <1>5, <2>1 DEF CopyPlate, tallies, OutageInv, BreakerHolds, Drawing
<1>6. CASE \E v \in PersonVerdict \cup {"unasked", "unwanted"} : Settle(v)
  BY <1>0, <1>6, SettleOutage
<1>7. CASE \E v \in RoomVerdict \cup {"unasked", "unwanted"} : JudgeRoom(v)
  BY <1>0, <1>7, RoomOutage
<1>8. CASE WriteSidecar
  BY <1>0, <1>8 DEF WriteSidecar, tallies, OutageInv, BreakerHolds, Drawing
<1>9. ASSUME NEW cut \in BOOLEAN, SidecarFails(cut) PROVE OutageInv'
  <2>1. pc = "side" /\ (Fail \/ StartLadder)
    BY <1>9 DEF SidecarFails
  <2>2. CASE Fail
    BY <1>0, <2>2, LeaveOutage DEF Fail
  <2>3. CASE StartLadder
    BY <1>0, <2>1, <2>3, LadderOutage
  <2> QED  BY <2>1, <2>2, <2>3
<1>10. ASSUME NEW c \in Configs, Begin(c) PROVE OutageInv'
  <2>1. c \in Settings
    BY ConfigsAssumption
  <2>2. BreakerHolds(guard') /\ BreakerHolds(room')
    BY <1>10, <2>1, ArmedHolds DEF Begin, Settings
  <2>3. /\ UNCHANGED <<rung, looked, since, blind>> /\ cfg' = c /\ pc' = "shot" /\ pc = "idle"
        /\ c.attempts \in Nat /\ PollEvery \in Nat
    BY <1>10, <2>1, BoundsAssumption DEF Begin, Settings
  <2> QED  BY <1>0, <2>2, <2>3 DEF OutageInv, BreakerHolds, Drawing
<1>11. ASSUME NEW pngs \in SUBSET Shots, NEW sides \in SUBSET Shots, Redo(pngs, sides)
       PROVE  OutageInv'
  BY <1>0, <1>11 DEF Redo, tallies, OutageInv, BreakerHolds, Drawing
<1>12. ASSUME NEW drafted \in [Shots -> Prompts], Redraft(drafted) PROVE OutageInv'
  BY <1>0, <1>12 DEF Redraft, tallies, OutageInv, BreakerHolds, Drawing
<1>13. CASE UNCHANGED vars
  BY <1>0, <1>13 DEF vars, OutageInv, BreakerHolds, Drawing
<1> QED
  BY <1>1, <1>2, <1>3, <1>4, <1>5, <1>6, <1>7, <1>8, <1>9, <1>10, <1>11, <1>12, <1>13
  DEF Next, Step, Talks, Stops

-----------------------------------------------------------------------------
(* The theorems. *)

\* A ComfyUI nobody has seen alive gets no more requests than a shot's ladder
\* past the poll interval, and a detector that cannot answer costs
\* BreakerTotal timeouts, under every fault.
THEOREM ADeadServiceCostsLittle == Spec => []OutagesAreBounded
<1>1. OutageInv => OutagesAreBounded
  BY DEF OutageInv, OutagesAreBounded, BreakerHolds
<1> QED  BY <1>1, OutageBegin, OutageStep, PTL DEF Spec

LEMMA DiskAndReport == Sound /\ Spec => [](DiskInv /\ ReportInv)
<1>1. ASSUME Sound PROVE DiskInv /\ ReportInv /\ [Next]_vars => (DiskInv /\ ReportInv)'
  BY <1>1, DiskStep, ReportStep
<1>2. ASSUME Sound PROVE Spec => [](DiskInv /\ ReportInv)
  BY <1>1, <1>2, DiskBegin, ReportBegin, PTL DEF Spec
<1> QED  BY <1>2

\* A background with somebody in it, one nobody could judge, and a cast on a
\* frame nobody judged are named to the operator when the stage is done, through
\* crashes, errors and resumes; and no cast stands where there is no room.
THEOREM DefectsReachTheOperator == Sound => (Spec => []DefectsAreReported)
<1>1. ASSUME DiskInv, ReportInv PROVE DefectsAreReported
  <2>1. SUFFICES ASSUME done PROVE
           \A s \in Shots :
             /\ cfg.gate /\ HasCast(s) /\ png[s].guard # "plate" => png[s].room # "no"
             /\ png[s].guard \in {"populated", "unknown"} => <<"background", s>> \in rows
             /\ HasCast(s) /\ png[s].room \in {"unknown", "unasked"}
                  => rows \cap {<<"unjudged", s>>, <<"unjudged", 0>>} # {}
    BY DEF DefectsAreReported, NoRoomNoCast
  <2> TAKE s \in Shots
  <2>2. dropped = {} /\ Told(s, rows)
    BY <1>1, <2>1 DEF DiskInv, Over, ReportInv, ShotsTold
  <2> QED  BY <2>2 DEF Told, BackgroundTold
<1> QED  BY <1>1, DiskAndReport, PTL

\* When the stage is done, every frame was made for the prompt its shot has, and
\* one nobody screened is reported by name or for the run.
THEOREM FramesAreOfTheirDraft ==
  Sound /\ "crash" \notin Faults => (Spec => []FramesFitTheDraft)
<1> SUFFICES ASSUME Sound, "crash" \notin Faults PROVE Spec => []FramesFitTheDraft
  OBVIOUS
<1>1. ASSUME DiskInv, ReportInv PROVE FramesFitTheDraft
  <2>1. SUFFICES ASSUME done, NEW s \in Shots PROVE
           /\ png[s].prompt = shots[s].prompt
           /\ png[s].guard = "unasked" => rows \cap {<<"background", s>>, <<"background", 0>>} # {}
    BY DEF FramesFitTheDraft
  <2>2. found = {} /\ png[s].prompt = shots[s].prompt
    BY <1>1, <2>1 DEF DiskInv, Over, ReportInv, ShotsTold, Told
  <2>3. png[s] # NoFrame
    BY <1>1, <2>1, <2>2, FrameIsThere DEF DiskInv
  <2>4. png[s].guard = "unasked" => <<"background", 0>> \in rows
    BY <1>1, <2>2, <2>3 DEF ReportInv, UnaskedTold
  <2> QED  BY <2>2, <2>4
<1> QED  BY <1>1, DiskAndReport, PTL

\* Two flags of a frame, said to be equal.
LEMMA IdleIsComplete == DiskInv /\ "undeleted" \notin Faults => CompleteMeansCompleted
<1> SUFFICES ASSUME DiskInv, "undeleted" \notin Faults, pc = "idle", NEW s \in Shots, Complete(s)
    PROVE  /\ png[s].prompt = side[s].prompt
           /\ side[s].flags.exhausted = (png[s].guard = "populated")
           /\ side[s].flags.undecidable = (png[s].guard = "unknown")
           /\ (side[s].flags.plate = "none") = (png[s].guard # "plate")
           /\ png[s].guard # "plate" => side[s].flags.roomless = (png[s].room = "no")
  BY DEF CompleteMeansCompleted
<1>1. Whole(s)
  BY DEF DiskInv, PairsHold, Written
<1>2. side[s] # NoSidecar
  BY ShotFacts DEF Complete, DiskInv, TypeOK
<1>3. png[s].prompt = side[s].prompt /\ Says(side[s].flags, png[s])
  BY <1>1, <1>2 DEF Whole, Complete
<1>4. side[s].flags.exhausted \in BOOLEAN /\ side[s].flags.undecidable \in BOOLEAN
      /\ side[s].flags.roomless \in BOOLEAN
  BY DEF DiskInv, TypeOK, Sidecar, Flags
<1>5. /\ side[s].flags.exhausted <=> png[s].guard = "populated"
      /\ side[s].flags.undecidable <=> png[s].guard = "unknown"
      /\ side[s].flags.plate = "none" <=> png[s].guard # "plate"
      /\ png[s].guard # "plate" => (side[s].flags.roomless <=> png[s].room = "no")
  BY <1>3, Zenon DEF Says
<1> QED  BY <1>3, <1>4, <1>5

\* A step writes to the shot in hand only.
LEMMA OtherShotsAreKept ==
  ASSUME TypeOK, [Next]_vars, pc # "idle", NEW s \in Shots, s # shot
  PROVE  png'[s] = png[s] /\ side'[s] = side[s]
<1>1. png \in [Shots -> Frame] /\ side \in [Shots -> Sidecar]
  BY DEF TypeOK
<1>2. CASE Talks
  BY <1>2, TalksKept
<1>3. CASE Stops
  BY <1>3, StopsKept
<1>4. CASE Generate \/ Resume \/ Return \/ Crash
  BY <1>4 DEF Generate, Resume, Return, Crash, disk
<1>5. CASE \E p \in PlateRooms : CopyPlate(p)
  BY <1>1, <1>5 DEF CopyPlate
<1>6. CASE \E v \in PersonVerdict \cup {"unasked", "unwanted"} : Settle(v)
  BY <1>1, <1>6 DEF Settle
<1>7. CASE \E v \in RoomVerdict \cup {"unasked", "unwanted"} : JudgeRoom(v)
  BY <1>1, <1>7 DEF JudgeRoom
<1>8. CASE WriteSidecar
  BY <1>1, <1>8 DEF WriteSidecar
<1>9. CASE \E cut \in BOOLEAN : SidecarFails(cut)
  BY <1>1, <1>9 DEF SidecarFails
<1>10. CASE UNCHANGED vars
  BY <1>10 DEF vars
<1> QED
  BY <1>2, <1>3, <1>4, <1>5, <1>6, <1>7, <1>8, <1>9, <1>10
  DEF Next, Step, Talks, Stops, Begin, Redo, Redraft

\* When a shot is taken up, the only write to the disk is a plate's copy.
LEMMA OnlyPlatesAtOnce ==
  ASSUME [Next]_vars, pc = "shot", ~\E p \in PlateRooms : CopyPlate(p)
  PROVE  UNCHANGED <<png, side>>
<1>1. ~Talks /\ ~Stops
  BY TalksKept, StopsKept DEF Drawing
<1> QED
  BY <1>1 DEF Next, Step, Talks, Stops, Begin, Redo, Redraft, Generate, Resume, Return, Crash,
     Settle, JudgeRoom, WriteSidecar, SidecarFails, vars, disk

\* A pass never renders again what an earlier pass completed, and the pairs it
\* takes for complete are.
THEOREM CompletedShotsAreKept ==
  Sound /\ "undeleted" \notin Faults => (Spec => CompletedIsKept)
<1> SUFFICES ASSUME Sound, "undeleted" \notin Faults PROVE Spec => CompletedIsKept
  OBVIOUS
<1> DEFINE Kept == pc # "idle" => \A s \in Shots :
                     png[s] # NoFrame /\ side[s].prompt = shots[s].prompt
                       => png'[s] = png[s] /\ side'[s] = side[s]
<1>1. ASSUME DiskInv, [Next]_vars PROVE Kept
  <2> SUFFICES ASSUME pc # "idle", NEW s \in Shots, png[s] # NoFrame,
                      side[s].prompt = shots[s].prompt
               PROVE  png'[s] = png[s] /\ side'[s] = side[s]
    OBVIOUS
  <2>1. pc # "shot" => s # shot
    BY <1>1 DEF DiskInv, SidecarsHold
  <2>2. png \in [Shots -> Frame] /\ side \in [Shots -> Sidecar]
    BY <1>1 DEF DiskInv, TypeOK
  <2>3. CASE s # shot
    BY <1>1, <2>3, OtherShotsAreKept DEF DiskInv
  <2>4. CASE s = shot
    <3>1. ~\E p \in PlateRooms : CopyPlate(p)
      BY <1>1, <2>4, DrawnHasNone DEF CopyPlate
    <3> QED  BY <1>1, <2>1, <2>4, <3>1, OnlyPlatesAtOnce
  <2> QED  BY <2>3, <2>4
<1>2. DiskInv => CompleteMeansCompleted
  BY IdleIsComplete
<1> QED  BY <1>1, <1>2, DiskAndReport, PTL DEF CompletedIsKept, Spec
=============================================================================
