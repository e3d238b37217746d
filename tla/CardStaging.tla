----------------------------- MODULE CardStaging -----------------------------
(* The two scripts that replace character cards.  seed_stock_cast --stage   *)
(* draws a set (a key in a pose) into the directory of the next style epoch *)
(* and leaves the old and the new description of the key beside it;         *)
(* approve_stock_cast promotes all that is staged and begins the next       *)
(* epoch, or rejects a key's directory and puts the old description back.   *)
(* Each is a process of its own, beside the runs and the operator.          *)
EXTENDS Naturals, FiniteSets

CONSTANTS
  Sets,          \* the card sets that may be staged
  KeyOf,         \* the character of each
  Standing,      \* those in the standing pose
  Bare,          \* the characters that have no description yet
  StagingFaults, \* "angle", "read", "raise", "kill"; "restage", "torn", "overlap", "hint"
  MaxStages, MaxEdits

Keyed == {KeyOf[s] : s \in Sets}
SetsOf(c) == {s \in Sets : KeyOf[s] = c}

ASSUME SetsKnown == IsFiniteSet(Sets) /\ Standing \subseteq Sets /\ Bare \subseteq Keyed
ASSUME StagesBounded == MaxStages \in Nat /\ MaxEdits \in Nat

VARIABLES
  epoch,      \* style_epoch of the manifest
  files,      \* per set and epoch: the staging that drew its front, and its others
  beside,     \* per key and epoch: is there a directory, and its two text files
  text,       \* visual_descriptor
  shown,      \* per set: the epoch its published paths point into, 0 for an older one
  entry,      \* per set: epoch and files its manifest entries were hashed from
  published,  \* the files each set had when its paths were published
  hints,      \* per key: the front its approved hint cards were drawn from
  posing,     \* a front a run is drawing a hint card from
  stager, approver,
  told,       \* the keys the scripts have warned of
  vouched,    \* the descriptions that went live with a promoted set
  stages, edited

stagingVars == <<epoch, files, beside, text, shown, entry, published, hints,
                 posing, stager, approver, told, vouched, stages, edited>>
live == <<shown, entry, published, hints, vouched>>
bounds == <<stages, edited>>

Epochs == 1 .. MaxStages + 2
NoFiles == [front |-> 0, others |-> 0]
None == <<"none", 0>>
Own == <<"own", 0>>
Stock == <<"stock", 0>>
NoDirectory == [made |-> FALSE, pre |-> None, post |-> None]
NoCard == MaxStages + 1
NoStager == [at |-> "idle", on |-> CHOOSE s \in Sets : TRUE, slot |-> 0, into |-> 0]
NoApprover == [at |-> "idle", todo |-> {}, done |-> {}]

StagingInit ==
  /\ epoch = 1 /\ files = [s \in Sets |-> [e \in Epochs |-> NoFiles]]
  /\ beside = [c \in Keyed |-> [e \in Epochs |-> NoDirectory]]
  /\ text = [c \in Keyed |-> IF c \in Bare THEN None ELSE Own]
  /\ shown = [s \in Sets |-> 0]
  /\ entry = [s \in Sets |-> [at |-> 0, of |-> NoFiles]]
  /\ published = [s \in Sets |-> NoFiles]
  /\ hints = [c \in Keyed |-> 0] /\ posing = [c \in Keyed |-> NoCard]
  /\ stager = NoStager /\ approver = NoApprover
  /\ told = {} /\ vouched = {} /\ stages = 0 /\ edited = 0

-----------------------------------------------------------------------------
(* seed_key with stage: each angle is awaited. *)

Stages(at) == stager.at = at
InHand == KeyOf[stager.on]
Whole(f) == f.front # 0 /\ f.others # 0
Touched(f) == f.front # 0 \/ f.others # 0
\* A set staged before is drawn over, file by file: what stops half-way leaves
\* a set of two stagings.
Mixes == ~Stages("front") /\ files[stager.on][stager.into].others # 0

\* _snapshot_prestage_descriptor, once; the directory is made in any case.
Snapshot(c) ==
  LET there == beside[c][epoch + 1] IN
  [there EXCEPT !.made = TRUE, !.pre = IF @ = None THEN text[c] ELSE @]

BeginStage(s) ==
  LET c == KeyOf[s] IN
  /\ Stages("idle") /\ stages < MaxStages
  /\ approver.at # "idle" => "overlap" \in StagingFaults
  /\ beside' = [beside EXCEPT ![c][epoch + 1] = Snapshot(c)]
  /\ text' = [text EXCEPT ![c] = Stock]
  /\ stager' = [at |-> "front", on |-> s, slot |-> epoch + 1, into |-> epoch + 1]
  /\ stages' = stages + 1
  /\ UNCHANGED <<epoch, files, live, posing, approver, told, edited>>

\* _record_poststage_descriptor, in the finally.
Recorded ==
  IF beside[InHand][stager.slot].made
  THEN [beside EXCEPT ![InHand][stager.slot].post = text[InHand]]
  ELSE beside

Draw(part, next) ==
  /\ files' = [files EXCEPT ![stager.on][stager.into] = [@ EXCEPT ![part] = stages]]
  /\ stager' = [stager EXCEPT !.at = next]

\* The script ends; it raises when fewer than four cards were drawn.
StageEnds == stager' = NoStager /\ beside' = Recorded

DrawFront ==
  /\ Stages("front")
  /\ \/ Draw("front", "read") /\ UNCHANGED beside
     \/ "angle" \in StagingFaults /\ StageEnds /\ UNCHANGED files
  /\ UNCHANGED <<epoch, text, live, posing, approver, told, bounds>>

\* enrich_descriptor_from_references, then the epoch is asked for again.
ReadFront ==
  /\ Stages("read")
  /\ \/ text' = [text EXCEPT ![InHand] = <<"read", stages>>]
     \/ "read" \in StagingFaults /\ UNCHANGED text
  /\ stager' = [stager EXCEPT !.at = "others", !.into = epoch + 1]
  /\ UNCHANGED <<epoch, files, beside, live, posing, approver, told, bounds>>

DrawOthers ==
  /\ Stages("others")
  /\ StageEnds
  /\ \/ files' = [files EXCEPT ![stager.on][stager.into].others = stages]
     \/ /\ "angle" \in StagingFaults /\ UNCHANGED files
        /\ Mixes => "restage" \in StagingFaults
  /\ UNCHANGED <<epoch, text, live, posing, approver, told, bounds>>

\* The process is killed, and the finally with it.
StageKilled ==
  /\ ~Stages("idle") /\ "kill" \in StagingFaults
  /\ Mixes => "restage" \in StagingFaults
  /\ stager' = NoStager
  /\ UNCHANGED <<epoch, files, beside, text, live, posing, approver, told, bounds>>

-----------------------------------------------------------------------------
(* approve_stock_cast. *)

Approves(at) == approver.at = at
Slot == epoch + 1
Staged == {s \in Sets : Touched(files[s][Slot])}

\* _discover: a set that is not whole, a directory without any.
Blocked ==
  \/ \E s \in Staged : ~Whole(files[s][Slot])
  \/ \E c \in Keyed : beside[c][Slot].made /\ SetsOf(c) \cap Staged = {}

\* Everything that is staged, or nothing.
BeginPromotion ==
  /\ Approves("idle") /\ Staged # {} /\ ~Blocked
  /\ ~Stages("idle") => "overlap" \in StagingFaults
  /\ (\E c \in Keyed : posing[c] # NoCard) => "hint" \in StagingFaults
  /\ approver' = [at |-> "hash", todo |-> Staged, done |-> {}]
  /\ UNCHANGED <<epoch, files, beside, text, live, posing, stager, told, bounds>>

\* One set: the manifest entries, the published paths, the hint cards.
Hash(s) ==
  /\ Approves("hash") /\ s \in approver.todo \ approver.done
  /\ entry' = [entry EXCEPT ![s] = [at |-> Slot, of |-> files[s][Slot]]]
  /\ approver' = [approver EXCEPT !.at = "publish"]
  /\ UNCHANGED <<epoch, files, beside, text, shown, published, hints, vouched,
                 posing, stager, told, bounds>>

Hashed(s) == s \in approver.todo \ approver.done /\ entry[s].at = Slot

GoLive(s) ==
  /\ Approves("publish") /\ Hashed(s)
  /\ shown' = [shown EXCEPT ![s] = Slot]
  /\ published' = [published EXCEPT ![s] = files[s][Slot]]
  /\ vouched' = vouched \cup {text[KeyOf[s]]}
  /\ approver' =
       IF s \in Standing THEN [approver EXCEPT !.at = "retire"]
       ELSE [approver EXCEPT !.at = "hash", !.done = @ \cup {s}]
  /\ UNCHANGED <<epoch, files, beside, text, entry, hints, posing, stager, told, bounds>>

\* _retire_special_pose_cards: they were drawn from the front before.
RetireHints(s) ==
  /\ Approves("retire") /\ Hashed(s) /\ shown[s] = Slot
  /\ hints' = [hints EXCEPT ![KeyOf[s]] = NoCard]
  /\ approver' = [approver EXCEPT !.at = "hash", !.done = @ \cup {s}]
  /\ UNCHANGED <<epoch, files, beside, text, shown, entry, published, vouched,
                 posing, stager, told, bounds>>

Raises ==
  /\ approver.at \in {"hash", "publish", "retire"} /\ "raise" \in StagingFaults
  /\ approver' = [approver EXCEPT !.at = "raised"]
  /\ UNCHANGED <<epoch, files, beside, text, live, posing, stager, told, bounds>>

Finished ==
  Approves("raised") \/ (Approves("hash") /\ approver.todo = approver.done)
Missed == {KeyOf[s] : s \in approver.todo \ approver.done}

Cleared ==
  [c \in Keyed |->
    IF \E s \in approver.done : KeyOf[s] = c
    THEN [beside[c] EXCEPT ![Slot].pre = None, ![Slot].post = None]
    ELSE beside[c]]

\* Mutant: the epoch is bumped only when every set went live.
FinishOnSuccess ==
  /\ Finished
  /\ beside' = Cleared /\ told' = told \cup Missed
  /\ epoch' = IF Missed = {} THEN epoch + 1 ELSE epoch
  /\ approver' = NoApprover
  /\ UNCHANGED <<files, text, live, posing, stager, bounds>>
\* The finally: whatever went live is behind the next epoch from now on.
Finish ==
  /\ Finished
  /\ beside' = Cleared /\ told' = told \cup Missed
  /\ epoch' = epoch + 1
  /\ approver' = NoApprover
  /\ UNCHANGED <<files, text, live, posing, stager, bounds>>

PromotionKilled ==
  /\ ~Approves("idle") /\ "torn" \in StagingFaults
  /\ approver' = NoApprover
  /\ UNCHANGED <<epoch, files, beside, text, live, posing, stager, told, bounds>>

\* _reject: the old text comes back only in place of what the stage has left.
Reject(c) ==
  LET there == beside[c][Slot] IN
  /\ Approves("idle") /\ there.made
  /\ ~Stages("idle") => "overlap" \in StagingFaults
  /\ IF there.pre = None \/ text[c] = there.pre THEN UNCHANGED <<text, told>>
     ELSE IF there.post # None /\ text[c] = there.post
     THEN text' = [text EXCEPT ![c] = there.pre] /\ UNCHANGED told
     ELSE told' = told \cup {c} /\ UNCHANGED text
  /\ beside' = [beside EXCEPT ![c][Slot] = NoDirectory]
  /\ files' = [s \in Sets |->
       IF KeyOf[s] = c THEN [files[s] EXCEPT ![Slot] = NoFiles] ELSE files[s]]
  /\ UNCHANGED <<epoch, live, posing, stager, approver, bounds>>

-----------------------------------------------------------------------------
(* The character page, and a run that needs a pose the key has no card for. *)

EditText(c) ==
  /\ edited < MaxEdits /\ edited' = edited + 1
  /\ text' = [text EXCEPT ![c] = <<"edit", edited'>>]
  /\ UNCHANGED <<epoch, files, beside, live, posing, stager, approver, told, stages>>

FrontOf(s) == IF shown[s] = 0 THEN 0 ELSE files[s][shown[s]].front
Pose(s) ==
  LET c == KeyOf[s] IN
  /\ s \in Standing /\ hints[c] = NoCard /\ posing[c] = NoCard
  /\ ~Approves("idle") => "hint" \in StagingFaults
  /\ posing' = [posing EXCEPT ![c] = FrontOf(s)]
  /\ UNCHANGED <<epoch, files, beside, text, live, stager, approver, told, bounds>>
SaveHint(c) ==
  /\ posing[c] # NoCard
  /\ hints' = [hints EXCEPT ![c] = posing[c]] /\ posing' = [posing EXCEPT ![c] = NoCard]
  /\ UNCHANGED <<epoch, files, beside, text, shown, entry, published, vouched,
                 stager, approver, told, bounds>>

StagingNext ==
  \/ \E s \in Sets : BeginStage(s) \/ Hash(s) \/ GoLive(s) \/ RetireHints(s) \/ Pose(s)
  \/ DrawFront \/ ReadFront \/ DrawOthers \/ StageKilled
  \/ BeginPromotion \/ Raises \/ Finish \/ PromotionKilled
  \/ \E c \in Keyed : Reject(c) \/ EditText(c) \/ SaveHint(c)
StagingSpec == StagingInit /\ [][StagingNext]_stagingVars

-----------------------------------------------------------------------------
(* "An epoch is promoted atomically": what is live is there as it was when   *)
(* it went live, whatever is staged, rejected or fails later; it is of one   *)
(* staging, its manifest entries vouch for it, and no approved hint card was *)
(* drawn from a front before it.  What is left in a directory of an epoch    *)
(* that has begun either went live or was told of.                           *)
Kept(s) ==
  LET f == files[s][shown[s]] IN
  /\ f = published[s] /\ f.front = f.others /\ f.front # 0
  /\ entry[s].at = shown[s] => entry[s].of = f
NothingStranded ==
  \A s \in Sets : \A e \in 1 .. epoch :
    Touched(files[s][e]) => shown[s] >= e \/ KeyOf[s] \in told
HintsOfTheFront ==
  \A s \in Standing :
    hints[KeyOf[s]] \in {NoCard, FrontOf(s)} \/ KeyOf[s] \in told
LiveIsKept ==
  /\ \A s \in Sets : shown[s] # 0 => Kept(s)
  /\ Approves("idle") => NothingStranded /\ HintsOfTheFront

(* A rejected staging leaves no description of a deleted image in the live   *)
(* row: it holds what the operator wrote or what went live with a set, or    *)
(* the script has said that it does not.  (A key without a description       *)
(* before keeps what staging gave it.)                                       *)
RejectedTextGoes ==
  \A c \in Keyed \ (Bare \cup told) :
    (Approves("idle") /\ ~beside[c][Slot].made) =>
      text[c][1] \in {"own", "edit"} \/ text[c] \in vouched

(* A staging goes live as a whole or leaves nothing behind.                  *)
StagingIsAllOrNothing == LiveIsKept /\ RejectedTextGoes
=============================================================================
