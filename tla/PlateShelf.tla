----------------------------- MODULE PlateShelf -----------------------------
(* The stock plates of the rooms: an image file, a row and a manifest entry  *)
(* each.  seed_location_plates draws them and draws them again,              *)
(* label_location_plates has a model judge what is draft,                    *)
(* approve_location_plate lets the operator do it, and measure_plates asks   *)
(* again about what is approved.  The pool of a run is made of the three.    *)
EXTENDS Naturals

CONSTANTS
  Plates,
  ShelfFaults,   \* "render", "invalid", "scorer", "stop"; "late stop", "approved", "overlap"
  MaxPlates      \* renders

ASSUME PlatesBounded == MaxPlates \in Nat

VARIABLES
  disk,      \* the image in the file, 0 for none, and whether it is a valid plate
  shelf,     \* the row: none, draft, approved
  item,      \* the entry: is it there, approved, and the images its verdicts are of
  seeding,   \* the plate in hand, what is to be done with it next
  judging,   \* the labeler or the measurement: the plate, the bytes it has read
  fit,       \* the images that a judge has passed
  renders

shelfVars == <<disk, shelf, item, seeding, judging, fit, renders>>

NoItem == [made |-> FALSE, approved |-> FALSE, label |-> 0, meta |-> 0]
Fresh == [NoItem EXCEPT !.made = TRUE]
Unseeding == [at |-> "idle", on |-> CHOOSE p \in Plates : TRUE]
Unjudging == [at |-> "idle", on |-> CHOOSE p \in Plates : TRUE, read |-> 0]

ShelfInit ==
  /\ disk = [p \in Plates |-> [image |-> 0, valid |-> FALSE]]
  /\ shelf = [p \in Plates |-> "none"] /\ item = [p \in Plates |-> NoItem]
  /\ seeding = Unseeding /\ judging = Unjudging /\ fit = {} /\ renders = 0

Drawn(p) == seeding.at # "idle" /\ seeding.on = p
BeingJudged(p) == judging.at # "idle" /\ judging.on = p
InHandIs(at, p) == seeding.at = at /\ seeding.on = p
Goes(at) == seeding' = [seeding EXCEPT !.at = at]

-----------------------------------------------------------------------------
(* seed_plate. *)

\* Approved, or a draft whose file is there.
Skips(p, force, reroll) ==
  /\ shelf[p] # "none" /\ ~force
  /\ shelf[p] = "approved" \/ (~reroll /\ disk[p].valid)

Seed(p, force, reroll) ==
  /\ seeding.at = "idle" /\ renders < MaxPlates
  /\ BeingJudged(p) => "overlap" \in ShelfFaults
  /\ ~Skips(p, force, reroll)
  /\ seeding' = [at |-> "render", on |-> p]
  /\ renders' = renders + 1
  /\ UNCHANGED <<disk, shelf, item, judging, fit>>

\* The render fails and nothing has been touched.
RenderFails(p) ==
  /\ InHandIs("render", p) /\ "render" \in ShelfFaults
  /\ seeding' = Unseeding
  /\ UNCHANGED <<disk, shelf, item, judging, fit, renders>>

\* dest.write_bytes, then _valid_plate: what is not valid stays in the file.
Write(p) ==
  /\ InHandIs("render", p)
  /\ \E valid \in BOOLEAN :
       /\ disk' = [disk EXCEPT ![p] = [image |-> renders, valid |-> valid]]
       /\ IF valid THEN Goes("written")
          ELSE /\ "invalid" \in ShelfFaults
               /\ shelf[p] = "approved" => "approved" \in ShelfFaults
               /\ seeding' = Unseeding
  /\ UNCHANGED <<shelf, item, judging, fit, renders>>

DeleteRow(p) ==
  /\ InHandIs("written", p)
  /\ shelf' = [shelf EXCEPT ![p] = "none"]
  /\ Goes("deleted")
  /\ UNCHANGED <<disk, item, judging, fit, renders>>

\* add_location_plate: the row,
InsertRow(p) ==
  /\ InHandIs("deleted", p)
  /\ shelf' = [shelf EXCEPT ![p] = "draft"]
  /\ Goes("inserted")
  /\ UNCHANGED <<disk, item, judging, fit, renders>>

\* Mutant: the entry keeps what was recorded of the image before.
RegisterOver(p) ==
  /\ InHandIs("inserted", p)
  /\ item' = [item EXCEPT ![p].made = TRUE, ![p].approved = FALSE]
  /\ seeding' = Unseeding
  /\ UNCHANGED <<disk, shelf, judging, fit, renders>>
\* and add_asset: an entry without a verdict.
Register(p) ==
  /\ InHandIs("inserted", p)
  /\ item' = [item EXCEPT ![p] = Fresh]
  /\ seeding' = Unseeding
  /\ UNCHANGED <<disk, shelf, judging, fit, renders>>

\* The script is stopped; between the file and the entry it matters.
Stop ==
  /\ \/ seeding.at \in {"render", "deleted"} /\ "stop" \in ShelfFaults
     \/ seeding.at \in {"written", "inserted"} /\ "late stop" \in ShelfFaults
  /\ seeding' = Unseeding
  /\ UNCHANGED <<disk, shelf, item, judging, fit, renders>>

-----------------------------------------------------------------------------
(* The judges. *)

Begins(what, p) ==
  /\ judging.at = "idle"
  /\ Drawn(p) => "overlap" \in ShelfFaults
  /\ judging' = [at |-> what, on |-> p, read |-> disk[p].image]
  /\ UNCHANGED <<disk, shelf, item, seeding, fit, renders>>

Score(p) == shelf[p] = "draft" /\ Begins("score", p)
Measure(p) == shelf[p] = "approved" /\ Begins("measure", p)

Judged(p) == judging.on = p /\ judging' = Unjudging
ScorerFails ==
  /\ judging.at # "idle" /\ "scorer" \in ShelfFaults
  /\ judging' = Unjudging
  /\ UNCHANGED <<disk, shelf, item, seeding, fit, renders>>

\* record_source is refused where there is no entry, and nothing follows.
Scored(p) ==
  /\ judging.at = "score" /\ Judged(p)
  /\ \E passes \in BOOLEAN :
       /\ fit' = IF passes THEN fit \cup {judging.read} ELSE fit
       /\ item' = IF item[p].made
                  THEN [item EXCEPT ![p].label = judging.read,
                                    ![p].approved = @ \/ passes]
                  ELSE item
       /\ shelf' = IF item[p].made /\ passes /\ shelf[p] # "none"
                   THEN [shelf EXCEPT ![p] = "approved"] ELSE shelf
  /\ UNCHANGED <<disk, seeding, renders>>

Measured(p) ==
  /\ judging.at = "measure" /\ Judged(p)
  /\ item' = IF item[p].made THEN [item EXCEPT ![p].meta = judging.read] ELSE item
  /\ UNCHANGED <<disk, shelf, seeding, fit, renders>>

\* approve_location_plate, by an operator who has looked at a plate that is one.
ApprovePlate(p) ==
  /\ shelf[p] = "draft" /\ disk[p].valid /\ item[p].made
  /\ Drawn(p) => "overlap" \in ShelfFaults
  /\ fit' = fit \cup {disk[p].image}
  /\ item' = [item EXCEPT ![p].approved = TRUE]
  /\ shelf' = [shelf EXCEPT ![p] = "approved"]
  /\ UNCHANGED <<disk, seeding, judging, renders>>

ShelfNext ==
  \/ \E p \in Plates :
       \/ \E force, reroll \in BOOLEAN : Seed(p, force, reroll)
       \/ RenderFails(p) \/ Write(p) \/ DeleteRow(p) \/ InsertRow(p) \/ Register(p)
       \/ Score(p) \/ Scored(p) \/ Measure(p) \/ Measured(p) \/ ApprovePlate(p)
  \/ Stop \/ ScorerFails

\* resolve_stock_plates: approved rows, with the verdicts of the entry.
Offered(p) == shelf[p] = "approved"
Verdicts(p) == {item[p].label, item[p].meta} \ {0}

(* A plate that a run may show is the image that was judged fit, and what is *)
(* said of it (is there a person in the room, room to stand) was said of     *)
(* this image and not of the one before it.  (Between the file and the row   *)
(* the seeder awaits nothing.)                                               *)
OfferedAsJudged ==
  \A p \in Plates : Offered(p) /\ ~InHandIs("written", p) =>
    disk[p].image \in fit /\ Verdicts(p) \subseteq {disk[p].image}
=============================================================================
