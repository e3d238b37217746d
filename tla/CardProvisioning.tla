--------------------------- MODULE CardProvisioning ---------------------------
(***************************************************************************)
(* How the characters of a run get the cards the video stage places.       *)
(* Before the graph starts, _ensure_character_reference makes a row for    *)
(* the SCP and draws its angles; after the scenario is approved,           *)
(* _ensure_special_pose_cards draws the hinted poses and                   *)
(* _ensure_derived_entity_cards the SCP's offshoots (SCP-049-2).  All      *)
(* three are best effort: a miss is reported, never raised.                *)
(*                                                                         *)
(* Rows, cards and image files are shared by every run of the SCP and by   *)
(* the character page.  Runs are tasks of one event loop: from one await   *)
(* to the next a run has the loop to itself.  The page's create, update    *)
(* and delete handlers are threads and may come between any two steps.     *)
(*                                                                         *)
(* Definitions marked "Mutant" are slips a change to the code could make;  *)
(* no action uses them.                                                    *)
(***************************************************************************)
EXTENDS Naturals, Sequences, FiniteSets, SequencesExt

CONSTANTS
  Runs,         \* runs of one SCP
  Entity,       \* the SCP itself
  Offshoots,    \* the derived keys of the cast, in the order of the shots
  Authored,     \* those with an entry in DERIVED_DESCRIPTORS
  Hints,        \* the cast's <<key, pose hint>> pairs, in the order of the shots
  Angles,       \* CANONICAL_ANGLES, front first
  Visited,      \* the keys whose character page is open
  PoseCap,      \* special_pose_max_per_run
  DerivedCap,   \* derived_entity_max_per_run
  NoRow,        \* no character row
  Free,         \* no run is between two awaits
  MaxDisturbances  \* bound: requests of the page and restarts together

ASSUME AnglesAssumption == Angles \in Seq(STRING) /\ Angles # << >> /\ Angles[1] = "front"
ASSUME CapsAssumption == PoseCap \in Nat /\ DerivedCap \in Nat
ASSUME BoundAssumption == MaxDisturbances \in Nat
ASSUME OffshootsAssumption == Offshoots \in Seq(ToSet(Offshoots)) /\ Entity \notin ToSet(Offshoots)
ASSUME HintsAssumption == Hints \in Seq(({Entity} \cup ToSet(Offshoots)) \X STRING)

Derived == ToSet(Offshoots)
Keys == {Entity} \cup Derived
ASSUME VisitedAssumption == Visited \subseteq Keys
Poses == ToSet(Hints)
Views == ToSet(Angles)

\* A row: what its angle_*_path columns hold, and whether it has a
\* visual_descriptor.
Row == [id: Nat \ {0}, described: BOOLEAN, shown: SUBSET Views]
ASSUME NoRowAssumption == NoRow \notin Row

\* Who painted the person in an angle's file: the run that drew the front it
\* was drawn from.  The entity is drawn from a reference image instead.
Nobody == "nobody"
Reference == "reference"
Painters == Runs \cup {Nobody, Reference}

Provisioning ==
  {"create", "search", "describe", "ask", "save", "adopt", "angles", "image",
   "reading"}
Pc == {"new", "scenario", "film"} \cup Provisioning

VARIABLES
  rows,     \* the characters table, one row per key (scp_id is unique)
  art,      \* the image files
  cards,    \* character_cards: the row each pose was drawn from, 0 if none
  task,     \* the runs
  loop,     \* the run between two awaits
  lastId,   \* ids given to rows so far
  edits,    \* requests of the page so far
  crashes   \* restarts so far

vars == <<rows, art, cards, task, loop, lastId, edits, crashes>>

\* A run's locals: its row, the keys or hints it has left, by their place in the
\* cast (the first in hand), the next angle and who it shows, the angles drawn,
\* the gaps it has reported.
Task ==
  [pc: Pc, id: Nat, left: SUBSET Nat, angle: 1 .. Len(Angles) + 1,
   painter: Painters, drawn: SUBSET Views, told: SUBSET (Keys \cup Poses)]

TypeCorrect ==
  /\ rows \in [Keys -> Row \cup {NoRow}]
  /\ art \in [Keys -> [Views -> Painters]]
  /\ cards \in [Poses -> Nat]
  /\ task \in [Runs -> Task]
  /\ loop \in Runs \cup {Free}
  /\ lastId \in Nat
  /\ edits \in Nat
  /\ crashes \in Nat

Idle(pc) ==
  [pc |-> pc, id |-> 0, left |-> {}, angle |-> 1,
   painter |-> Nobody, drawn |-> {}, told |-> {}]

Init ==
  /\ rows = [k \in Keys |-> NoRow]
  /\ art = [k \in Keys |-> [a \in Views |-> Nobody]]
  /\ cards = [p \in Poses |-> 0]
  /\ task = [r \in Runs |-> Idle("new")]
  /\ loop = Free
  /\ lastId = 0
  /\ edits = 0
  /\ crashes = 0

------------------------------------------------------------------------------
(* The service. *)

Present(k) == rows[k] # NoRow
Shown(k) == IF Present(k) THEN rows[k].shown ELSE {}
Described(k) == Present(k) /\ rows[k].described

\* check_existing_character finds the row of a key, update_character and
\* delete_character the row of an id: a LookupError when that one is gone.
Holds(r, k) == Present(k) /\ rows[k].id = task[r].id

Insert(k, described) ==
  /\ rows' = [rows EXCEPT ![k] =
       [id |-> lastId + 1, described |-> described, shown |-> {}]]
  /\ lastId' = lastId + 1

\* delete_character takes the key's cards along.
Erase(k) ==
  /\ rows' = [rows EXCEPT ![k] = NoRow]
  /\ cards' = [p \in Poses |-> IF p[1] = k THEN 0 ELSE cards[p]]

At(r, pc) == task[r].pc = pc /\ loop \in {Free, r}
GoesOn(r) == loop' = r
Awaits == loop' = Free

Goto(r, pc) == task' = [task EXCEPT ![r].pc = pc]

\* The end of a phase: only what was reported outlives it.
Leave(r, pc, gaps) ==
  task' = [task EXCEPT ![r] = [Idle(pc) EXCEPT !.told = task[r].told \cup gaps]]

\* The run is through with the first of its list.
Advance(r, pc, gaps) ==
  task' = [task EXCEPT ![r] =
    [Idle(pc) EXCEPT !.left = task[r].left \ {Min(task[r].left)},
                     !.told = task[r].told \cup gaps]]

\* A cap cuts a list in two: what is tried, and what is reported.
Within(cap, list) == {i \in list : Cardinality({j \in list : j < i}) < cap}
Beyond(cap, list) == list \ Within(cap, list)

Drawing(r) == task[r].angle <= Len(Angles)
View(r) == Angles[task[r].angle]

\* The hint, the offshoot in hand, and the key whose angles the run draws.
Hinted(r) == Hints[Min(task[r].left)]
Offshoot(r) == Offshoots[Min(task[r].left)]
Key(r) == IF task[r].left = {} THEN Entity ELSE Offshoot(r)

------------------------------------------------------------------------------
(* generate_candidates_from_reference, for one angle.                        *)

\* A key without a descriptor is refused.  A derived key's other angles need
\* the front this run has drawn, and show who is in its file when asked for.
Generate(r) ==
  LET k == Key(r)
      anchored == k = Entity \/ View(r) = "front" \/ "front" \in task[r].drawn
  IN
  /\ At(r, "angles") /\ Drawing(r)
  /\ IF Described(k) /\ anchored
     THEN /\ task' = [task EXCEPT ![r].pc = "image", ![r].painter =
                       IF k = Entity THEN Reference
                       ELSE IF View(r) = "front" THEN r ELSE art[k]["front"]]
          /\ Awaits
     ELSE task' = [task EXCEPT ![r].angle = @ + 1] /\ GoesOn(r)
  /\ UNCHANGED <<rows, art, cards, lastId, edits, crashes>>

\* A failed angle is left out.  The front of a derived key is described next.
Generated(r) ==
  /\ At(r, "image")
  /\ \/ /\ art' = [art EXCEPT ![Key(r)][View(r)] = task[r].painter]
        /\ LET described == Key(r) \in Derived /\ View(r) = "front"
           IN  /\ task' = [task EXCEPT
                    ![r].pc = IF described THEN "reading" ELSE "angles",
                    ![r].angle = @ + 1, ![r].painter = Nobody,
                    ![r].drawn = @ \cup {View(r)}]
               /\ IF described THEN Awaits ELSE GoesOn(r)
     \/ /\ task' = [task EXCEPT ![r].pc = "angles", ![r].angle = @ + 1,
                                ![r].painter = Nobody]
        /\ GoesOn(r)
        /\ UNCHANGED art
  /\ UNCHANGED <<rows, cards, lastId, edits, crashes>>

------------------------------------------------------------------------------
(* _ensure_character_reference, once per run, before its graph starts. *)

Check(r) ==
  /\ At(r, "new")
  /\ IF Present(Entity)
     THEN Goto(r, "scenario") /\ Awaits
     ELSE Goto(r, "create") /\ GoesOn(r)
  /\ UNCHANGED <<rows, art, cards, lastId, edits, crashes>>

\* The unique column turns a row that has come up meanwhile into an
\* IntegrityError, which counts as "another run is already handling this".
Create(r) ==
  /\ At(r, "create")
  /\ \/ /\ Present(Entity)
        /\ Goto(r, "scenario")
        /\ UNCHANGED <<rows, lastId>>
     \/ /\ ~Present(Entity)
        /\ Insert(Entity, FALSE)
        /\ task' = [task EXCEPT ![r].pc = "search", ![r].id = lastId']
  /\ Awaits
  /\ UNCHANGED <<art, cards, edits, crashes>>

\* Mutant: the failure is reported and the row stays.
AbandonInPlace(r) ==
  Leave(r, "scenario", {Entity}) /\ Awaits /\ UNCHANGED <<rows, cards>>

\* The total failure: the row the run made is deleted again, for the next run
\* to try.
Abandon(r) ==
  /\ IF Holds(r, Entity) THEN Erase(Entity) ELSE UNCHANGED <<rows, cards>>
  /\ Leave(r, "scenario", {Entity})
  /\ Awaits

Search(r) ==
  /\ At(r, "search")
  /\ \/ /\ Present(Entity)
        /\ Goto(r, "describe")
        /\ Awaits
        /\ UNCHANGED <<rows, cards>>
     \/ Abandon(r)
  /\ UNCHANGED <<art, lastId, edits, crashes>>

\* Without a descriptor, or without the row to store it in, the run goes on.
Describe(r) ==
  /\ At(r, "describe")
  /\ \/ /\ Holds(r, Entity)
        /\ rows' = [rows EXCEPT ![Entity].described = TRUE]
     \/ UNCHANGED rows
  /\ Goto(r, "angles")
  /\ GoesOn(r)
  /\ UNCHANGED <<art, cards, lastId, edits, crashes>>

Publish(r) ==
  /\ At(r, "angles") /\ ~Drawing(r) /\ Key(r) = Entity
  /\ IF task[r].drawn # {} /\ Holds(r, Entity)
     THEN /\ rows' = [rows EXCEPT ![Entity].shown = @ \cup task[r].drawn]
          /\ Leave(r, "scenario", {})
          /\ Awaits
          /\ UNCHANGED cards
     ELSE Abandon(r)
  /\ UNCHANGED <<art, lastId, edits, crashes>>

------------------------------------------------------------------------------
(* _ensure_special_pose_cards, when the scenario is approved. *)

Approve(r) ==
  LET missing == {i \in DOMAIN Hints : cards[Hints[i]] = 0} IN
  /\ At(r, "scenario")
  /\ task' = [task EXCEPT
       ![r].pc = "ask",
       ![r].left = Within(PoseCap, missing),
       ![r].told = @ \cup {Hints[i] : i \in Beyond(PoseCap, missing)}]
  /\ GoesOn(r)
  /\ UNCHANGED <<rows, art, cards, lastId, edits, crashes>>

\* A pose is anchored on the front of its character as it is when asked for.
Anchored(k) == "front" \in Shown(k) /\ Described(k)

Ask(r) ==
  /\ At(r, "ask") /\ task[r].left # {}
  /\ LET k == Hinted(r)[1] IN
     IF Anchored(k)
     THEN /\ task' = [task EXCEPT ![r].pc = "save", ![r].id = rows[k].id]
          /\ Awaits
     ELSE Advance(r, "ask", {Hinted(r)}) /\ GoesOn(r)
  /\ UNCHANGED <<rows, art, cards, lastId, edits, crashes>>

\* save_card asks nothing of the characters table.
Save(r) ==
  /\ At(r, "save")
  /\ \/ /\ cards' = [cards EXCEPT ![Hinted(r)] = task[r].id]
        /\ Advance(r, "ask", {})
     \/ Advance(r, "ask", {Hinted(r)}) /\ UNCHANGED cards
  /\ GoesOn(r)
  /\ UNCHANGED <<rows, art, lastId, edits, crashes>>

------------------------------------------------------------------------------
(* After that, _ensure_derived_entity_cards and                             *)
(* generate_cards_from_descriptor.                                          *)

\* The list is made once; a key on it may have got a row, and even cards, from
\* another run by the time it is reached.
Plan(r) ==
  LET missing == {i \in DOMAIN Offshoots : ~Present(Offshoots[i])}
      drawable == {i \in missing : Offshoots[i] \in Authored}
      passed == (missing \ drawable) \cup Beyond(DerivedCap, drawable)
  IN
  /\ At(r, "ask") /\ task[r].left = {}
  /\ task' = [task EXCEPT
       ![r].pc = "adopt",
       ![r].left = Within(DerivedCap, drawable),
       ![r].told = @ \cup {Offshoots[i] : i \in passed}]
  /\ GoesOn(r)
  /\ UNCHANGED <<rows, art, cards, lastId, edits, crashes>>

\* Mutant: the key gets a new row, whatever is in the old one.
AdoptAfresh(r) ==
  /\ At(r, "adopt") /\ task[r].left # {}
  /\ Insert(Offshoot(r), TRUE)
  /\ task' = [task EXCEPT ![r].pc = "angles", ![r].id = lastId']
  /\ GoesOn(r)
  /\ UNCHANGED <<art, cards, edits, crashes>>

\* _ensure_character, and the authored look as the descriptor.
Adopt(r) ==
  /\ At(r, "adopt") /\ task[r].left # {}
  /\ LET k == Offshoot(r) IN
     IF Present(k)
     THEN /\ rows' = [rows EXCEPT ![k].described = TRUE]
          /\ task' = [task EXCEPT ![r].pc = "angles", ![r].id = rows[k].id]
          /\ UNCHANGED lastId
     ELSE /\ Insert(k, TRUE)
          /\ task' = [task EXCEPT ![r].pc = "angles", ![r].id = lastId']
  /\ GoesOn(r)
  /\ UNCHANGED <<art, cards, edits, crashes>>

\* The roll back of a derived key goes by the key, whoever made the row, and
\* spares one that has a front.
GiveUp(r) ==
  LET k == Offshoot(r) IN
  /\ IF Present(k) /\ "front" \notin Shown(k)
     THEN Erase(k) ELSE UNCHANGED <<rows, cards>>
  /\ Advance(r, "adopt", {k})

\* What the vision model says of the front is appended to the descriptor, in
\* the row the run adopted.
ReadBack(r) ==
  /\ At(r, "reading")
  /\ \/ Goto(r, "angles") /\ UNCHANGED <<rows, cards>>
     \/ ~Holds(r, Offshoot(r)) /\ GiveUp(r)
  /\ GoesOn(r)
  /\ UNCHANGED <<art, lastId, edits, crashes>>

\* Mutant: the row is taken to be there still.
SettleTrusting(r) ==
  LET k == Offshoot(r) IN
  /\ At(r, "angles") /\ ~Drawing(r) /\ Key(r) \in Derived
  /\ IF task[r].drawn # {}
     THEN /\ Holds(r, k)
          /\ rows' = [rows EXCEPT ![k].shown = @ \cup task[r].drawn]
          /\ Advance(r, "adopt", {})
          /\ UNCHANGED cards
     ELSE GiveUp(r)
  /\ GoesOn(r)
  /\ UNCHANGED <<art, lastId, edits, crashes>>

\* A run that has drawn nothing itself is content with another's front.
Settle(r) ==
  LET k == Offshoot(r)
      mine == task[r].drawn # {} /\ Holds(r, k)
      anothers == task[r].drawn = {} /\ "front" \in Shown(k)
  IN
  /\ At(r, "angles") /\ ~Drawing(r) /\ Key(r) \in Derived
  /\ CASE mine -> /\ rows' = [rows EXCEPT ![k].shown = @ \cup task[r].drawn]
                  /\ Advance(r, "adopt", {})
                  /\ UNCHANGED cards
       [] anothers -> Advance(r, "adopt", {}) /\ UNCHANGED <<rows, cards>>
       [] OTHER -> GiveUp(r)
  /\ GoesOn(r)
  /\ UNCHANGED <<art, lastId, edits, crashes>>

\* The rest of the run places the cards there are.
Film(r) ==
  /\ At(r, "adopt") /\ task[r].left = {}
  /\ Leave(r, "film", {})
  /\ Awaits
  /\ UNCHANGED <<rows, art, cards, lastId, edits, crashes>>

------------------------------------------------------------------------------
(* The character page: routes/characters.py. *)

Disturbable == edits + crashes < MaxDisturbances

Request == Disturbable /\ edits' = edits + 1

PageCreate(k) ==
  /\ Request /\ ~Present(k)
  /\ Insert(k, FALSE)
  /\ UNCHANGED <<art, cards, task, loop, crashes>>

PageDescribe(k) ==
  /\ Request /\ Present(k)
  /\ rows' = [rows EXCEPT ![k].described = TRUE]
  /\ UNCHANGED <<art, cards, task, loop, lastId, crashes>>

PageDelete(k) ==
  /\ Request /\ Present(k)
  /\ Erase(k)
  /\ UNCHANGED <<art, task, loop, lastId, crashes>>

\* A candidate that is drawn is selected at once, by a task of the loop.
PageDraw(k, a) ==
  /\ Request /\ Described(k) /\ loop = Free
  /\ rows' = [rows EXCEPT ![k].shown = @ \cup {a}]
  /\ art' = [art EXCEPT ![k][a] = Reference]
  /\ UNCHANGED <<cards, task, loop, lastId, crashes>>

------------------------------------------------------------------------------
(* A restart of the server.  The tables and files stay; a run that was being *)
(* provisioned is resumed or restarted, and neither makes its reference      *)
(* again.  What it had reported before its first checkpoint is lost.         *)

Resumed(t) ==
  CASE t.pc \in {"new", "scenario", "film"} -> t
    [] t.pc \in {"create", "search", "describe"} -> Idle("scenario")
    [] OTHER -> [Idle("scenario") EXCEPT !.told = t.told \cap {Entity}]

Crash ==
  /\ Disturbable
  /\ crashes' = crashes + 1
  /\ task' = [r \in Runs |-> Resumed(task[r])]
  /\ loop' = Free
  /\ UNCHANGED <<rows, art, cards, lastId, edits>>

------------------------------------------------------------------------------

\* What a run does by itself once it is started or approved.
Works(r) ==
  \/ Create(r) \/ Search(r) \/ Describe(r) \/ Publish(r)
  \/ Generate(r) \/ Generated(r)
  \/ Ask(r) \/ Save(r)
  \/ Plan(r) \/ Adopt(r) \/ ReadBack(r) \/ Settle(r) \/ Film(r)

PageNext ==
  \E k \in Visited :
    \/ PageCreate(k) \/ PageDescribe(k) \/ PageDelete(k)
    \/ \E a \in Views : PageDraw(k, a)

Next ==
  \/ \E r \in Runs : Check(r) \/ Approve(r) \/ Works(r)
  \/ PageNext
  \/ Crash

Spec == Init /\ [][Next]_vars

------------------------------------------------------------------------------
(* Properties. *)

AtWork(r, k) ==
  \/ k = Entity /\ task[r].pc \in {"search", "describe"} /\ Holds(r, k)
  \/ /\ task[r].pc \in {"angles", "image", "reading"} /\ Key(r) = k
     /\ k = Entity => Holds(r, k)

Through(r, k) ==
  task[r].pc \in IF k = Entity THEN {"scenario", "film"} ELSE {"film"}

\* Nobody at the character page, and the server has stayed up.
Undisturbed == edits = 0 /\ crashes = 0

\* A row without angles makes every later run of the SCP skip its
\* provisioning, so there is one only while some run is filling it
\* (_ensure_character_reference: "rather than leaving a permanent empty row");
\* and every character of the cast that a finished run will not see on screen
\* has been reported by one of the runs that tried it, or one is still trying.
EmptyRowIsBeingFilled ==
  \A k \in Keys : Present(k) /\ Shown(k) = {} => \E r \in Runs : AtWork(r, k)
SomebodyReportsTheGap ==
  \A r \in Runs, k \in Keys :
    Through(r, k) /\ Shown(k) = {} =>
      \E q \in Runs : k \in task[q].told \/ AtWork(q, k)
NobodyIsForgotten == Undisturbed => EmptyRowIsBeingFilled /\ SomebodyReportsTheGap

\* No run ever takes a card away from a character, by a roll back or by
\* drawing a key another run has finished: whatever two runs do with one row,
\* the failure of one does not undo the success of the other.
NoRunTakesCardsAway ==
  [][edits' = 0 => \A k \in Keys : Shown(k) \subseteq Shown(k)']_vars

\* generate_cards_from_descriptor: every published angle of a derived key was
\* drawn from a front that a run has painted, never from nothing; and a pose
\* card, read by key alone, is of the character the key names now: drawn from
\* the front of this row, not of one since deleted.
NeverAStranger ==
  edits = 0 =>
    /\ \A k \in Derived : Shown(k) # {} =>
         "front" \in Shown(k) /\ \A a \in Shown(k) : art[k][a] \in Runs
    /\ \A p \in Poses : cards[p] # 0 =>
         Anchored(p[1]) /\ rows[p[1]].id = cards[p]

\* Provisioning is best effort and never holds a run up: whatever fails, or
\* disappears from the tables under it, the run has a next step.
NeverHeldUp ==
  \A r \in Runs :
    task[r].pc \in Provisioning /\ loop \in {Free, r} => ENABLED Works(r)

=============================================================================
