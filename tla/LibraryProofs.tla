---------------------------- MODULE LibraryProofs ----------------------------
(***************************************************************************)
(* Theorems about AssetLibrary: about the plates and their depth maps, the *)
(* staged card sets and the sprites relit from them, the cards of a cast,  *)
(* how each is drawn and the candidates the operator chooses from, for any *)
(* number of plates, sets, keys, angles and processes.                     *)
(***************************************************************************)
EXTENDS AssetLibrary, WellFoundedInduction, TLAPS

\* A table of tables with one cell replaced.
LEMMA CellReplaced ==
  ASSUME NEW D, NEW E, NEW R, NEW f \in [D -> [E -> R]],
         NEW i \in D, NEW m \in E, NEW r \in R
  PROVE  /\ [f EXCEPT ![i][m] = r] \in [D -> [E -> R]]
         /\ \A j \in D : \A n \in E :
              [f EXCEPT ![i][m] = r][j][n] = IF j = i /\ n = m THEN r ELSE f[j][n]
  OBVIOUS

-----------------------------------------------------------------------------
(* The plates. *)

\* What the check of OfferedAsJudged excludes: a seeder stopped between the
\* file and the entry, an invalid plate over an approved one, a seeder and a
\* judge at one plate.
ShelfKept ==
  "late stop" \notin ShelfFaults /\ "approved" \notin ShelfFaults
  /\ "overlap" \notin ShelfFaults

ShelfTypeOK ==
  /\ disk \in [Plates -> [image: 0 .. MaxPlates, valid: BOOLEAN]]
  /\ shelf \in [Plates -> {"none", "draft", "approved"}]
  /\ item \in [Plates -> [made: BOOLEAN, approved: BOOLEAN, label: Nat, meta: Nat]]
  /\ seeding \in [at: {"idle", "render", "written", "deleted", "inserted"},
                  on: Plates \cup {Unseeding.on}]
  /\ judging \in [at: {"idle", "score", "measure"},
                  on: Plates \cup {Unjudging.on}, read: Nat]
  /\ renders \in 0 .. MaxPlates

\* Between the file and the entry nothing is said of the plate.
Settled(p) == ~InHandIs("written", p) /\ ~InHandIs("inserted", p)

\* A judge keeps the seeder out, so the bytes it has read are still in the file.
JudgedAsRead(p) ==
  BeingJudged(p) =>
    /\ ~Drawn(p) /\ judging.read = disk[p].image
    /\ judging.at = "measure" => shelf[p] = "approved"

\* An approved plate is measured, a draft never was: its only verdict is the
\* label, which an invalid image leaves behind.
VerdictsHold(p) ==
  Settled(p) =>
    /\ shelf[p] = "approved" =>
         /\ disk[p].image \in fit
         /\ item[p].label \in {0, disk[p].image}
         /\ item[p].meta \in {0, disk[p].image}
    /\ shelf[p] = "draft" =>
         /\ item[p].meta = 0
         /\ disk[p].valid => item[p].label \in {0, disk[p].image}

RowInHand(p) ==
  /\ InHandIs("inserted", p) => shelf[p] = "draft"
  /\ InHandIs("deleted", p) => shelf[p] = "none"

PlateInv(p) == JudgedAsRead(p) /\ VerdictsHold(p) /\ RowInHand(p)
ShelfInv == ShelfTypeOK /\ \A p \in Plates : PlateInv(p)

LEMMA ShelfBegins == ShelfInit => ShelfInv
<1> SUFFICES ASSUME ShelfInit PROVE ShelfInv
  OBVIOUS
<1>1. ShelfTypeOK
  BY PlatesBounded DEF ShelfInit, ShelfTypeOK, NoItem, Unseeding, Unjudging
<1>2. ASSUME NEW p \in Plates PROVE PlateInv(p)
  BY DEF ShelfInit, PlateInv, JudgedAsRead, VerdictsHold, RowInHand, InHandIs,
         Settled, BeingJudged, Drawn, Unseeding, Unjudging
<1> QED  BY <1>1, <1>2 DEF ShelfInv

LEMMA ShelfTypeStep ==
  ASSUME ShelfTypeOK, ShelfNext PROVE ShelfTypeOK'
<1> USE PlatesBounded DEF ShelfTypeOK
<1>1. ASSUME NEW p \in Plates, NEW force \in BOOLEAN, NEW reroll \in BOOLEAN,
             Seed(p, force, reroll)
      PROVE  ShelfTypeOK'
  BY <1>1 DEF Seed
<1>2. ASSUME NEW p \in Plates, RenderFails(p) PROVE ShelfTypeOK'
  BY <1>2 DEF RenderFails, Unseeding
<1>3. ASSUME NEW p \in Plates, Write(p) PROVE ShelfTypeOK'
  BY <1>3 DEF Write, Goes, Unseeding
<1>4. ASSUME NEW p \in Plates, DeleteRow(p) \/ InsertRow(p) PROVE ShelfTypeOK'
  BY <1>4 DEF DeleteRow, InsertRow, Goes
<1>5. ASSUME NEW p \in Plates, Register(p) PROVE ShelfTypeOK'
  BY <1>5 DEF Register, Fresh, NoItem, Unseeding
<1>6. ASSUME NEW p \in Plates, Score(p) \/ Measure(p) PROVE ShelfTypeOK'
  BY <1>6 DEF Score, Measure, Begins
<1>7. ASSUME NEW p \in Plates, Scored(p) PROVE ShelfTypeOK'
  <2>1. PICK passes \in BOOLEAN :
          /\ item' = IF item[p].made
                     THEN [item EXCEPT ![p].label = judging.read,
                                       ![p].approved = @ \/ passes]
                     ELSE item
          /\ shelf' = IF item[p].made /\ passes /\ shelf[p] # "none"
                      THEN [shelf EXCEPT ![p] = "approved"] ELSE shelf
    BY <1>7 DEF Scored
  <2> DEFINE b == item[p].approved \/ passes
  <2>2. /\ b \in BOOLEAN
        /\ item' = IF item[p].made
                   THEN [item EXCEPT ![p].label = judging.read, ![p].approved = b]
                   ELSE item
    BY <2>1, Zenon
  <2> HIDE DEF b
  <2>3. item' \in [Plates -> [made: BOOLEAN, approved: BOOLEAN, label: Nat, meta: Nat]]
    <3> DEFINE t == [item[p] EXCEPT !.label = judging.read, !.approved = b]
    <3>1. item[p] \in [made: BOOLEAN, approved: BOOLEAN, label: Nat, meta: Nat]
      OBVIOUS
    <3>2. judging.read \in Nat
      OBVIOUS
    <3>3. t \in [made: BOOLEAN, approved: BOOLEAN, label: Nat, meta: Nat]
      BY ONLY <2>2, <3>1, <3>2
    <3>4. item' = IF item[p].made THEN [item EXCEPT ![p] = t] ELSE item
      BY <2>2
    <3> HIDE DEF t
    <3> QED  BY <3>3, <3>4
  <2>4. shelf' \in [Plates -> {"none", "draft", "approved"}]
    BY <2>1
  <2> QED  BY <1>7, <2>3, <2>4 DEF Scored, Judged, Unjudging
<1>8. ASSUME NEW p \in Plates, Measured(p) PROVE ShelfTypeOK'
  BY <1>8 DEF Measured, Judged, Unjudging
<1>9. ASSUME NEW p \in Plates, ApprovePlate(p) PROVE ShelfTypeOK'
  BY <1>9 DEF ApprovePlate
<1>10. CASE Stop
  BY <1>10 DEF Stop, Unseeding
<1>11. CASE ScorerFails
  BY <1>11 DEF ScorerFails, Unjudging
<1> QED
  BY <1>1, <1>2, <1>3, <1>4, <1>5, <1>6, <1>7, <1>8, <1>9, <1>10, <1>11
  DEF ShelfNext

LEMMA PlateStep ==
  ASSUME ShelfKept, ShelfTypeOK, ShelfNext, NEW q \in Plates, PlateInv(q)
  PROVE  PlateInv(q)'
<1> USE DEF ShelfTypeOK, PlateInv, JudgedAsRead, VerdictsHold, RowInHand, InHandIs,
            Settled, BeingJudged, Drawn
<1>1. ASSUME NEW p \in Plates, NEW force \in BOOLEAN, NEW reroll \in BOOLEAN,
             Seed(p, force, reroll)
      PROVE  PlateInv(q)'
  BY <1>1 DEF Seed, ShelfKept
<1>2. ASSUME NEW p \in Plates, RenderFails(p) PROVE PlateInv(q)'
  BY <1>2 DEF RenderFails, Unseeding
<1>3. ASSUME NEW p \in Plates, Write(p) PROVE PlateInv(q)'
  <2>1. PICK valid \in BOOLEAN :
          /\ disk' = [disk EXCEPT ![p] = [image |-> renders, valid |-> valid]]
          /\ IF valid THEN Goes("written")
             ELSE shelf[p] # "approved" /\ seeding' = Unseeding
    BY <1>3 DEF Write, ShelfKept
  <2>2. /\ seeding.at = "render" /\ seeding.on = p
        /\ UNCHANGED <<shelf, item, judging, fit, renders>>
    BY <1>3 DEF Write
  <2>3. CASE q # p
    BY <2>1, <2>2, <2>3 DEF Goes, Unseeding
  <2>4. CASE q = p /\ valid
    BY <2>1, <2>2, <2>4 DEF Goes
  <2>5. CASE q = p /\ ~valid
    BY <2>1, <2>2, <2>5 DEF Unseeding
  <2> QED  BY <2>3, <2>4, <2>5
<1>4. ASSUME NEW p \in Plates, DeleteRow(p) PROVE PlateInv(q)'
  BY <1>4 DEF DeleteRow, Goes
<1>5. ASSUME NEW p \in Plates, InsertRow(p) PROVE PlateInv(q)'
  BY <1>5 DEF InsertRow, Goes
<1>6. ASSUME NEW p \in Plates, Register(p) PROVE PlateInv(q)'
  BY <1>6 DEF Register, Fresh, NoItem, Unseeding
<1>7. ASSUME NEW p \in Plates, Score(p) \/ Measure(p) PROVE PlateInv(q)'
  <2>1. /\ judging.at = "idle" /\ ~Drawn(p)
        /\ UNCHANGED <<disk, shelf, item, seeding, fit, renders>>
        /\ \/ judging' = [at |-> "score", on |-> p, read |-> disk[p].image]
           \/ /\ judging' = [at |-> "measure", on |-> p, read |-> disk[p].image]
              /\ shelf[p] = "approved"
    BY <1>7 DEF Score, Measure, Begins, ShelfKept
  <2>2. JudgedAsRead(q)'
    BY <2>1
  <2>3. VerdictsHold(q)' /\ RowInHand(q)'
    BY <2>1
  <2> QED  BY <2>2, <2>3
<1>8. ASSUME NEW p \in Plates, Scored(p) PROVE PlateInv(q)'
  BY <1>8 DEF Scored, Judged, Unjudging
<1>9. ASSUME NEW p \in Plates, Measured(p) PROVE PlateInv(q)'
  BY <1>9 DEF Measured, Judged, Unjudging
<1>10. ASSUME NEW p \in Plates, ApprovePlate(p) PROVE PlateInv(q)'
  BY <1>10 DEF ApprovePlate, ShelfKept
<1>11. CASE Stop
  BY <1>11 DEF Stop, Unseeding, ShelfKept
<1>12. CASE ScorerFails
  BY <1>12 DEF ScorerFails, Unjudging
<1> QED
  BY <1>1, <1>2, <1>3, <1>4, <1>5, <1>6, <1>7, <1>8, <1>9, <1>10, <1>11, <1>12
  DEF ShelfNext

LEMMA ShelfStep == ShelfKept /\ ShelfInv /\ [ShelfNext]_shelfVars => ShelfInv'
<1> SUFFICES ASSUME ShelfKept, ShelfInv, [ShelfNext]_shelfVars PROVE ShelfInv'
  OBVIOUS
<1>1. CASE ShelfNext
  BY <1>1, ShelfTypeStep, PlateStep DEF ShelfInv
<1>2. CASE UNCHANGED shelfVars
  BY <1>2 DEF shelfVars, ShelfInv, ShelfTypeOK, PlateInv, JudgedAsRead, VerdictsHold,
              RowInHand, InHandIs, Settled, BeingJudged, Drawn
<1> QED  BY <1>1, <1>2

\* While an approved plate is between its file and its row, the seeder has
\* written; in every other state an approved plate is settled.
LEMMA ShelfShows == ShelfInv => OfferedAsJudged
<1> SUFFICES ASSUME ShelfInv, NEW p \in Plates, Offered(p), ~InHandIs("written", p)
             PROVE  disk[p].image \in fit /\ Verdicts(p) \subseteq {disk[p].image}
  BY DEF OfferedAsJudged
<1>1. VerdictsHold(p) /\ Settled(p)
  BY DEF ShelfInv, PlateInv, RowInHand, Settled, Offered
<1> QED  BY <1>1 DEF VerdictsHold, Offered, Verdicts

-----------------------------------------------------------------------------
(* Their depth maps. *)

NamesKept == "namesake" \notin DepthFaults

DepthTypeOK ==
  /\ model \in Models
  /\ maps \in [1 .. MaxPlates -> [Models -> [of: 0 .. MaxPlates, whole: BOOLEAN]]]
  /\ asking \in [Estimators -> [at: {"idle", "asked"}, on: Plates \cup {Unasked.on},
                                of: 0 .. MaxPlates, by: Models]]
  /\ inbox \in [{UploadOf[w] : w \in Estimators} -> 0 .. MaxPlates]

\* What an estimator was asked for lies under its name until it answers.
Asked(w) == asking[w].at # "idle"
UploadStands(w) ==
  Asked(w) => asking[w].of # 0 /\ inbox[UploadOf[w]] = asking[w].of
NoNamesake(v, w) == v # w /\ Asked(v) /\ Asked(w) => UploadOf[v] # UploadOf[w]

DepthInv ==
  /\ DepthTypeOK
  /\ \A w \in Estimators : UploadStands(w)
  /\ \A v, w \in Estimators : NoNamesake(v, w)
  /\ MapsAreOfTheirImages

LEMMA DepthBegins == DepthInit => DepthInv
<1> SUFFICES ASSUME DepthInit PROVE DepthInv
  OBVIOUS
<1>1. Unasked.by \in Models
  BY MapsBounded DEF Unasked
<1>2. DepthTypeOK
  BY <1>1, PlatesBounded DEF DepthInit, DepthTypeOK, Unasked, NoPair
<1> QED
  BY <1>2 DEF DepthInit, DepthInv, UploadStands, NoNamesake, Asked, Unasked,
              MapsAreOfTheirImages, Verified, NoPair

LEMMA AskMapStep ==
  ASSUME NamesKept, ShelfTypeOK, DepthInv, NEW w \in Estimators, NEW p \in Plates,
         AskMap(w, p)
  PROVE  DepthInv'
<1> USE DEF DepthInv
<1>1. /\ disk[p].image \in 1 .. MaxPlates
      /\ asking' = [asking EXCEPT ![w] =
           [at |-> "asked", on |-> p, of |-> disk[p].image, by |-> model]]
      /\ inbox' = [inbox EXCEPT ![UploadOf[w]] = disk[p].image]
      /\ model' = model /\ maps' = maps /\ ~Asked(w)
      /\ \A v \in Estimators \ {w} : Asked(v) => UploadOf[v] # UploadOf[w]
  BY PlatesBounded DEF AskMap, ShelfTypeOK, NamesKept, Asked
<1>2. DepthTypeOK'
  BY <1>1 DEF DepthTypeOK
<1>3. \A v \in Estimators : UploadStands(v)'
  BY <1>1 DEF DepthTypeOK, UploadStands, Asked
<1>4. \A u, v \in Estimators : NoNamesake(u, v)'
  BY <1>1 DEF DepthTypeOK, NoNamesake, Asked
<1>5. MapsAreOfTheirImages'
  BY <1>1 DEF MapsAreOfTheirImages, Verified
<1> QED  BY <1>2, <1>3, <1>4, <1>5

LEMMA GiveMapStep ==
  ASSUME DepthInv, NEW w \in Estimators, GiveMap(w)
  PROVE  DepthInv'
<1> USE DEF DepthInv
<1> DEFINE i == asking[w].of
           m == asking[w].by
           pair == [of |-> inbox[UploadOf[w]], whole |-> TRUE]
<1>1. /\ i \in 1 .. MaxPlates /\ m \in Models /\ pair.of = i
      /\ pair \in [of: 0 .. MaxPlates, whole: BOOLEAN]
  <2>1. asking[w].at = "asked"
    BY DEF GiveMap, Gives
  <2>2. inbox[UploadOf[w]] = i /\ i # 0
    BY <2>1 DEF UploadStands, Asked
  <2>3. i \in 0 .. MaxPlates /\ m \in Models
    BY DEF DepthTypeOK
  <2> QED  BY <2>2, <2>3, PlatesBounded
<1>2. /\ asking' = [asking EXCEPT ![w] = Unasked]
      /\ UNCHANGED <<model, inbox>>
      /\ \/ maps' = [maps EXCEPT ![i][m] = pair]
         \/ UNCHANGED maps
         \/ maps' = [maps EXCEPT ![i][m] = [pair EXCEPT !.whole = @ /\ maps[i][m] = pair]]
  BY DEF GiveMap, Gives
<1>3. PICK new \in [of: 0 .. MaxPlates, whole: BOOLEAN] :
        /\ new.whole => new.of = i
        /\ maps' = [maps EXCEPT ![i][m] = new] \/ UNCHANGED maps
  <2>1. (TRUE /\ maps[i][m] = pair) \in BOOLEAN
    OBVIOUS
  <2>2. [pair EXCEPT !.whole = @ /\ maps[i][m] = pair] \in
          [of: 0 .. MaxPlates, whole: BOOLEAN]
    BY <1>1, <2>1
  <2>3. [pair EXCEPT !.whole = @ /\ maps[i][m] = pair].of = i
    BY <1>1
  <2> QED  BY <1>1, <1>2, <2>2, <2>3
<1> HIDE DEF i, m, pair
<1>4. Unasked \in [at: {"idle", "asked"}, on: Plates \cup {Unasked.on},
                   of: 0 .. MaxPlates, by: Models]
  BY MapsBounded, PlatesBounded DEF Unasked
<1> DEFINE D == 1 .. MaxPlates
           R == [of: 0 .. MaxPlates, whole: BOOLEAN]
<1>9. /\ maps' \in [D -> [Models -> R]]
      /\ \A j \in D : \A n \in Models :
           maps'[j][n] = IF j = i /\ n = m /\ maps' # maps THEN new ELSE maps[j][n]
  <2>1. maps \in [D -> [Models -> R]] /\ i \in D /\ m \in Models /\ new \in R
    BY <1>1, <1>3 DEF DepthTypeOK
  <2> HIDE DEF D, R
  <2>2. CASE maps' = [maps EXCEPT ![i][m] = new]
    BY <2>1, <2>2, CellReplaced
  <2>3. CASE UNCHANGED maps
    BY <2>1, <2>3
  <2> QED  BY <1>3, <2>2, <2>3
<1>5. DepthTypeOK'
  BY <1>2, <1>4, <1>9 DEF DepthTypeOK
<1>6. \A v \in Estimators : UploadStands(v)'
  BY <1>2 DEF DepthTypeOK, UploadStands, Asked, Unasked
<1>7. \A u, v \in Estimators : NoNamesake(u, v)'
  BY <1>2 DEF DepthTypeOK, NoNamesake, Asked, Unasked
<1>8. ASSUME NEW j \in 1 .. MaxPlates, NEW n \in Models, maps'[j][n].whole
      PROVE  maps'[j][n].of = j
  <2>1. maps[j][n].whole => maps[j][n].of = j
    BY PlatesBounded DEF MapsAreOfTheirImages, Verified
  <2>2. maps'[j][n] = IF j = i /\ n = m /\ maps' # maps THEN new ELSE maps[j][n]
    BY <1>9
  <2> QED  BY <1>3, <1>8, <2>1, <2>2
<1> QED  BY <1>5, <1>6, <1>7, <1>8 DEF MapsAreOfTheirImages, Verified

LEMMA DepthStep ==
  NamesKept /\ ShelfTypeOK /\ DepthInv /\ [DepthNext]_depthVars => DepthInv'
<1> SUFFICES ASSUME NamesKept, ShelfTypeOK, DepthInv, [DepthNext]_depthVars
             PROVE  DepthInv'
  OBVIOUS
<1>1. CASE ChangeModel
  BY <1>1 DEF ChangeModel, DepthInv, DepthTypeOK, UploadStands, NoNamesake, Asked,
              MapsAreOfTheirImages, Verified
<1>2. CASE UNCHANGED depthVars
  BY <1>2 DEF depthVars, DepthInv, DepthTypeOK, UploadStands, NoNamesake, Asked,
              MapsAreOfTheirImages, Verified
<1> QED  BY <1>1, <1>2, AskMapStep, GiveMapStep DEF DepthNext

-----------------------------------------------------------------------------
(* The staged card sets. *)

\* What the check of StagingIsAllOrNothing excludes: a stage that stops half-way
\* over the files of an earlier one, a promotion that is killed, the two scripts
\* at one time, a hint card drawn during a promotion.
StagingKept ==
  /\ "restage" \notin StagingFaults /\ "torn" \notin StagingFaults
  /\ "overlap" \notin StagingFaults /\ "hint" \notin StagingFaults

\* A set is a key in a pose, so a key has one standing set.
OneStandingSet == \A s, t \in Standing : KeyOf[s] = KeyOf[t] => s = t

SetNumbers == 0 .. MaxStages + 2
FileSet == [front: 0 .. MaxStages, others: 0 .. MaxStages]
Text == {"none", "own", "stock", "read", "edit"} \X Nat
Directory == [made: BOOLEAN, pre: Text, post: Text]

StagingTypeOK ==
  /\ epoch \in Epochs
  /\ files \in [Sets -> [Epochs -> FileSet]]
  /\ beside \in [Keyed -> [Epochs -> Directory]]
  /\ text \in [Keyed -> Text]
  /\ shown \in [Sets -> SetNumbers]
  /\ entry \in [Sets -> [at: SetNumbers, of: FileSet]]
  /\ published \in [Sets -> FileSet]
  /\ hints \in [Keyed -> 0 .. NoCard]
  /\ posing \in [Keyed -> 0 .. NoCard]
  /\ stager \in [at: {"idle", "front", "read", "others"}, on: Sets \cup {NoStager.on},
                 slot: SetNumbers, into: SetNumbers]
  /\ approver \in [at: {"idle", "hash", "publish", "retire", "raised"},
                   todo: SUBSET Sets, done: SUBSET Sets]
  /\ stages \in 0 .. MaxStages /\ edited \in Nat

\* Every epoch that has begun took a stage of its own, so the slot of the next
\* one is within the bound; beyond the slot there is nothing.
ClockInv ==
  /\ epoch <= stages + 1
  /\ ~Stages("idle") \/ ~Approves("idle") \/ Staged # {} => epoch <= stages
  /\ \A s \in Sets : \A e \in Epochs : e > Slot => files[s][e] = NoFiles
  /\ \A c \in Keyed : \A e \in Epochs :
       e > Slot \/ (e = Slot /\ ~beside[c][e].made) => beside[c][e] = NoDirectory

\* A stage has the scripts to itself, and draws into the slot.
Redrawn(s, e) == stager.at \in {"read", "others"} /\ stager.on = s /\ e = Slot
StagerInv ==
  /\ ~Stages("idle") =>
       /\ Approves("idle") /\ stager.on \in Sets
       /\ stager.slot = Slot /\ stager.into = Slot
       /\ beside[InHand][Slot].made
       /\ stager.at \in {"read", "others"} => files[stager.on][Slot].front = stages
  /\ \A s \in Sets : \A e \in Epochs :
       Whole(files[s][e]) => files[s][e].front = files[s][e].others \/ Redrawn(s, e)

\* A promotion works on exactly what is staged, one set at a time.
Behind(s) == shown[s] <= epoch /\ entry[s].at <= epoch
Waiting == approver.todo \ approver.done
PromotionInv ==
  /\ Stages("idle")
  /\ approver.todo = Staged /\ approver.done \subseteq approver.todo
  /\ \A s \in Staged : Whole(files[s][Slot])
  /\ \A c \in Keyed : beside[c][Slot].made => SetsOf(c) \cap Staged # {}
  /\ \A c \in Keyed : posing[c] = NoCard
  /\ \A s \in Sets \ approver.todo : Behind(s)
  /\ \A s \in Sets :
       /\ shown[s] <= Slot /\ entry[s].at <= Slot
       /\ entry[s].at = Slot => entry[s].of = files[s][Slot]
  /\ \A s \in approver.done : shown[s] = Slot
  /\ \A s \in Waiting : shown[s] <= epoch \/
       (entry[s].at = Slot /\ approver.at \in {"retire", "raised"})
  /\ \A s, t \in Waiting : entry[s].at = Slot /\ entry[t].at = Slot => s = t
  /\ Approves("hash") => \A s \in Waiting : Behind(s)
  /\ Approves("retire") => \A s \in Waiting : shown[s] = Slot => s \in Standing
ApproverInv ==
  IF Approves("idle") THEN \A s \in Sets : Behind(s) ELSE PromotionInv

\* Hints and poses are drawn from the front that is shown, but for the hint of
\* the set that has just gone live.
HintHolds(s) ==
  \/ hints[KeyOf[s]] \in {NoCard, FrontOf(s)} \/ KeyOf[s] \in told
  \/ ~Approves("idle") /\ s \in Waiting /\ shown[s] = Slot
LiveInv ==
  /\ \A s \in Sets : shown[s] # 0 => Kept(s)
  /\ NothingStranded
  /\ \A s \in Standing : HintHolds(s) /\ posing[KeyOf[s]] \in {NoCard, FrontOf(s)}

\* The text beside a directory is what came before the stage, and the stage's
\* own text is live only while the directory is there.
Earned(t) == t[1] \in {"own", "edit"} \/ t \in vouched
TextHolds(c) ==
  /\ text[c] # None
  /\ beside[c][Slot].made => beside[c][Slot].pre # None /\ Earned(beside[c][Slot].pre)
  /\ ~beside[c][Slot].made => Earned(text[c])
  /\ ~Approves("idle") =>
       \A s \in approver.todo : KeyOf[s] = c /\ shown[s] = Slot => Earned(text[c])
TextInv == \A c \in Keyed \ (Bare \cup told) : TextHolds(c)

StagingInv ==
  StagingTypeOK /\ ClockInv /\ StagerInv /\ ApproverInv /\ LiveInv /\ TextInv

LEMMA SlotInEpochs ==
  ASSUME StagingTypeOK, ClockInv
  PROVE  Slot \in Epochs /\ Slot \in SetNumbers /\ epoch \in Nat /\ stages \in Nat
         /\ MaxStages \in Nat
  BY StagesBounded DEF StagingTypeOK, ClockInv, Epochs, SetNumbers, Slot

LEMMA StagingBegins == StagingInit => StagingInv
<1> SUFFICES ASSUME StagingInit PROVE StagingInv
  OBVIOUS
<1> USE StagesBounded DEF StagingInit, SetNumbers, Epochs, FileSet, Text, Directory
<1>1. NoStager.at = "idle" /\ NoStager.on = CHOOSE s \in Sets : TRUE
  BY DEF NoStager
<1>2. StagingTypeOK
  BY DEF StagingTypeOK, NoFiles, NoDirectory, NoCard, NoStager, NoApprover, None, Own
<1>3. /\ \A s \in Sets : \A e \in Epochs :
           files[s][e] = NoFiles /\ ~Touched(files[s][e]) /\ ~Whole(files[s][e])
      /\ \A c \in Keyed : \A e \in Epochs : beside[c][e] = NoDirectory
      /\ epoch = 1 /\ Slot = 2 /\ Slot \in Epochs /\ stages = 0
      /\ Stages("idle") /\ Approves("idle")
  BY <1>1 DEF Touched, Whole, NoFiles, Slot, Stages, Approves, NoApprover
<1>4. ClockInv
  <2>1. Staged = {}
    BY <1>3 DEF Staged
  <2>2. 1 <= stages + 1
    BY <1>3
  <2> HIDE DEF StagingInit, Epochs
  <2> QED  BY <1>3, <2>1, <2>2, Zenon DEF ClockInv
<1>5. StagerInv /\ ApproverInv
  <2>1. \A s \in Sets : shown[s] = 0 /\ entry[s].at = 0
    OBVIOUS
  <2>2. \A s \in Sets : Behind(s)
    BY <1>3, <2>1 DEF Behind
  <2> HIDE DEF StagingInit, Epochs
  <2> QED  BY <1>3, <2>2 DEF StagerInv, ApproverInv
<1>6. LiveInv
  <2>1. \A s \in Sets : shown[s] = 0 /\ KeyOf[s] \in Keyed /\ FrontOf(s) = 0
    BY DEF FrontOf, Keyed
  <2>2. NothingStranded
    <3>1. 1 .. epoch \subseteq Epochs
      BY <1>3
    <3> HIDE DEF StagingInit, Epochs
    <3> QED  BY <1>3, <3>1, Zenon DEF NothingStranded
  <2>3. \A s \in Standing : hints[KeyOf[s]] = 0 /\ posing[KeyOf[s]] = NoCard
    BY <2>1, SetsKnown
  <2> QED  BY <2>1, <2>2, <2>3, SetsKnown DEF LiveInv, HintHolds
<1>7. TextInv
  BY <1>2 DEF TextInv, TextHolds, Earned, None, Own, NoDirectory, Slot, NoApprover, Approves
<1> QED  BY <1>2, <1>4, <1>5, <1>6, <1>7 DEF StagingInv

-----------------------------------------------------------------------------

LEMMA BeginStageStep ==
  ASSUME StagingKept, StagingInv, NEW s \in Sets, BeginStage(s)
  PROVE  StagingInv'
<1> USE DEF StagingInv
<1>0. Slot \in Epochs /\ Slot \in SetNumbers /\ stages \in Nat /\ MaxStages \in Nat
  BY SlotInEpochs
<1> DEFINE c == KeyOf[s]
<1>1. /\ c \in Keyed /\ Stages("idle") /\ Approves("idle")
      /\ beside' = [beside EXCEPT ![c][Slot] = Snapshot(c)]
      /\ text' = [text EXCEPT ![c] = Stock]
      /\ stager' = [at |-> "front", on |-> s, slot |-> Slot, into |-> Slot]
      /\ stages' = stages + 1 /\ stages < MaxStages /\ Slot' = Slot
      /\ UNCHANGED <<epoch, files, live, posing, approver, told, edited>>
  BY DEF BeginStage, StagingKept, Keyed, Slot, Approves
<1>2. /\ Snapshot(c) \in Directory /\ Snapshot(c).made
      /\ Snapshot(c).pre = IF beside[c][Slot].pre = None THEN text[c]
                           ELSE beside[c][Slot].pre
  <2>1. beside[c][Slot] \in Directory /\ text[c] \in Text
    BY <1>0, <1>1 DEF StagingTypeOK
  <2> HIDE DEF c
  <2> QED  BY <2>1 DEF Snapshot, Directory, Slot
<1>3. /\ beside' \in [Keyed -> [Epochs -> Directory]]
      /\ \A k \in Keyed : \A e \in Epochs :
           beside'[k][e] = IF k = c /\ e = Slot THEN Snapshot(c) ELSE beside[k][e]
  <2>1. beside \in [Keyed -> [Epochs -> Directory]] /\ Slot \in Epochs
    BY <1>0 DEF StagingTypeOK
  <2> HIDE DEF c
  <2> QED  BY <1>1, <1>2, <2>1, CellReplaced
<1> HIDE DEF c
<1>4. StagingTypeOK'
  BY <1>0, <1>1, <1>3 DEF StagingTypeOK, live, Stock, Text, SetNumbers
<1>5. ClockInv'
  <2>1. epoch' <= stages' /\ epoch' <= stages' + 1
    BY <1>0, <1>1 DEF ClockInv, StagingTypeOK, Epochs
  <2>2. \A r \in Sets : \A e \in Epochs : e > Slot => files[r][e] = NoFiles
    BY DEF ClockInv
  <2>3. ASSUME NEW k \in Keyed, NEW e \in Epochs,
               e > Slot \/ (e = Slot /\ ~beside'[k][e].made)
        PROVE  beside'[k][e] = NoDirectory
    <3>1. ~(k = c /\ e = Slot)
      BY <1>0, <1>2, <1>3, <2>3 DEF SetNumbers
    <3>2. beside'[k][e] = beside[k][e]
      BY <1>3, <3>1
    <3> QED  BY <2>3, <3>2 DEF ClockInv
  <2> QED  BY <1>1, <2>1, <2>2, <2>3 DEF ClockInv
<1>6. StagerInv'
  BY <1>0, <1>1, <1>2, <1>3 DEF StagerInv, Stages, Approves, InHand, Redrawn, c
<1>7. ApproverInv'
  BY <1>1 DEF ApproverInv, Approves, Behind, live
<1>8. LiveInv'
  BY <1>1 DEF LiveInv, Kept, NothingStranded, HintHolds, FrontOf, Waiting, Approves, live
<1>9. ASSUME NEW k \in Keyed \ (Bare \cup told) PROVE TextHolds(k)'
  <2>1. TextHolds(k) /\ text'[k] = IF k = c THEN Stock ELSE text[k]
    BY <1>1 DEF TextInv, StagingTypeOK
  <2>2. ~beside[c][Slot].made => beside[c][Slot].pre = None
    <3>1. c \in Keyed
      BY <1>1
    <3>2. ~beside[c][Slot].made => beside[c][Slot] = NoDirectory
      BY <1>0, <3>1 DEF ClockInv
    <3> QED  BY <3>2 DEF NoDirectory
  <2>3. Stock # None
    BY DEF Stock, None
  <2>4. beside'[k][Slot] = IF k = c THEN Snapshot(c) ELSE beside[k][Slot]
    BY <1>0, <1>3
  <2> QED  BY <1>1, <1>2, <2>1, <2>2, <2>3, <2>4 DEF TextHolds, Earned, live, Approves
<1>10. TextInv'
  BY <1>1, <1>9 DEF TextInv
<1> QED  BY <1>10, <1>4, <1>5, <1>6, <1>7, <1>8

\* What is drawn or deleted beyond the epoch touches nothing that is live.
LEMMA LiveStands ==
  ASSUME StagingTypeOK, LiveInv, Approves("idle"), ApproverInv,
         UNCHANGED <<epoch, live, posing, approver>>, told \subseteq told',
         \A s \in Sets : \A e \in Epochs : e <= epoch => files'[s][e] = files[s][e]
  PROVE  LiveInv'
<1>1. \A s \in Sets : shown[s] \in 0 .. epoch /\ epoch \in Epochs
  BY StagesBounded DEF ApproverInv, Behind, StagingTypeOK, SetNumbers, Epochs
<1>2. \A s \in Sets : shown[s] # 0 => files'[s][shown[s]] = files[s][shown[s]]
  BY <1>1, StagesBounded DEF Epochs
<1>3. \A s \in Sets : FrontOf(s)' = FrontOf(s)
  BY <1>2 DEF FrontOf, live
<1>4. \A s \in Sets : shown[s] # 0 => Kept(s)'
  BY <1>2 DEF LiveInv, Kept, live
<1>5. NothingStranded'
  <2>1. ASSUME NEW s \in Sets, NEW e \in 1 .. epoch, Touched(files'[s][e])
        PROVE  shown[s] >= e \/ KeyOf[s] \in told'
    <3>1. e \in Epochs /\ e <= epoch
      BY <1>1, StagesBounded DEF Epochs
    <3> QED  BY <2>1, <3>1 DEF LiveInv, NothingStranded
  <2> QED  BY <2>1 DEF NothingStranded, live
<1>6. \A s \in Standing : HintHolds(s)' /\ posing'[KeyOf[s]] \in {NoCard, FrontOf(s)'}
  BY <1>3, SetsKnown DEF LiveInv, HintHolds, live, Approves
<1> QED  BY <1>4, <1>5, <1>6 DEF LiveInv, live

LEMMA RecordedFacts ==
  ASSUME StagingTypeOK, ~Stages("idle"), stager.on \in Sets, stager.slot \in Epochs
  PROVE  /\ Recorded \in [Keyed -> [Epochs -> Directory]]
         /\ \A k \in Keyed : \A e \in Epochs :
              /\ Recorded[k][e].made = beside[k][e].made
              /\ Recorded[k][e].pre = beside[k][e].pre
              /\ e # stager.slot \/ ~beside[k][e].made => Recorded[k][e] = beside[k][e]
<1> DEFINE c == InHand
           there == beside[c][stager.slot]
           new == [there EXCEPT !.post = text[c]]
<1>1. c \in Keyed /\ there \in Directory /\ text[c] \in Text
  BY DEF StagingTypeOK, InHand, Keyed
<1>2. new \in Directory /\ new.made = there.made /\ new.pre = there.pre
  <2> HIDE DEF c, there
  <2> QED  BY <1>1 DEF Directory
<1>3. beside \in [Keyed -> [Epochs -> Directory]]
  BY DEF StagingTypeOK
<1>4. Recorded = IF there.made THEN [beside EXCEPT ![c][stager.slot] = new] ELSE beside
  BY <1>1, <1>3 DEF Recorded
<1>5. CASE there.made
  <2> HIDE DEF new, c
  <2>1. /\ Recorded \in [Keyed -> [Epochs -> Directory]]
        /\ \A k \in Keyed : \A e \in Epochs :
             Recorded[k][e] = IF k = c /\ e = stager.slot THEN new ELSE beside[k][e]
    BY <1>1, <1>2, <1>3, <1>4, <1>5, CellReplaced
  <2> QED  BY <1>2, <1>5, <2>1
<1>6. CASE ~there.made
  BY <1>3, <1>4, <1>6
<1> QED  BY <1>5, <1>6

\* However a stage ends, it leaves no set of two stagings.
LEMMA StageEnd ==
  ASSUME StagingInv, ~Stages("idle"), stager' = NoStager,
         beside' \in {beside, Recorded},
         files' \in [Sets -> [Epochs -> FileSet]],
         \A s \in Sets : \A e \in Epochs :
           s # stager.on \/ e # Slot => files'[s][e] = files[s][e],
         Whole(files'[stager.on][Slot]) =>
           files'[stager.on][Slot].front = files'[stager.on][Slot].others,
         UNCHANGED <<epoch, text, live, posing, approver, told, bounds>>
  PROVE  StagingInv'
<1> USE DEF StagingInv
<1>0. /\ Slot \in Epochs /\ Slot \in SetNumbers /\ stages \in Nat /\ MaxStages \in Nat
      /\ Slot' = Slot /\ epoch < Slot /\ epoch \in Nat
  BY SlotInEpochs DEF Slot
<1>1. /\ stager.on \in Sets /\ stager.slot = Slot /\ Approves("idle") /\ epoch <= stages
      /\ Stages("idle")' /\ Approves("idle")'
  BY DEF StagerInv, ClockInv, NoStager, Stages, Approves
<1>2. /\ beside' \in [Keyed -> [Epochs -> Directory]]
      /\ \A k \in Keyed : \A e \in Epochs :
           /\ beside'[k][e].made = beside[k][e].made
           /\ beside'[k][e].pre = beside[k][e].pre
           /\ e # Slot \/ ~beside[k][e].made => beside'[k][e] = beside[k][e]
  BY <1>0, <1>1, RecordedFacts DEF StagingTypeOK
<1>3. StagingTypeOK'
  BY <1>0, <1>2 DEF StagingTypeOK, live, bounds, NoStager, SetNumbers
<1>4. ClockInv'
  <2>1. \A s \in Sets : \A e \in Epochs : e > Slot => files'[s][e] = NoFiles
    BY <1>0 DEF ClockInv, SetNumbers
  <2>2. \A k \in Keyed : \A e \in Epochs :
          e > Slot \/ (e = Slot /\ ~beside'[k][e].made) => beside'[k][e] = NoDirectory
    BY <1>0, <1>2 DEF ClockInv, SetNumbers
  <2>3. epoch <= stages /\ epoch <= stages + 1
    BY <1>0, <1>1
  <2> QED  BY <1>0, <2>1, <2>2, <2>3 DEF ClockInv, bounds
<1>5. StagerInv'
  BY <1>1 DEF StagerInv, Redrawn
<1>6. ApproverInv'
  BY <1>1 DEF ApproverInv, Behind, live
<1>7. LiveInv'
  <2>1. \A s \in Sets : \A e \in Epochs : e <= epoch => files'[s][e] = files[s][e]
    BY <1>0 DEF Epochs
  <2> QED  BY <1>1, <2>1, LiveStands
<1>8. TextInv'
  BY <1>0, <1>1, <1>2 DEF TextInv, TextHolds, Earned, live
<1> QED  BY <1>3, <1>4, <1>5, <1>6, <1>7, <1>8

LEMMA DrawFrontStep ==
  ASSUME StagingInv, DrawFront PROVE StagingInv'
<1> USE DEF StagingInv
<1>0. /\ Slot \in Epochs /\ Slot \in SetNumbers /\ stages \in Nat /\ MaxStages \in Nat
      /\ Slot' = Slot /\ epoch < Slot /\ epoch \in Nat
  BY SlotInEpochs DEF Slot, DrawFront
<1>1. /\ stager.on \in Sets /\ stager.slot = Slot /\ stager.into = Slot
      /\ Approves("idle") /\ epoch <= stages /\ stager.at = "front" /\ ~Stages("idle")
      /\ UNCHANGED <<epoch, text, live, posing, approver, told, bounds>>
      /\ files \in [Sets -> [Epochs -> FileSet]]
  BY DEF StagerInv, ClockInv, Stages, DrawFront, StagingTypeOK
<1>2. CASE StageEnds /\ UNCHANGED files
  <2>1. Whole(files[stager.on][Slot]) =>
          files[stager.on][Slot].front = files[stager.on][Slot].others
    BY <1>0, <1>1 DEF StagerInv, Redrawn
  <2> QED  BY <1>1, <1>2, <2>1, StageEnd DEF StageEnds
<1>3. CASE Draw("front", "read") /\ UNCHANGED beside
  <2> DEFINE old == files[stager.on][Slot]
             new == [old EXCEPT !["front"] = stages]
  <2>1. old \in FileSet /\ new \in FileSet /\ new.front = stages
    <3>1. old \in FileSet
      BY <1>0, <1>1
    <3>2. stages \in 0 .. MaxStages
      BY DEF StagingTypeOK
    <3> HIDE DEF old
    <3> QED  BY <3>1, <3>2 DEF FileSet
  <2>2. files' = [files EXCEPT ![stager.on][Slot] = new]
    BY <1>1, <1>3 DEF Draw
  <2> HIDE DEF new, old
  <2>3. /\ files' \in [Sets -> [Epochs -> FileSet]]
        /\ \A s \in Sets : \A e \in Epochs :
             files'[s][e] = IF s = stager.on /\ e = Slot THEN new ELSE files[s][e]
    BY <1>0, <1>1, <2>1, <2>2, CellReplaced
  <2>4. /\ stager' = [stager EXCEPT !.at = "read"]
        /\ stager'.at = "read" /\ stager'.on = stager.on
        /\ stager'.slot = Slot /\ stager'.into = Slot /\ ~Stages("idle")'
    BY <1>1, <1>3 DEF Draw, StagingTypeOK, Stages
  <2>5. StagingTypeOK'
    BY <1>1, <1>3, <2>3, <2>4 DEF StagingTypeOK, live, bounds
  <2>6. ClockInv'
    <3>1. \A s \in Sets : \A e \in Epochs : e > Slot => files'[s][e] = NoFiles
      BY <1>0, <2>3 DEF ClockInv, SetNumbers
    <3> QED  BY <1>0, <1>1, <1>3, <3>1 DEF ClockInv, bounds
  <2>7. StagerInv'
    <3>1. \A s \in Sets : \A e \in Epochs :
            Whole(files'[s][e]) =>
              files'[s][e].front = files'[s][e].others \/ (s = stager.on /\ e = Slot)
      BY <2>3, <1>1 DEF StagerInv, Redrawn
    <3> QED
      BY <1>0, <1>1, <1>3, <2>1, <2>3, <2>4, <3>1
      DEF StagerInv, Redrawn, InHand, Approves, bounds
  <2>8. ApproverInv'
    BY <1>1 DEF ApproverInv, Approves, Behind, live
  <2>9. LiveInv'
    <3>1. \A s \in Sets : \A e \in Epochs : e <= epoch => files'[s][e] = files[s][e]
      BY <1>0, <2>3 DEF Epochs
    <3> QED  BY <1>1, <3>1, LiveStands
  <2>10. TextInv'
    BY <1>0, <1>1, <1>3 DEF TextInv, TextHolds, Earned, live, Approves
  <2> QED  BY <2>5, <2>6, <2>7, <2>8, <2>9, <2>10
<1> QED  BY <1>2, <1>3 DEF DrawFront

LEMMA ReadFrontStep ==
  ASSUME StagingInv, ReadFront PROVE StagingInv'
<1> USE DEF StagingInv
<1>0. /\ Slot \in Epochs /\ Slot \in SetNumbers /\ stages \in Nat /\ MaxStages \in Nat
      /\ Slot' = Slot /\ Slot = epoch + 1
  BY SlotInEpochs DEF Slot, ReadFront
<1>1. /\ stager.on \in Sets /\ stager.slot = Slot /\ Approves("idle")
      /\ epoch <= stages /\ stager.at = "read" /\ InHand \in Keyed
      /\ beside[InHand][Slot].made /\ files[stager.on][Slot].front = stages
      /\ UNCHANGED <<epoch, files, beside, live, posing, approver, told, bounds>>
  BY DEF StagerInv, ClockInv, Stages, ReadFront, InHand, Keyed
<1>2. /\ stager' = [stager EXCEPT !.at = "others", !.into = Slot]
      /\ stager'.at = "others" /\ stager'.on = stager.on
      /\ stager'.slot = Slot /\ stager'.into = Slot
  BY <1>0, <1>1 DEF ReadFront, StagingTypeOK
<1>3. /\ text' \in [Keyed -> Text]
      /\ \A k \in Keyed : k # InHand => text'[k] = text[k]
      /\ text[InHand] # None => text'[InHand] # None
  BY <1>0, <1>1 DEF ReadFront, StagingTypeOK, Text, None
<1>4. StagingTypeOK'
  BY <1>0, <1>1, <1>2, <1>3 DEF StagingTypeOK, live, bounds
<1>5. ClockInv'
  BY <1>0, <1>1 DEF ClockInv, Staged, bounds
<1>6. StagerInv'
  BY <1>0, <1>1, <1>2 DEF StagerInv, Redrawn, InHand, Stages, Approves, bounds
<1>7. ApproverInv'
  BY <1>1 DEF ApproverInv, Approves, Behind, live
<1>8. LiveInv'
  BY <1>0, <1>1, LiveStands
<1>9. TextInv'
  BY <1>0, <1>1, <1>3 DEF TextInv, TextHolds, Earned, live, Approves
<1> QED  BY <1>4, <1>5, <1>6, <1>7, <1>8, <1>9

LEMMA DrawOthersStep ==
  ASSUME StagingKept, StagingInv, DrawOthers PROVE StagingInv'
<1> USE DEF StagingInv
<1>0. Slot \in Epochs /\ stages \in Nat
  BY SlotInEpochs
<1>1. /\ stager.on \in Sets /\ stager.into = Slot /\ stager.at = "others" /\ ~Stages("idle")
      /\ files[stager.on][Slot].front = stages
      /\ stager' = NoStager /\ beside' = Recorded
      /\ UNCHANGED <<epoch, text, live, posing, approver, told, bounds>>
      /\ files \in [Sets -> [Epochs -> FileSet]] /\ stages \in 0 .. MaxStages
  BY DEF StagerInv, Stages, DrawOthers, StageEnds, StagingTypeOK
<1>2. CASE UNCHANGED files /\ ~Mixes
  <2>1. ~Whole(files[stager.on][Slot])
    BY <1>1, <1>2 DEF Mixes, Stages, Whole
  <2> QED  BY <1>1, <1>2, <2>1, StageEnd
<1>3. CASE files' = [files EXCEPT ![stager.on][stager.into].others = stages]
  <2> DEFINE old == files[stager.on][Slot]
             new == [old EXCEPT !.others = stages]
  <2>1. old \in FileSet
    BY <1>0, <1>1
  <2>2. new \in FileSet /\ new.front = stages /\ new.others = stages
    <3> HIDE DEF old
    <3>1. old.front = stages
      BY <1>1 DEF old
    <3> QED  BY <1>1, <2>1, <3>1 DEF FileSet
  <2>3. files' = [files EXCEPT ![stager.on][Slot] = new]
    BY <1>1, <1>3
  <2> HIDE DEF new, old
  <2>4. /\ files' \in [Sets -> [Epochs -> FileSet]]
        /\ \A s \in Sets : \A e \in Epochs :
             files'[s][e] = IF s = stager.on /\ e = Slot THEN new ELSE files[s][e]
    BY <1>0, <1>1, <2>2, <2>3, CellReplaced
  <2> QED  BY <1>0, <1>1, <2>2, <2>4, StageEnd
<1> QED  BY <1>2, <1>3 DEF DrawOthers, StagingKept

LEMMA StageKilledStep ==
  ASSUME StagingKept, StagingInv, StageKilled PROVE StagingInv'
<1> USE DEF StagingInv
<1>0. Slot \in Epochs
  BY SlotInEpochs
<1>1. /\ stager.on \in Sets /\ stager.into = Slot /\ ~Stages("idle") /\ ~Mixes
      /\ stager' = NoStager
      /\ UNCHANGED <<epoch, files, beside, text, live, posing, approver, told, bounds>>
      /\ files \in [Sets -> [Epochs -> FileSet]]
  BY DEF StagerInv, StageKilled, StagingTypeOK, StagingKept
<1>2. Whole(files[stager.on][Slot]) =>
        files[stager.on][Slot].front = files[stager.on][Slot].others
  BY <1>0, <1>1 DEF StagerInv, Redrawn, Mixes, Stages, Whole
<1> QED  BY <1>1, <1>2, StageEnd

-----------------------------------------------------------------------------

LEMMA PromotionFrame ==
  ASSUME StagingInv, Stages("idle"), epoch <= stages,
         UNCHANGED <<epoch, files, beside, stager, stages>>
  PROVE  ClockInv' /\ StagerInv' /\ Slot' = Slot /\ Staged' = Staged
<1>1. Slot' = Slot /\ Staged' = Staged /\ Stages("idle")'
  BY DEF Slot, Staged, Stages
<1>2. ClockInv'
  BY <1>1 DEF StagingInv, ClockInv
<1>3. StagerInv'
  BY <1>1 DEF StagingInv, StagerInv, Redrawn, Stages
<1> QED  BY <1>1, <1>2, <1>3

LEMMA BeginPromotionStep ==
  ASSUME StagingKept, StagingInv, BeginPromotion PROVE StagingInv'
<1> USE DEF StagingInv
<1>0. Slot \in Epochs /\ Slot = epoch + 1 /\ epoch \in Nat
  BY SlotInEpochs DEF Slot
<1>1. /\ Approves("idle") /\ Staged # {} /\ ~Blocked /\ Stages("idle")
      /\ \A c \in Keyed : posing[c] = NoCard
      /\ approver' = [at |-> "hash", todo |-> Staged, done |-> {}]
      /\ UNCHANGED <<epoch, files, beside, text, live, posing, stager, told, bounds>>
  BY DEF BeginPromotion, StagingKept, Approves
<1>2. /\ epoch <= stages /\ \A s \in Sets : Behind(s)
      /\ approver'.at = "hash" /\ approver'.todo = Staged /\ approver'.done = {}
  BY <1>1 DEF ClockInv, ApproverInv
<1>3. ClockInv' /\ StagerInv' /\ Slot' = Slot /\ Staged' = Staged
  BY <1>1, <1>2, PromotionFrame DEF bounds
<1>4. StagingTypeOK'
  BY <1>1 DEF StagingTypeOK, live, bounds, Staged
<1>5. \A s \in Sets : shown[s] \in SetNumbers /\ entry[s].at \in SetNumbers
  BY DEF StagingTypeOK
<1>6. PromotionInv'
  BY <1>0, <1>1, <1>2, <1>3, <1>5
  DEF PromotionInv, Blocked, Behind, Waiting, Staged, Stages, live, Approves, SetNumbers
<1>7. ApproverInv'
  BY <1>2, <1>6 DEF ApproverInv, Approves
<1>8. LiveInv'
  BY <1>1 DEF LiveInv, Kept, NothingStranded, HintHolds, FrontOf, live
<1>9. TextInv'
  BY <1>0, <1>1, <1>2, <1>3, <1>5
  DEF TextInv, TextHolds, Earned, live, Behind, Staged, SetNumbers
<1> QED  BY <1>3, <1>4, <1>7, <1>8, <1>9

\* What holds while sets go live, one after the other.
LEMMA Promoting ==
  ASSUME StagingInv, ~Approves("idle")
  PROVE  /\ PromotionInv /\ Stages("idle") /\ epoch <= stages
         /\ Slot \in Epochs /\ Slot \in SetNumbers /\ Slot = epoch + 1 /\ epoch \in Nat
         /\ \A s \in Sets : shown[s] \in Nat /\ entry[s].at \in Nat
         /\ approver.todo \subseteq Sets
  BY SlotInEpochs
  DEF StagingInv, ApproverInv, PromotionInv, ClockInv, Slot, StagingTypeOK, SetNumbers

LEMMA HashStep ==
  ASSUME StagingInv, NEW s \in Sets, Hash(s) PROVE StagingInv'
<1> USE DEF StagingInv
<1>1. /\ approver.at = "hash" /\ s \in Waiting
      /\ entry' = [entry EXCEPT ![s] = [at |-> Slot, of |-> files[s][Slot]]]
      /\ approver' = [approver EXCEPT !.at = "publish"]
      /\ UNCHANGED <<epoch, files, beside, text, shown, published, hints, vouched,
                     posing, stager, told, stages, edited>>
  BY DEF Hash, Approves, Waiting, bounds
<1>2. ~Approves("idle")
  BY <1>1 DEF Approves
<1>3. ClockInv' /\ StagerInv' /\ Slot' = Slot /\ Staged' = Staged
  BY <1>1, <1>2, PromotionFrame, Promoting
<1>4. /\ approver'.at = "publish" /\ approver'.todo = approver.todo
      /\ approver'.done = approver.done /\ Waiting' = Waiting
  BY <1>1 DEF StagingTypeOK, Waiting
<1>5. \A r \in Sets : entry'[r] = IF r = s THEN [at |-> Slot, of |-> files[s][Slot]]
                                  ELSE entry[r]
  BY <1>1 DEF StagingTypeOK
<1>6. StagingTypeOK'
  <2>1. files[s][Slot] \in FileSet /\ Slot \in SetNumbers
    BY <1>2, Promoting DEF StagingTypeOK
  <2>2. entry' \in [Sets -> [at: SetNumbers, of: FileSet]]
    <3> HIDE DEF Slot
    <3> QED  BY <1>1, <2>1 DEF StagingTypeOK
  <2>3. approver' \in [at: {"idle", "hash", "publish", "retire", "raised"},
                       todo: SUBSET Sets, done: SUBSET Sets]
    BY <1>1 DEF StagingTypeOK
  <2> QED  BY <1>1, <2>2, <2>3 DEF StagingTypeOK
<1>7. Behind(s) /\ \A r \in Waiting : Behind(r)
  BY <1>1, <1>2, Promoting DEF PromotionInv, Approves
<1>8. PromotionInv'
  BY <1>1, <1>2, <1>3, <1>4, <1>5, <1>7, Promoting
  DEF PromotionInv, Behind, Waiting, Stages, Approves
<1>9. ApproverInv' /\ ~Approves("idle")'
  BY <1>4, <1>8 DEF ApproverInv, Approves
<1>10. LiveInv'
  <2>1. \A r \in Sets : shown[r] # 0 => Kept(r)'
    BY <1>1, <1>2, <1>5, <1>7, Promoting DEF LiveInv, Kept, Behind
  <2>2. \A r \in Standing : HintHolds(r)'
    BY <1>1, <1>2, <1>3, <1>4, <1>9 DEF LiveInv, HintHolds, FrontOf
  <2> QED  BY <1>1, <2>1, <2>2 DEF LiveInv, NothingStranded, FrontOf
<1>11. TextInv'
  BY <1>1, <1>2, <1>3, <1>4 DEF TextInv, TextHolds, Earned
<1> QED  BY <1>3, <1>6, <1>9, <1>10, <1>11

LEMMA GoLiveStep ==
  ASSUME StagingInv, NEW s \in Sets, GoLive(s) PROVE StagingInv'
<1> USE DEF StagingInv
<1>1. /\ approver.at = "publish" /\ s \in Waiting /\ entry[s].at = Slot
      /\ shown' = [shown EXCEPT ![s] = Slot]
      /\ published' = [published EXCEPT ![s] = files[s][Slot]]
      /\ vouched' = vouched \cup {text[KeyOf[s]]}
      /\ approver' = IF s \in Standing THEN [approver EXCEPT !.at = "retire"]
                     ELSE [approver EXCEPT !.at = "hash", !.done = @ \cup {s}]
      /\ UNCHANGED <<epoch, files, beside, text, entry, hints, posing, stager, told,
                     stages, edited>>
  BY DEF GoLive, Approves, Hashed, Waiting, bounds
<1>2. ~Approves("idle")
  BY <1>1 DEF Approves
<1>3. ClockInv' /\ StagerInv' /\ Slot' = Slot /\ Staged' = Staged
  BY <1>1, <1>2, PromotionFrame, Promoting
<1>4. /\ approver'.todo = approver.todo
      /\ IF s \in Standing
         THEN approver'.at = "retire" /\ approver'.done = approver.done
         ELSE approver'.at = "hash" /\ approver'.done = approver.done \cup {s}
  BY <1>1 DEF StagingTypeOK
<1>5. \A r \in Sets : /\ shown'[r] = IF r = s THEN Slot ELSE shown[r]
                      /\ published'[r] = IF r = s THEN files[s][Slot] ELSE published[r]
  BY <1>1 DEF StagingTypeOK
<1>6. StagingTypeOK'
  <2>1. files[s][Slot] \in FileSet /\ Slot \in SetNumbers
    BY <1>2, Promoting DEF StagingTypeOK
  <2>2. shown' \in [Sets -> SetNumbers] /\ published' \in [Sets -> FileSet]
    BY <1>1, <2>1 DEF StagingTypeOK
  <2>3. approver' \in [at: {"idle", "hash", "publish", "retire", "raised"},
                       todo: SUBSET Sets, done: SUBSET Sets]
    BY <1>1 DEF StagingTypeOK
  <2> QED  BY <1>1, <2>2, <2>3 DEF StagingTypeOK
<1>7. \A r \in Waiting : (entry[r].at <= epoch /\ shown[r] <= epoch) \/ r = s
  <2>1. ASSUME NEW r \in Waiting, r # s
        PROVE  shown[r] <= epoch /\ entry[r].at # Slot /\ entry[r].at <= Slot
    BY <1>1, <1>2, <2>1, Promoting DEF PromotionInv, Waiting
  <2>2. Waiting \subseteq Sets
    BY <1>2, Promoting DEF Waiting
  <2> QED  BY <1>2, <2>1, <2>2, Promoting
<1>8. PromotionInv'
  BY <1>1, <1>2, <1>3, <1>4, <1>5, <1>7, Promoting
  DEF PromotionInv, Behind, Waiting, Stages, Approves
<1>9. ApproverInv' /\ ~Approves("idle")'
  BY <1>4, <1>8 DEF ApproverInv, Approves
<1>10. LiveInv'
  <2>1. Kept(s)'
    <3>1. /\ Whole(files[s][Slot]) /\ files[s][Slot].front = files[s][Slot].others
          /\ entry[s].of = files[s][Slot]
      BY <1>1, <1>2, Promoting DEF PromotionInv, Waiting, StagerInv, Redrawn, Stages
    <3> QED  BY <1>1, <1>5, <3>1 DEF Kept, Whole
  <2>2. \A r \in Sets : shown'[r] # 0 => Kept(r)'
    BY <1>1, <1>5, <2>1 DEF LiveInv, Kept
  <2>3. NothingStranded'
    BY <1>1, <1>2, <1>5, Promoting DEF LiveInv, NothingStranded, PromotionInv
  <2>4. \A r \in Standing : HintHolds(r)'
    <3>1. HintHolds(s)' \/ s \notin Standing
      BY <1>1, <1>3, <1>4, <1>5, <1>9 DEF HintHolds, Waiting
    <3>2. ASSUME NEW r \in Standing, r # s PROVE HintHolds(r)'
      BY <1>1, <1>3, <1>4, <1>5, <1>9, <3>2, SetsKnown
      DEF LiveInv, HintHolds, FrontOf, Waiting
    <3> QED  BY <3>1, <3>2
  <2>5. \A r \in Standing : posing[KeyOf[r]] = NoCard
    BY <1>2, Promoting, SetsKnown DEF PromotionInv, Keyed
  <2> QED  BY <1>1, <2>2, <2>3, <2>4, <2>5 DEF LiveInv
<1>11. TextInv'
  BY <1>1, <1>2, <1>3, <1>4, <1>5 DEF TextInv, TextHolds, Earned
<1> QED  BY <1>3, <1>6, <1>9, <1>10, <1>11

LEMMA RetireHintsStep ==
  ASSUME OneStandingSet, StagingInv, NEW s \in Sets, RetireHints(s) PROVE StagingInv'
<1> USE DEF StagingInv
<1>1. /\ approver.at = "retire" /\ s \in Waiting /\ entry[s].at = Slot /\ shown[s] = Slot
      /\ hints' = [hints EXCEPT ![KeyOf[s]] = NoCard]
      /\ approver' = [approver EXCEPT !.at = "hash", !.done = @ \cup {s}]
      /\ UNCHANGED <<epoch, files, beside, text, shown, entry, published, vouched,
                     posing, stager, told, stages, edited>>
  BY DEF RetireHints, Approves, Hashed, Waiting, bounds
<1>2. ~Approves("idle")
  BY <1>1 DEF Approves
<1>3. ClockInv' /\ StagerInv' /\ Slot' = Slot /\ Staged' = Staged
  BY <1>1, <1>2, PromotionFrame, Promoting
<1>4. /\ approver'.todo = approver.todo /\ approver'.at = "hash"
      /\ approver'.done = approver.done \cup {s}
  BY <1>1 DEF StagingTypeOK
<1>5. \A c \in Keyed : hints'[c] \in {NoCard, hints[c]}
  BY <1>1 DEF StagingTypeOK
<1>6. s \in Standing /\ KeyOf[s] \in Keyed /\ hints'[KeyOf[s]] = NoCard
  BY <1>1, <1>2, Promoting, SetsKnown DEF PromotionInv, Approves, StagingTypeOK, Keyed
<1>7. StagingTypeOK'
  <2>1. hints' \in [Keyed -> 0 .. NoCard]
    <3>1. NoCard \in 0 .. NoCard
      BY StagesBounded DEF NoCard
    <3> QED  BY <1>1, <3>1 DEF StagingTypeOK
  <2>2. approver' \in [at: {"idle", "hash", "publish", "retire", "raised"},
                       todo: SUBSET Sets, done: SUBSET Sets]
    BY <1>1 DEF StagingTypeOK
  <2> QED  BY <1>1, <2>1, <2>2 DEF StagingTypeOK
<1>8. ASSUME NEW r \in Waiting, r # s PROVE Behind(r)
  BY <1>1, <1>2, <1>8, Promoting DEF PromotionInv, Waiting, Behind
<1>9. PromotionInv'
  BY <1>1, <1>2, <1>3, <1>4, <1>8, Promoting
  DEF PromotionInv, Behind, Waiting, Stages, Approves
<1>10. ApproverInv' /\ ~Approves("idle")'
  BY <1>4, <1>9 DEF ApproverInv, Approves
<1>11. LiveInv'
  <2>1. ASSUME NEW r \in Standing PROVE HintHolds(r)'
    <3>1. CASE r = s
      BY <1>6, <3>1 DEF HintHolds
    <3>2. CASE r # s
      BY <1>1, <1>3, <1>4, <1>5, <1>10, <3>2, SetsKnown
      DEF LiveInv, HintHolds, FrontOf, Waiting, Keyed
    <3> QED  BY <3>1, <3>2
  <2> QED  BY <1>1, <2>1 DEF LiveInv, NothingStranded, FrontOf, Kept
<1>12. TextInv'
  BY <1>1, <1>2, <1>3, <1>4 DEF TextInv, TextHolds, Earned
<1> QED  BY <1>3, <1>7, <1>10, <1>11, <1>12

LEMMA RaisesStep ==
  ASSUME StagingInv, Raises PROVE StagingInv'
<1> USE DEF StagingInv
<1>1. /\ approver.at \in {"hash", "publish", "retire"}
      /\ approver' = [approver EXCEPT !.at = "raised"]
      /\ UNCHANGED <<epoch, files, beside, text, shown, entry, published, hints, vouched,
                     posing, stager, told, stages, edited>>
  BY DEF Raises, bounds, live
<1>2. ~Approves("idle")
  BY <1>1 DEF Approves
<1>3. ClockInv' /\ StagerInv' /\ Slot' = Slot /\ Staged' = Staged
  BY <1>1, <1>2, PromotionFrame, Promoting
<1>4. /\ approver'.todo = approver.todo /\ approver'.at = "raised"
      /\ approver'.done = approver.done
  BY <1>1 DEF StagingTypeOK
<1>5. StagingTypeOK'
  BY <1>1 DEF StagingTypeOK
<1>6. PromotionInv'
  BY <1>1, <1>2, <1>3, <1>4, Promoting
  DEF PromotionInv, Behind, Waiting, Stages, Approves
<1>7. ApproverInv' /\ ~Approves("idle")'
  BY <1>4, <1>6 DEF ApproverInv, Approves
<1>8. LiveInv'
  BY <1>1, <1>2, <1>3, <1>4, <1>7
  DEF LiveInv, NothingStranded, HintHolds, FrontOf, Kept, Waiting
<1>9. TextInv'
  BY <1>1, <1>2, <1>3, <1>4 DEF TextInv, TextHolds, Earned
<1> QED  BY <1>3, <1>5, <1>7, <1>8, <1>9

\* At the end of a promotion every set that was staged has gone live or is told
\* of, and the slot of the next epoch is empty.
LEMMA FinishStep ==
  ASSUME StagingInv, Finish PROVE StagingInv'
<1> USE DEF StagingInv
<1>1. /\ Finished /\ beside' = Cleared /\ told' = told \cup Missed
      /\ epoch' = epoch + 1 /\ approver' = NoApprover
      /\ UNCHANGED <<files, text, shown, entry, published, hints, vouched,
                     posing, stager, stages, edited>>
  BY DEF Finish, live, bounds
<1>2. ~Approves("idle")
  BY <1>1 DEF Finished, Approves
<1>3. /\ PromotionInv /\ Stages("idle") /\ epoch <= stages /\ Slot = epoch + 1
      /\ epoch \in Nat /\ approver.todo \subseteq Sets /\ approver.todo = Staged
      /\ stages \in Nat /\ stages <= MaxStages /\ MaxStages \in Nat
  BY <1>2, Promoting, StagesBounded DEF PromotionInv, StagingTypeOK
<1>4. /\ Approves("idle")' /\ Stages("idle")' /\ Slot' = Slot + 1 /\ Slot' = epoch + 2
      /\ epoch' = Slot /\ Slot \in Epochs /\ Slot' \in Epochs
  BY <1>1, <1>3 DEF Approves, NoApprover, Slot, Stages, Epochs
<1>5. /\ beside' \in [Keyed -> [Epochs -> Directory]]
      /\ \A c \in Keyed : \A e \in Epochs :
           e # Slot => beside'[c][e] = beside[c][e]
  <2>1. \A c \in Keyed : beside[c] \in [Epochs -> Directory]
    BY DEF StagingTypeOK
  <2>2. None \in Text
    BY DEF None, Text
  <2>3. \A c \in Keyed : beside[c][Slot] \in Directory
    BY <1>4, <2>1
  <2>4. ASSUME NEW c \in Keyed
        PROVE  /\ Cleared[c] \in [Epochs -> Directory]
               /\ \A e \in Epochs : e # Slot => Cleared[c][e] = beside[c][e]
    <3>1. Cleared[c] = IF \E s \in approver.done : KeyOf[s] = c
                       THEN [beside[c] EXCEPT ![Slot] =
                              [beside[c][Slot] EXCEPT !.pre = None, !.post = None]]
                       ELSE beside[c]
      BY <1>4, <2>1 DEF Cleared
    <3>2. [beside[c][Slot] EXCEPT !.pre = None, !.post = None] \in Directory
      BY <2>2, <2>3 DEF Directory
    <3> QED  BY <1>4, <2>1, <3>1, <3>2
  <2>5. Cleared = [c \in Keyed |-> Cleared[c]]
    BY DEF Cleared
  <2> HIDE DEF Cleared
  <2> QED  BY <1>1, <2>4, <2>5
<1>6. StagingTypeOK'
  BY <1>1, <1>4, <1>5 DEF StagingTypeOK, NoApprover
<1>7. \A s \in Sets : \A e \in Epochs : e >= Slot' => files[s][e] = NoFiles
  BY <1>3, <1>4 DEF ClockInv, Epochs
<1>8. ClockInv'
  <2>1. Staged' = {}
    BY <1>1, <1>4, <1>7 DEF Staged, Touched, NoFiles, Epochs
  <2>2. ASSUME NEW c \in Keyed, NEW e \in Epochs, e >= Slot'
        PROVE  beside'[c][e] = NoDirectory
    <3>1. e > Slot /\ e # Slot
      BY <1>3, <1>4, <2>2 DEF Epochs
    <3> QED  BY <1>5, <3>1 DEF ClockInv
  <2>3. epoch' <= stages' + 1
    BY <1>1, <1>3
  <2>4. \A s \in Sets : \A e \in Epochs : e > Slot' => files'[s][e] = NoFiles
    BY <1>1, <1>4, <1>7 DEF Epochs
  <2>5. \A c \in Keyed : \A e \in Epochs :
          e > Slot' \/ (e = Slot' /\ ~beside'[c][e].made) => beside'[c][e] = NoDirectory
    BY <1>4, <2>2 DEF Epochs
  <2> QED  BY <1>4, <2>1, <2>3, <2>4, <2>5 DEF ClockInv
<1>9. StagerInv'
  BY <1>1, <1>3, <1>4 DEF StagerInv, Redrawn, Stages
<1>10. ApproverInv'
  BY <1>1, <1>2, <1>3, <1>4, Promoting DEF ApproverInv, PromotionInv, Behind
<1>11. ASSUME NEW s \in Staged
       PROVE  \/ shown[s] = Slot /\ s \in approver.done
              \/ KeyOf[s] \in told'
  BY <1>1, <1>3 DEF PromotionInv, Missed
<1>12. LiveInv'
  <2>1. NothingStranded'
    <3>1. ASSUME NEW s \in Sets, NEW e \in 1 .. epoch', Touched(files[s][e])
          PROVE  shown[s] >= e \/ KeyOf[s] \in told'
      <4>1. CASE e = Slot
        BY <1>2, <1>3, <1>11, <3>1, <4>1, Promoting DEF Staged
      <4>2. CASE e # Slot
        BY <1>1, <1>3, <1>4, <3>1, <4>2 DEF LiveInv, NothingStranded
      <4> QED  BY <4>1, <4>2
    <3> QED  BY <1>1, <3>1 DEF NothingStranded
  <2>2. ASSUME NEW s \in Standing PROVE HintHolds(s)'
    <3>1. CASE s \in Waiting /\ shown[s] = Slot
      BY <1>1, <3>1 DEF HintHolds, Missed, Waiting
    <3>2. CASE ~(s \in Waiting /\ shown[s] = Slot)
      BY <1>1, <3>2 DEF LiveInv, HintHolds, FrontOf
    <3> QED  BY <3>1, <3>2
  <2> QED  BY <1>1, <2>1, <2>2 DEF LiveInv, Kept, FrontOf
<1>13. ASSUME NEW c \in Keyed \ (Bare \cup told') PROVE TextHolds(c)'
  <2>1. TextHolds(c)
    BY <1>1, <1>13 DEF TextInv
  <2>2. Earned(text[c])
    <3>1. CASE beside[c][Slot].made
      <4>1. PICK s \in Staged : KeyOf[s] = c
        BY <1>3, <3>1 DEF PromotionInv, SetsOf
      <4> QED  BY <1>2, <1>3, <1>11, <1>13, <2>1, <4>1 DEF TextHolds
    <3>2. CASE ~beside[c][Slot].made
      BY <2>1, <3>2 DEF TextHolds
    <3> QED  BY <3>1, <3>2
  <2>3. ~beside'[c][Slot'].made
    BY <1>3, <1>4, <1>5 DEF ClockInv, NoDirectory
  <2> QED  BY <1>1, <1>4, <2>1, <2>2, <2>3 DEF TextHolds, Earned
<1> QED  BY <1>6, <1>8, <1>9, <1>10, <1>12, <1>13 DEF TextInv

-----------------------------------------------------------------------------

LEMMA RejectStep ==
  ASSUME StagingKept, StagingInv, NEW c \in Keyed, Reject(c) PROVE StagingInv'
<1> USE DEF StagingInv
<1> DEFINE there == beside[c][Slot]
<1>0. /\ Slot \in Epochs /\ Slot \in SetNumbers /\ Slot = epoch + 1 /\ epoch \in Nat
      /\ NoDirectory \in Directory /\ NoFiles \in FileSet /\ stages \in Nat
  BY SlotInEpochs, StagesBounded
  DEF Slot, NoDirectory, NoFiles, FileSet, Directory, Text, None
<1>1. /\ Approves("idle") /\ Stages("idle") /\ there.made
      /\ beside' = [beside EXCEPT ![c][Slot] = NoDirectory]
      /\ files' = [s \in Sets |->
           IF KeyOf[s] = c THEN [files[s] EXCEPT ![Slot] = NoFiles] ELSE files[s]]
      /\ UNCHANGED <<epoch, live, posing, stager, approver, stages, edited>>
      /\ Slot' = Slot /\ Approves("idle")' /\ Stages("idle")'
  BY DEF Reject, StagingKept, bounds, Slot, Stages, Approves
<1>2. \/ (there.pre = None \/ text[c] = there.pre) /\ UNCHANGED <<text, told>>
      \/ /\ there.pre # None /\ text' = [text EXCEPT ![c] = there.pre]
         /\ UNCHANGED told
      \/ told' = told \cup {c} /\ UNCHANGED text
  BY DEF Reject
<1>3. /\ beside' \in [Keyed -> [Epochs -> Directory]]
      /\ \A k \in Keyed : \A e \in Epochs :
           beside'[k][e] = IF k = c /\ e = Slot THEN NoDirectory ELSE beside[k][e]
  <2>1. beside \in [Keyed -> [Epochs -> Directory]]
    BY DEF StagingTypeOK
  <2> QED  BY <1>0, <1>1, <2>1, CellReplaced
<1>4. /\ files' \in [Sets -> [Epochs -> FileSet]]
      /\ \A s \in Sets : \A e \in Epochs :
           files'[s][e] = IF KeyOf[s] = c /\ e = Slot THEN NoFiles ELSE files[s][e]
  <2>1. \A s \in Sets : files[s] \in [Epochs -> FileSet]
    BY DEF StagingTypeOK
  <2> QED  BY <1>0, <1>1, <2>1
<1>5. there \in Directory /\ there.pre \in Text
  <2>1. there \in Directory
    BY <1>0 DEF StagingTypeOK
  <2> HIDE DEF there
  <2> QED  BY <2>1 DEF Directory
<1>6. text' \in [Keyed -> Text] /\ \A k \in Keyed : k # c => text'[k] = text[k]
  BY <1>2, <1>5 DEF StagingTypeOK
<1>7. StagingTypeOK'
  BY <1>1, <1>3, <1>4, <1>6 DEF StagingTypeOK, live
<1>8. ClockInv'
  <2>1. \A s \in Sets : Touched(files'[s][Slot]) => Touched(files[s][Slot])
    BY <1>0, <1>4 DEF Touched, NoFiles
  <2>2. Staged' # {} => Staged # {}
    BY <1>1, <2>1 DEF Staged
  <2>3. \A s \in Sets : \A e \in Epochs : e > Slot => files'[s][e] = NoFiles
    BY <1>4 DEF ClockInv
  <2>4. \A k \in Keyed : \A e \in Epochs :
          e > Slot \/ (e = Slot /\ ~beside'[k][e].made) => beside'[k][e] = NoDirectory
    BY <1>3 DEF ClockInv
  <2> QED  BY <1>1, <2>2, <2>3, <2>4 DEF ClockInv
<1>9. StagerInv'
  BY <1>1, <1>4 DEF StagerInv, Redrawn, Stages, Whole, NoFiles
<1>10. ApproverInv'
  BY <1>1 DEF ApproverInv, Behind, live
<1>11. LiveInv'
  <2>1. \A s \in Sets : \A e \in Epochs : e <= epoch => files'[s][e] = files[s][e]
    BY <1>0, <1>4 DEF Epochs
  <2>2. told \subseteq told'
    BY <1>2
  <2> QED  BY <1>1, <2>1, <2>2, LiveStands
<1>12. ASSUME NEW k \in Keyed \ (Bare \cup told') PROVE TextHolds(k)'
  <2>1. TextHolds(k)
    BY <1>2, <1>12 DEF TextInv
  <2>2. CASE k # c
    BY <1>0, <1>1, <1>3, <1>6, <2>1, <2>2 DEF TextHolds, Earned, live
  <2>3. CASE k = c
    <3>1. there.pre # None /\ Earned(there.pre) /\ ~beside'[c][Slot].made
      BY <1>0, <1>1, <1>3, <2>1, <2>3 DEF TextHolds, NoDirectory
    <3>2. text'[c] = there.pre
      BY <1>2, <1>12, <2>3, <3>1 DEF StagingTypeOK
    <3> HIDE DEF there
    <3> QED  BY <1>1, <2>3, <3>1, <3>2 DEF TextHolds, Earned, live
  <2> QED  BY <2>2, <2>3
<1> QED  BY <1>7, <1>8, <1>9, <1>10, <1>11, <1>12 DEF TextInv

LEMMA EditTextStep ==
  ASSUME StagingInv, NEW c \in Keyed, EditText(c) PROVE StagingInv'
<1> USE DEF StagingInv
<1>1. /\ text' = [text EXCEPT ![c] = <<"edit", edited + 1>>] /\ edited' = edited + 1
      /\ UNCHANGED <<epoch, files, beside, live, posing, stager, approver, told, stages>>
      /\ edited \in Nat
  BY DEF EditText, StagingTypeOK
<1>2. /\ text' \in [Keyed -> Text]
      /\ \A k \in Keyed :
           text'[k] = text[k] \/ (text'[k][1] = "edit" /\ text'[k] # None)
  BY <1>1 DEF StagingTypeOK, Text, None
<1>3. StagingTypeOK'
  BY <1>1, <1>2 DEF StagingTypeOK, live
<1>4. ClockInv' /\ StagerInv'
  BY <1>1 DEF ClockInv, StagerInv, Stages, Approves, Slot, Staged, InHand, Redrawn
<1>5. ApproverInv'
  BY <1>1 DEF ApproverInv, PromotionInv, Behind, Waiting, Stages, Approves, Slot, Staged,
     live
<1>6. LiveInv'
  BY <1>1 DEF LiveInv, Kept, NothingStranded, HintHolds, FrontOf, Waiting, Approves,
     Slot, live
<1>7. TextInv'
  BY <1>1, <1>2 DEF TextInv, TextHolds, Earned, Approves, Slot, live
<1> QED  BY <1>3, <1>4, <1>5, <1>6, <1>7

LEMMA PoseStep ==
  ASSUME StagingKept, OneStandingSet, StagingInv, NEW s \in Sets, Pose(s)
  PROVE  StagingInv'
<1> USE DEF StagingInv
<1>1. /\ s \in Standing /\ KeyOf[s] \in Keyed /\ Approves("idle")
      /\ posing' = [posing EXCEPT ![KeyOf[s]] = FrontOf(s)]
      /\ UNCHANGED <<epoch, files, beside, text, live, stager, approver, told, stages,
                     edited>>
  BY DEF Pose, StagingKept, Keyed, bounds
<1>2. FrontOf(s) \in 0 .. NoCard
  <2>1. ASSUME shown[s] # 0 PROVE FrontOf(s) \in 0 .. MaxStages
    <3>1. shown[s] \in Epochs
      BY <2>1, StagesBounded DEF StagingTypeOK, SetNumbers, Epochs
    <3> QED  BY <2>1, <3>1 DEF FrontOf, StagingTypeOK, FileSet
  <2> QED  BY <2>1, StagesBounded DEF FrontOf, NoCard
<1>3. StagingTypeOK'
  BY <1>1, <1>2 DEF StagingTypeOK, live
<1>4. ClockInv' /\ StagerInv'
  BY <1>1 DEF ClockInv, StagerInv, Stages, Approves, Slot, Staged, InHand, Redrawn
<1>5. ApproverInv'
  BY <1>1 DEF ApproverInv, Behind, Approves, live
<1>6. LiveInv'
  <2>1. ASSUME NEW t \in Standing PROVE posing'[KeyOf[t]] \in {NoCard, FrontOf(t)}
    BY <1>1, SetsKnown DEF LiveInv, OneStandingSet, StagingTypeOK
  <2>2. \A t \in Standing : FrontOf(t)' = FrontOf(t) /\ HintHolds(t)'
    BY <1>1 DEF LiveInv, HintHolds, FrontOf, Waiting, Approves, Slot, live
  <2> QED  BY <1>1, <2>1, <2>2 DEF LiveInv, Kept, NothingStranded, live
<1>7. TextInv'
  BY <1>1 DEF TextInv, TextHolds, Earned, Approves, Slot, live
<1> QED  BY <1>3, <1>4, <1>5, <1>6, <1>7

LEMMA SaveHintStep ==
  ASSUME StagingInv, NEW c \in Keyed, SaveHint(c) PROVE StagingInv'
<1> USE DEF StagingInv
<1>1. /\ posing[c] # NoCard
      /\ hints' = [hints EXCEPT ![c] = posing[c]]
      /\ posing' = [posing EXCEPT ![c] = NoCard]
      /\ UNCHANGED <<epoch, files, beside, text, shown, entry, published, vouched,
                     stager, approver, told, stages, edited>>
  BY DEF SaveHint, bounds
<1>2. Approves("idle")
  BY <1>1 DEF ApproverInv, PromotionInv
<1>3. StagingTypeOK'
  BY <1>1, StagesBounded DEF StagingTypeOK, NoCard
<1>4. ClockInv' /\ StagerInv'
  BY <1>1 DEF ClockInv, StagerInv, Stages, Approves, Slot, Staged, InHand, Redrawn
<1>5. ApproverInv'
  BY <1>1, <1>2 DEF ApproverInv, Behind, Approves
<1>6. LiveInv'
  <2>1. ASSUME NEW s \in Standing
        PROVE  HintHolds(s)' /\ posing'[KeyOf[s]] \in {NoCard, FrontOf(s)}
    <3>1. KeyOf[s] \in Keyed /\ FrontOf(s)' = FrontOf(s)
      BY <1>1, SetsKnown DEF Keyed, FrontOf
    <3>2. /\ posing[KeyOf[s]] \in {NoCard, FrontOf(s)}
          /\ hints[KeyOf[s]] \in {NoCard, FrontOf(s)} \/ KeyOf[s] \in told
      BY <1>2 DEF LiveInv, HintHolds
    <3>3. /\ hints'[KeyOf[s]] \in {hints[KeyOf[s]], posing[KeyOf[s]]}
          /\ posing'[KeyOf[s]] \in {NoCard, posing[KeyOf[s]]}
      BY <1>1, <3>1 DEF StagingTypeOK
    <3> QED  BY <1>1, <3>1, <3>2, <3>3 DEF HintHolds
  <2> QED  BY <1>1, <2>1 DEF LiveInv, Kept, NothingStranded, FrontOf
<1>7. TextInv'
  BY <1>1 DEF TextInv, TextHolds, Earned, Approves, Slot
<1> QED  BY <1>3, <1>4, <1>5, <1>6, <1>7

LEMMA StagingStep ==
  StagingKept /\ OneStandingSet /\ StagingInv /\ [StagingNext]_stagingVars => StagingInv'
<1> SUFFICES ASSUME StagingKept, OneStandingSet, StagingInv, [StagingNext]_stagingVars
             PROVE  StagingInv'
  OBVIOUS
<1>1. CASE UNCHANGED stagingVars
  <2> USE <1>1 DEF stagingVars, StagingInv
  <2>1. StagingTypeOK' /\ ClockInv' /\ StagerInv'
    BY DEF StagingTypeOK, ClockInv, StagerInv, Stages, Approves, Slot, Staged, InHand,
       Redrawn
  <2>2. ApproverInv'
    BY DEF ApproverInv, PromotionInv, Behind, Waiting, Stages, Approves, Slot, Staged
  <2>3. LiveInv' /\ TextInv'
    BY DEF LiveInv, Kept, NothingStranded, HintHolds, FrontOf, Waiting, Approves, Slot,
       TextInv, TextHolds, Earned
  <2> QED  BY <2>1, <2>2, <2>3
<1>2. ~PromotionKilled
  BY DEF PromotionKilled, StagingKept
<1> QED
  BY <1>1, <1>2, BeginStageStep, DrawFrontStep, ReadFrontStep, DrawOthersStep,
     StageKilledStep, BeginPromotionStep, HashStep, GoLiveStep, RetireHintsStep,
     RaisesStep, FinishStep, RejectStep, EditTextStep, PoseStep, SaveHintStep
  DEF StagingNext

LEMMA StagingShows == StagingInv => StagingIsAllOrNothing
<1> SUFFICES ASSUME StagingInv PROVE LiveIsKept /\ RejectedTextGoes
  BY DEF StagingIsAllOrNothing
<1>1. LiveIsKept
  BY DEF StagingInv, LiveInv, LiveIsKept, HintsOfTheFront, HintHolds
<1>2. RejectedTextGoes
  BY DEF StagingInv, TextInv, TextHolds, Earned, RejectedTextGoes
<1> QED  BY <1>1, <1>2

-----------------------------------------------------------------------------
(* The sprites. *)

\* A card that a render holds is not promoted meanwhile.
LightKept == "promoted" \notin LightFaults

RelitTypeOK ==
  /\ relit \in [Filmed -> [of: 0 .. NoCard, since: SetNumbers, whole: BOOLEAN]]
  /\ lighting \in [Filmed -> [at: {"idle", "resolved", "asked"}, from: SetNumbers, since: SetNumbers]]

\* A sprite of this epoch, stored or under way, is of the card that is shown:
\* whatever a promotion replaces is of the epoch before once it has ended.
LightHolds(s) ==
  /\ lighting[s].at = "asked" =>
       /\ lighting[s].since <= epoch
       /\ Approves("idle") /\ lighting[s].since = epoch => lighting[s].from = shown[s]
  /\ relit[s].since <= epoch
  /\ Approves("idle") /\ Hit(s, epoch) => relit[s].of = FrontOf(s)
RelitInv == RelitTypeOK /\ \A s \in Filmed : LightHolds(s)

LEMMA RelitBegins == CardsInit => RelitInv
  BY StagesBounded, RelightsBounded
  DEF CardsInit, StagingInit, LightingInit, RelitInv, RelitTypeOK, LightHolds, NoSprite,
      Unlit, NoCard, SetNumbers, Hit

\* The scripts change what is shown only while a promotion goes on, and it ends
\* with a new epoch.
LEMMA EpochCovers ==
  ASSUME StagingKept, StagingInv, StagingNext
  PROVE  \/ epoch' = epoch + 1
         \/ epoch' = epoch /\ ~Approves("idle")'
         \/ /\ epoch' = epoch /\ Approves("idle") /\ shown' = shown
            /\ \A s \in Sets : FrontOf(s)' = FrontOf(s)
<1> USE DEF StagingInv
<1>0. Slot = epoch + 1 /\ epoch \in Nat /\ Slot \in Epochs
  BY SlotInEpochs DEF Slot
<1>1. ASSUME Approves("idle"), UNCHANGED <<epoch, shown>>,
             \A s \in Sets : \A e \in Epochs : e <= epoch => files'[s][e] = files[s][e]
      PROVE  \A s \in Sets : FrontOf(s)' = FrontOf(s)
  <2>1. \A s \in Sets : shown[s] = 0 \/ (shown[s] \in Epochs /\ shown[s] <= epoch)
    BY <1>1, StagesBounded DEF ApproverInv, Behind, StagingTypeOK, SetNumbers, Epochs
  <2> QED  BY <1>1, <2>1 DEF FrontOf
<1>2. ASSUME NEW s \in Sets, BeginStage(s) \/ Pose(s)
      PROVE  Approves("idle") /\ UNCHANGED <<epoch, shown, files>>
  BY <1>2 DEF BeginStage, Pose, StagingKept, Approves, live
<1>3. ASSUME ReadFront \/ StageKilled \/ (\E c \in Keyed : SaveHint(c))
      PROVE  Approves("idle") /\ UNCHANGED <<epoch, shown, files>>
  BY <1>3 DEF ReadFront, StageKilled, SaveHint, StagerInv, ApproverInv, PromotionInv,
     Stages, live
<1>4. ASSUME DrawFront \/ DrawOthers
      PROVE  /\ Approves("idle") /\ UNCHANGED <<epoch, shown>>
             /\ \A s \in Sets : \A e \in Epochs : e <= epoch => files'[s][e] = files[s][e]
  <2>1. /\ Approves("idle") /\ UNCHANGED <<epoch, shown>>
        /\ stager.on \in Sets /\ stager.into = Slot
    BY <1>4 DEF DrawFront, DrawOthers, StagerInv, Stages, live
  <2>2. \/ UNCHANGED files
        \/ files' = [files EXCEPT ![stager.on][Slot] = [@ EXCEPT !["front"] = stages]]
        \/ files' = [files EXCEPT ![stager.on][Slot].others = stages]
    BY <1>4, <2>1 DEF DrawFront, DrawOthers, Draw
  <2>3. ASSUME NEW s \in Sets, NEW e \in Epochs, e # Slot
        PROVE  files'[s][e] = files[s][e]
    <3> DEFINE a == [files[stager.on][Slot] EXCEPT !["front"] = stages]
               b == [files[stager.on][Slot] EXCEPT !.others = stages]
    <3>1. files \in [Sets -> [Epochs -> FileSet]]
      BY DEF StagingTypeOK
    <3>2. \/ UNCHANGED files
          \/ files' = [files EXCEPT ![stager.on][Slot] = a]
          \/ files' = [files EXCEPT ![stager.on][Slot] = b]
      BY <1>0, <2>1, <2>2, <3>1
    <3> HIDE DEF a, b
    <3> QED  BY <2>1, <2>3, <3>1, <3>2
  <2> QED  BY <1>0, <2>1, <2>3 DEF Epochs
<1>5. ASSUME NEW c \in Keyed, Reject(c)
      PROVE  /\ Approves("idle") /\ UNCHANGED <<epoch, shown>>
             /\ \A s \in Sets : \A e \in Epochs : e <= epoch => files'[s][e] = files[s][e]
  <2>1. /\ Approves("idle") /\ UNCHANGED <<epoch, shown>>
        /\ files' = [s \in Sets |->
             IF KeyOf[s] = c THEN [files[s] EXCEPT ![Slot] = NoFiles] ELSE files[s]]
    BY <1>5 DEF Reject, live
  <2>2. \A s \in Sets : \A e \in Epochs : e # Slot => files'[s][e] = files[s][e]
    BY <2>1 DEF StagingTypeOK
  <2> QED  BY <1>0, <2>1, <2>2 DEF Epochs
<1>6. ASSUME NEW c \in Keyed, EditText(c)
      PROVE  UNCHANGED <<epoch, shown, files, approver>>
  BY <1>6 DEF EditText, live
<1>7. ASSUME BeginPromotion \/ Raises \/ \E s \in Sets : Hash(s) \/ GoLive(s) \/ RetireHints(s)
      PROVE  epoch' = epoch /\ ~Approves("idle")'
  <2>1. epoch' = epoch /\ approver'.at # "idle"
    <3>1. CASE BeginPromotion \/ Raises
      BY <3>1 DEF BeginPromotion, Raises, StagingTypeOK
    <3>2. CASE \E s \in Sets : Hash(s) \/ RetireHints(s)
      BY <3>2 DEF Hash, RetireHints, StagingTypeOK
    <3>3. CASE \E s \in Sets : GoLive(s)
      BY <3>3 DEF GoLive, StagingTypeOK
    <3> QED  BY <1>7, <3>1, <3>2, <3>3
  <2> QED  BY <2>1 DEF Approves
<1>8. ~PromotionKilled
  BY DEF PromotionKilled, StagingKept
<1>9. Finish => epoch' = epoch + 1
  BY DEF Finish
<1> QED
  BY <1>1, <1>2, <1>3, <1>4, <1>5, <1>6, <1>7, <1>8, <1>9
  DEF StagingNext, Approves

LEMMA RelitStep ==
  StagingKept /\ LightKept /\ StagingInv /\ RelitInv /\ [CardsNext]_<<stagingVars, relitVars>>
    => RelitInv'
<1> SUFFICES ASSUME StagingKept, LightKept, StagingInv, RelitInv,
                    [CardsNext]_<<stagingVars, relitVars>>
             PROVE  RelitInv'
  OBVIOUS
<1>0. epoch \in Nat /\ epoch \in SetNumbers
  BY StagesBounded DEF StagingInv, StagingTypeOK, Epochs, SetNumbers
<1>1. CASE UNCHANGED <<stagingVars, relitVars>>
  BY <1>1 DEF stagingVars, relitVars, RelitInv, RelitTypeOK, LightHolds, Hit, FrontOf,
     Approves
<1>2. CASE StagingNext /\ UNCHANGED relitVars
  <2>1. ASSUME NEW s \in Filmed PROVE LightHolds(s)'
    <3>1. LightHolds(s) /\ s \in Sets /\ relit[s].since \in Nat /\ lighting[s].since \in Nat
      BY RelightsBounded, StagesBounded DEF RelitInv, RelitTypeOK, SetNumbers
    <3>2. CASE epoch' = epoch + 1
      BY <1>0, <1>2, <3>1, <3>2 DEF relitVars, LightHolds, Hit
    <3>3. CASE epoch' = epoch /\ ~Approves("idle")'
      BY <1>2, <3>1, <3>3 DEF relitVars, LightHolds
    <3>4. CASE epoch' = epoch /\ Approves("idle") /\ shown' = shown /\ FrontOf(s)' = FrontOf(s)
      BY <1>2, <3>1, <3>4 DEF relitVars, LightHolds, Hit
    <3> QED  BY <1>2, <3>1, <3>2, <3>3, <3>4, EpochCovers
  <2> QED  BY <1>2, <2>1 DEF relitVars, RelitInv, RelitTypeOK
<1>3. ASSUME NEW s \in Filmed, Resolve(s), UNCHANGED stagingVars PROVE RelitInv'
  <2>1. shown[s] \in SetNumbers /\ 0 \in SetNumbers
    BY RelightsBounded, StagesBounded DEF StagingInv, StagingTypeOK, SetNumbers
  <2> QED
    BY <1>3, <2>1
    DEF Resolve, stagingVars, RelitInv, RelitTypeOK, LightHolds, Hit, FrontOf, Approves
<1>4. ASSUME NEW s \in Filmed, Look(s), UNCHANGED stagingVars PROVE RelitInv'
  <2>1. Unlit \in [at: {"idle", "resolved", "asked"}, from: SetNumbers, since: SetNumbers]
    BY StagesBounded DEF Unlit, SetNumbers
  <2>2. /\ lighting[s].from = shown[s] /\ relit' = relit
        /\ lighting' \in {[lighting EXCEPT ![s] = Unlit],
                          [lighting EXCEPT ![s].at = "asked", ![s].since = epoch]}
    BY <1>4 DEF Look, LightKept
  <2>3. RelitTypeOK'
    BY <1>0, <2>1, <2>2 DEF RelitInv, RelitTypeOK
  <2>4. ASSUME NEW t \in Filmed PROVE LightHolds(t)'
    BY <1>0, <1>4, <2>2
    DEF stagingVars, RelitInv, RelitTypeOK, LightHolds, Hit, FrontOf, Approves, Unlit
  <2> QED  BY <2>3, <2>4 DEF RelitInv
<1>5. ASSUME NEW s \in Filmed, Store(s), UNCHANGED stagingVars PROVE RelitInv'
  <2> DEFINE new == [of |-> FrontIn(s, lighting[s].from), since |-> lighting[s].since,
                     whole |-> TRUE]
  <2>1. Unlit \in [at: {"idle", "resolved", "asked"}, from: SetNumbers, since: SetNumbers]
    BY StagesBounded DEF Unlit, SetNumbers
  <2>2. /\ lighting[s].at = "asked" /\ lighting' = [lighting EXCEPT ![s] = Unlit]
        /\ \/ relit' = [relit EXCEPT ![s] = new]
           \/ relit' = relit
           \/ relit' = [relit EXCEPT ![s].whole = @ /\ relit[s].since # new.since]
    BY <1>5 DEF Store
  <2>3. s \in Sets /\ lighting[s].from \in SetNumbers /\ lighting[s].since \in SetNumbers
    BY RelightsBounded DEF RelitInv, RelitTypeOK
  <2>4. FrontIn(s, lighting[s].from) \in 0 .. NoCard
    <3>1. ASSUME lighting[s].from # 0 PROVE FrontIn(s, lighting[s].from) \in 0 .. MaxStages
      <4>1. lighting[s].from \in Epochs
        BY <2>3, <3>1, StagesBounded DEF SetNumbers, Epochs
      <4> QED  BY <2>3, <3>1, <4>1 DEF FrontIn, StagingInv, StagingTypeOK, FileSet
    <3> QED  BY <3>1, StagesBounded DEF FrontIn, NoCard
  <2>5. PICK w \in BOOLEAN : \/ relit' = [relit EXCEPT ![s] = new]
                             \/ /\ relit' = [relit EXCEPT ![s].whole = w]
                                /\ w => relit[s].whole
    <3> DEFINE b == relit[s].whole /\ relit[s].since # new.since
    <3>1. [relit EXCEPT ![s].whole = @ /\ relit[s].since # new.since] =
            [relit EXCEPT ![s].whole = b]
      BY DEF RelitInv, RelitTypeOK
    <3>2. relit = [relit EXCEPT ![s].whole = relit[s].whole] /\ relit[s].whole \in BOOLEAN
      BY DEF RelitInv, RelitTypeOK
    <3> QED  BY <2>2, <3>1, <3>2
  <2>6. new \in [of: 0 .. NoCard, since: SetNumbers, whole: BOOLEAN]
    BY <2>3, <2>4
  <2>7. RelitTypeOK'
    <3> HIDE DEF new
    <3> QED  BY <2>1, <2>2, <2>5, <2>6 DEF RelitInv, RelitTypeOK
  <2>8. Approves("idle") /\ new.since = epoch => new.of = FrontOf(s)
    BY <2>2 DEF RelitInv, LightHolds, FrontIn, FrontOf
  <2>9. new.since <= epoch
    BY <2>2 DEF RelitInv, LightHolds
  <2>10. ASSUME NEW t \in Filmed PROVE LightHolds(t)'
    <3>1. CASE t = s
      <4>1. lighting'[s].at = "idle"
        BY <2>2 DEF RelitInv, RelitTypeOK, Unlit
      <4>2. relit'[s] = new \/ (relit'[s].since = relit[s].since /\ relit'[s].of = relit[s].of
                                /\ (relit'[s].whole => relit[s].whole))
        BY <2>5 DEF RelitInv, RelitTypeOK
      <4> HIDE DEF new
      <4> QED
        BY <1>5, <2>8, <2>9, <3>1, <4>1, <4>2
        DEF stagingVars, RelitInv, LightHolds, Hit, FrontOf, Approves
    <3>2. CASE t # s
      <4>1. lighting'[t] = lighting[t] /\ relit'[t] = relit[t]
        BY <2>2, <2>5, <3>2 DEF RelitInv, RelitTypeOK
      <4> QED
        BY <1>5, <4>1 DEF stagingVars, RelitInv, LightHolds, Hit, FrontOf, Approves
    <3> QED  BY <3>1, <3>2
  <2> QED  BY <2>7, <2>10 DEF RelitInv
<1> QED  BY <1>1, <1>2, <1>3, <1>4, <1>5 DEF CardsNext, LightingNext

LEMMA RelitShows == RelitInv => SpritesAreOfTheirCards
  BY DEF RelitInv, LightHolds, SpritesAreOfTheirCards

-----------------------------------------------------------------------------
(* The cast. *)

CastsTypeOK ==
  /\ rows \in [Keys -> Row \cup {NoRow}]
  /\ art \in [Keys -> [Views -> Painters]]
  /\ cards \in [Poses -> Nat]
  /\ task \in [Runs -> Task]
  /\ lastId \in Nat

\* The run draws the entity, or an offshoot.
DrawsEntity(r) ==
  \/ task[r].pc \in {"search", "describe"}
  \/ task[r].pc \in {"angles", "image"} /\ task[r].left = {}
DrawsOffshoot(r) ==
  task[r].pc \in {"angles", "image", "reading"} /\ task[r].left # {}

\* What a run's locals hold from step to step.
LocalsHold(r) ==
  /\ task[r].pc \in {"new", "create", "search", "describe"} => task[r].left = {}
  /\ task[r].pc \in {"ask", "save"} => task[r].left \subseteq DOMAIN Hints
  /\ task[r].pc \in {"adopt", "angles", "image", "reading"} =>
       task[r].left \subseteq DOMAIN Offshoots
  /\ task[r].pc \in {"save", "reading"} => task[r].left # {}
  /\ task[r].pc \notin {"angles", "image", "reading"} => task[r].drawn = {}
  /\ task[r].pc = "image" => Drawing(r)

\* A derived key's angles come of the front, and the front of a run.
FromTheFront(k, seen) ==
  seen # {} => "front" \in seen /\ \A a \in seen : art[k][a] \in Runs
DrawnFromTheFront(r) ==
  DrawsOffshoot(r) =>
    /\ FromTheFront(Key(r), task[r].drawn)
    /\ task[r].pc = "image" =>
         task[r].painter \in Runs /\ (View(r) = "front" \/ "front" \in task[r].drawn)

\* A pose under way is of the row its key has.
PoseOfTheRow(r) ==
  task[r].pc = "save" =>
    Anchored(Hinted(r)[1]) /\ rows[Hinted(r)[1]].id = task[r].id

\* A row of the entity is filled by the run that made it and by no other.
RowIsOfTheRun(r) ==
  DrawsEntity(r) =>
    /\ task[r].id <= lastId
    /\ Holds(r, Entity) => Shown(Entity) = {}
    /\ \A q \in Runs : DrawsEntity(q) /\ task[q].id = task[r].id => q = r

CardOfTheRow(p) ==
  cards[p] # 0 => Anchored(p[1]) /\ rows[p[1]].id = cards[p]

Unedited ==
  /\ CastsTypeOK
  /\ \A r \in Runs :
       LocalsHold(r) /\ DrawnFromTheFront(r) /\ PoseOfTheRow(r) /\ RowIsOfTheRun(r)
  /\ \A k \in Derived : FromTheFront(k, Shown(k))
  /\ \A p \in Poses : CardOfTheRow(p)
CastsInv == edits \in Nat /\ (edits = 0 => Unedited)

\* Every set of naturals has a least element.
LEMMA NaturalsAreOrdered ==
  \E R : /\ IsWellFoundedOn(R, Nat)
         /\ \A x, y \in Nat : <<x, y>> \in R <=> x < y
<1>1. IsWellFoundedOn(OpToRel(<, Nat), Nat)
  BY NatLessThanWellFounded
<1>2. \A x, y \in Nat : <<x, y>> \in OpToRel(<, Nat) <=> x < y
  BY DEF OpToRel
<1> QED  BY <1>1, <1>2, Zenon

LEMMA MinIsThere ==
  ASSUME NEW S, S \subseteq Nat, S # {}
  PROVE  Min(S) \in S /\ \A y \in S : Min(S) <= y
<1>1. PICK R : IsWellFoundedOn(R, Nat) /\ \A x, y \in Nat : <<x, y>> \in R <=> x < y
  BY NaturalsAreOrdered, Zenon
<1>2. IsWellFoundedOn(R, Nat)
  BY <1>1
<1>3. PICK x \in S : \A y \in S : ~ (<<y, x>> \in R)
  BY <1>2, WFMin, Zenon
<1>4. ASSUME NEW y \in S PROVE x <= y
  <2>1. x \in Nat /\ y \in Nat
    OBVIOUS
  <2>2. ~ (y < x)
    BY <2>1, <1>1, <1>3
  <2> QED  BY <2>1, <2>2
<1> QED  BY <1>4, Zenon DEF Min

LEMMA CastBegins == Init => CastsInv
<1> SUFFICES ASSUME Init PROVE CastsInv
  OBVIOUS
<1> USE DEF Init
<1>1. 1 \in 1 .. Len(Angles) + 1
  BY AnglesAssumption
<1>2. CastsTypeOK
  <2>1. Idle("new") \in Task
    BY <1>1 DEF Idle, Task, Pc, Painters
  <2> QED  BY <2>1 DEF CastsTypeOK, Painters
<1>3. ASSUME NEW r \in Runs PROVE task[r].pc = "new" /\ task[r].left = {} /\ task[r].drawn = {}
  BY DEF Idle
<1>4. ASSUME NEW r \in Runs
      PROVE  LocalsHold(r) /\ DrawnFromTheFront(r) /\ PoseOfTheRow(r) /\ RowIsOfTheRun(r)
  BY <1>3 DEF LocalsHold, DrawnFromTheFront, PoseOfTheRow, RowIsOfTheRun, DrawsEntity, DrawsOffshoot
<1>5. \A k \in Derived : FromTheFront(k, Shown(k))
  BY DEF FromTheFront, Shown, Present, Keys
<1> QED  BY <1>2, <1>4, <1>5 DEF CastsInv, Unedited, CardOfTheRow

\* What a run has in hand is of the cast.
LEMMA HeadInHand ==
  ASSUME CastsTypeOK, NEW r \in Runs, LocalsHold(r), task[r].left # {}
  PROVE  /\ Min(task[r].left) \in task[r].left
         /\ task[r].pc \in {"ask", "save"} => Hinted(r) \in Poses /\ Hinted(r)[1] \in Keys
         /\ task[r].pc \in {"adopt", "angles", "image", "reading"} =>
              Offshoot(r) \in Derived /\ Offshoot(r) \in Keys /\ Offshoot(r) # Entity
<1>1. Min(task[r].left) \in task[r].left
  <2>1. task[r].left \subseteq Nat
    BY DEF CastsTypeOK, Task
  <2> QED  BY <2>1, MinIsThere
<1>2. ASSUME task[r].pc \in {"ask", "save"} PROVE Hinted(r) \in Poses /\ Hinted(r)[1] \in Keys
  <2>1. Min(task[r].left) \in DOMAIN Hints
    BY <1>1, <1>2 DEF LocalsHold
  <2>2. Hinted(r) \in ({Entity} \cup ToSet(Offshoots)) \X STRING
    BY <2>1, HintsAssumption DEF Hinted
  <2> QED  BY <2>1, <2>2 DEF Poses, Keys, Derived, ToSet, Hinted
<1>3. ASSUME task[r].pc \in {"adopt", "angles", "image", "reading"}
      PROVE  Offshoot(r) \in Derived
  <2>1. Min(task[r].left) \in DOMAIN Offshoots
    BY <1>1, <1>3 DEF LocalsHold
  <2> QED  BY <2>1 DEF Derived, ToSet, Offshoot
<1> QED  BY <1>1, <1>2, <1>3, OffshootsAssumption DEF Keys, Derived

LEMMA ViewsAreViews ==
  /\ "front" \in Views
  /\ \A r \in Runs : CastsTypeOK /\ Drawing(r) => View(r) \in Views
<1>1. 1 \in DOMAIN Angles
  BY AnglesAssumption
<1>2. "front" \in Views
  BY <1>1, AnglesAssumption, Zenon DEF Views, ToSet
<1>3. ASSUME NEW r \in Runs, CastsTypeOK, Drawing(r) PROVE View(r) \in Views
  <2>1. task[r].angle \in 1 .. Len(Angles) + 1
    BY <1>3 DEF CastsTypeOK, Task
  <2>2. task[r].angle \in DOMAIN Angles
    BY <2>1, <1>3, AnglesAssumption DEF Drawing
  <2> QED  BY <2>2, Zenon DEF Views, ToSet, View
<1> QED  BY <1>2, <1>3

\* What a step may do to the tables without disturbing a run at work.
KeepsPaint ==
  \A k \in Derived : \A a \in Views : art[k][a] \in Runs => art'[k][a] \in Runs
KeepsAnchors ==
  \A k \in Keys : Anchored(k) => Anchored(k)' /\ rows'[k].id = rows[k].id
KeepsShown == \A k \in Keys : Shown(k) \subseteq Shown(k)'
KeepsFilling ==
  /\ lastId <= lastId'
  /\ \A q \in Runs :
       task'[q] = task[q] /\ DrawsEntity(q) /\ Holds(q, Entity)' /\ Shown(Entity)' # {}
         => Holds(q, Entity) /\ Shown(Entity) # {}

LEMMA OthersGoOn ==
  ASSUME Unedited, CastsTypeOK', KeepsPaint, KeepsAnchors, KeepsFilling,
         NEW r \in Runs, NEW t \in Task, task' = [task EXCEPT ![r] = t],
         DrawsEntity(r)' => t.id > lastId \/ (DrawsEntity(r) /\ t.id = task[r].id),
         NEW q \in Runs, q # r
  PROVE  (LocalsHold(q) /\ DrawnFromTheFront(q) /\ PoseOfTheRow(q) /\ RowIsOfTheRun(q))'
<1> USE DEF Unedited
<1>1. task'[q] = task[q] /\ task'[r] = t
  BY DEF CastsTypeOK
<1>2. LocalsHold(q)'
  BY <1>1 DEF LocalsHold, Drawing
<1>3. DrawnFromTheFront(q)'
  <2> SUFFICES ASSUME DrawsOffshoot(q)
               PROVE  /\ FromTheFront(Key(q), task[q].drawn)'
                      /\ task[q].pc = "image" =>
                           /\ task[q].painter \in Runs
                           /\ View(q) = "front" \/ "front" \in task[q].drawn
    BY <1>1 DEF DrawnFromTheFront, DrawsOffshoot, View
  <2>1. Key(q)' = Key(q)
    BY <1>1 DEF Key, Offshoot
  <2>5. Key(q) \in Derived
    BY HeadInHand DEF Key, DrawsOffshoot
  <2>2. task[q].drawn \subseteq Views
    BY DEF CastsTypeOK, Task
  <2>3. FromTheFront(Key(q), task[q].drawn)
    BY DEF DrawnFromTheFront
  <2>4. FromTheFront(Key(q), task[q].drawn)'
    BY <1>1, <2>1, <2>5, <2>2, <2>3 DEF FromTheFront, KeepsPaint
  <2> QED  BY <2>4 DEF DrawnFromTheFront
<1>4. PoseOfTheRow(q)'
  <2> SUFFICES ASSUME task[q].pc = "save"
               PROVE  Anchored(Hinted(q)[1])' /\ rows'[Hinted(q)[1]].id = task[q].id
    BY <1>1 DEF PoseOfTheRow, Hinted
  <2>1. Hinted(q)' = Hinted(q) /\ Hinted(q)[1] \in Keys
    BY <1>1, HeadInHand DEF Hinted, LocalsHold
  <2>2. Anchored(Hinted(q)[1]) /\ rows[Hinted(q)[1]].id = task[q].id
    BY DEF PoseOfTheRow
  <2>3. PICK k \in Keys : k = Hinted(q)[1]
    BY <2>1
  <2>4. Anchored(k)' /\ rows'[k].id = task[q].id
    BY <2>2, <2>3 DEF KeepsAnchors
  <2>5. Anchored(Hinted(q)[1])' <=> Anchored(k)'
    BY <2>1, <2>3 DEF Anchored, Shown, Described, Present
  <2> QED  BY <2>3, <2>4, <2>5
<1>5. RowIsOfTheRun(q)'
  <2> SUFFICES ASSUME DrawsEntity(q)'
               PROVE  /\ task'[q].id <= lastId'
                      /\ Holds(q, Entity)' => Shown(Entity)' = {}
                      /\ \A p \in Runs : DrawsEntity(p)' /\ task'[p].id = task'[q].id => p = q
    BY DEF RowIsOfTheRun
  <2>1. DrawsEntity(q) /\ RowIsOfTheRun(q)
    BY <1>1 DEF DrawsEntity
  <2>2. task[q].id \in Nat /\ t.id \in Nat /\ lastId \in Nat /\ lastId' \in Nat
    BY DEF CastsTypeOK, Task
  <2>3. task'[q].id <= lastId'
    BY <1>1, <2>1, <2>2 DEF RowIsOfTheRun, KeepsFilling
  <2>4. Holds(q, Entity)' => Shown(Entity)' = {}
    BY <1>1, <2>1 DEF RowIsOfTheRun, KeepsFilling
  <2>5. ASSUME NEW p \in Runs, DrawsEntity(p)', task'[p].id = task'[q].id PROVE p = q
    <3>1. CASE p = r
      BY <1>1, <2>1, <2>2, <2>5, <3>1 DEF RowIsOfTheRun
    <3>2. CASE p # r
      <4>1. task'[p] = task[p]
        BY <3>2 DEF CastsTypeOK
      <4> QED  BY <1>1, <2>1, <2>5, <4>1 DEF RowIsOfTheRun, DrawsEntity
    <3> QED  BY <3>1, <3>2
  <2> QED  BY <2>3, <2>4, <2>5
<1> QED  BY <1>2, <1>3, <1>4, <1>5

LEMMA TablesGoOn ==
  ASSUME Unedited, KeepsPaint, KeepsAnchors,
         \A k \in Derived : Shown(k)' \in {Shown(k), {}},
         \A p \in Poses : cards'[p] \in {cards[p], 0}
  PROVE  /\ \A k \in Derived : FromTheFront(k, Shown(k))'
         /\ \A p \in Poses : CardOfTheRow(p)'
<1>1. ASSUME NEW k \in Derived PROVE FromTheFront(k, Shown(k))'
  <2>1. FromTheFront(k, Shown(k)) /\ Shown(k)' \in {Shown(k), {}}
    BY DEF Unedited
  <2>2. Shown(k) \subseteq Views
    BY DEF Unedited, CastsTypeOK, Shown, Present, Row, Keys
  <2> QED  BY <2>1, <2>2 DEF FromTheFront, KeepsPaint
<1>2. ASSUME NEW p \in Poses PROVE CardOfTheRow(p)'
  <2> SUFFICES ASSUME cards'[p] # 0 PROVE Anchored(p[1])' /\ rows'[p[1]].id = cards'[p]
    BY DEF CardOfTheRow
  <2>1. cards'[p] = cards[p] /\ Anchored(p[1]) /\ rows[p[1]].id = cards[p]
    BY DEF Unedited, CardOfTheRow
  <2>2. p[1] \in Keys
    BY HintsAssumption DEF Poses, ToSet, Keys, Derived
  <2> QED  BY <2>1, <2>2 DEF KeepsAnchors
<1> QED  BY <1>1, <1>2

\* A step of one run.
LEMMA RunStep ==
  ASSUME Unedited, CastsTypeOK', KeepsPaint, KeepsAnchors, KeepsFilling, KeepsShown,
         NEW r \in Runs, NEW t \in Task, task' = [task EXCEPT ![r] = t],
         DrawsEntity(r)' => t.id > lastId \/ (DrawsEntity(r) /\ t.id = task[r].id),
         LocalsHold(r)', DrawnFromTheFront(r)', PoseOfTheRow(r)',
         DrawsEntity(r)' => t.id <= lastId' /\ (Holds(r, Entity)' => Shown(Entity)' = {}),
         \A k \in Derived : FromTheFront(k, Shown(k))',
         \A p \in Poses : CardOfTheRow(p)'
  PROVE  Unedited' /\ KeepsShown
<1>1. task'[r] = t
  BY DEF Unedited, CastsTypeOK
<1>2. RowIsOfTheRun(r)'
  <2>1. ASSUME DrawsEntity(r)', NEW p \in Runs, DrawsEntity(p)', t.id = task'[p].id PROVE p = r
    <3> SUFFICES ASSUME p # r PROVE FALSE
      OBVIOUS
    <3>1. task'[p] = task[p] /\ DrawsEntity(p)
      BY <2>1 DEF Unedited, CastsTypeOK, DrawsEntity
    <3>2. task[p].id \in Nat /\ t.id \in Nat /\ lastId \in Nat /\ task[p].id <= lastId
      BY <3>1 DEF Unedited, CastsTypeOK, Task, RowIsOfTheRun
    <3>3. DrawsEntity(r) /\ t.id = task[r].id
      BY <2>1, <3>1, <3>2
    <3> QED  BY <2>1, <3>1, <3>3 DEF Unedited, RowIsOfTheRun
  <2> QED  BY <1>1, <2>1 DEF RowIsOfTheRun
<1>3. ASSUME NEW q \in Runs
      PROVE  (LocalsHold(q) /\ DrawnFromTheFront(q) /\ PoseOfTheRow(q) /\ RowIsOfTheRun(q))'
  <2>1. CASE q = r
    BY <2>1, <1>2
  <2>2. CASE q # r
    BY <2>2, OthersGoOn
  <2> QED  BY <2>1, <2>2
<1> QED  BY <1>3 DEF Unedited

\* A step that leaves the tables alone.
LEMMA StillStep ==
  ASSUME Unedited, UNCHANGED <<rows, art, cards, lastId>>,
         NEW r \in Runs, NEW t \in Task, task' = [task EXCEPT ![r] = t],
         DrawsEntity(r)' => DrawsEntity(r) /\ t.id = task[r].id,
         LocalsHold(r)', DrawnFromTheFront(r)', PoseOfTheRow(r)'
  PROVE  Unedited' /\ KeepsShown
<1>1. CastsTypeOK'
  BY DEF Unedited, CastsTypeOK
<1>2. \A k : Shown(k)' = Shown(k) /\ (Anchored(k)' <=> Anchored(k))
  BY DEF Shown, Anchored, Present, Described
<1>3. lastId \in Nat
  BY DEF Unedited, CastsTypeOK
<1>4. KeepsPaint /\ KeepsAnchors /\ KeepsFilling /\ KeepsShown
  BY <1>2, <1>3 DEF KeepsPaint, KeepsAnchors, KeepsFilling, KeepsShown, Holds, Present
<1>5. /\ \A k \in Derived : FromTheFront(k, Shown(k))'
      /\ \A p \in Poses : CardOfTheRow(p)'
  BY <1>2, <1>4, TablesGoOn
<1>6. task'[r] = t
  BY DEF Unedited, CastsTypeOK
<1>7. ASSUME DrawsEntity(r)' PROVE t.id <= lastId' /\ (Holds(r, Entity)' => Shown(Entity)' = {})
  BY <1>2, <1>6, <1>7 DEF Unedited, RowIsOfTheRun, Holds, Present
<1> QED  BY <1>1, <1>4, <1>5, <1>7, RunStep

LEMMA CheckStep ==
  ASSUME Unedited, NEW r \in Runs, Check(r) PROVE Unedited' /\ KeepsShown
<1> USE DEF Unedited
<1>1. PICK pc \in {"scenario", "create"} : task' = [task EXCEPT ![r].pc = pc]
  BY DEF Check, Goto
<1> DEFINE t == [task[r] EXCEPT !.pc = pc]
<1>2. t \in Task /\ t.pc = pc /\ t.left = task[r].left /\ t.drawn = task[r].drawn
  BY DEF CastsTypeOK, Task, Pc, Provisioning
<1>3. task' = [task EXCEPT ![r] = t] /\ task'[r] = t
  BY <1>1 DEF CastsTypeOK
<1>4. task[r].left = {} /\ task[r].drawn = {}
  BY DEF Check, At, LocalsHold
<1> HIDE DEF t
<1>5. /\ LocalsHold(r)' /\ DrawnFromTheFront(r)' /\ PoseOfTheRow(r)' /\ ~ DrawsEntity(r)'
  BY <1>2, <1>3, <1>4 DEF LocalsHold, DrawnFromTheFront, PoseOfTheRow, DrawsEntity, DrawsOffshoot
<1> QED  BY <1>2, <1>3, <1>5, StillStep DEF Check

LEMMA GenerateStep ==
  ASSUME Unedited, NEW r \in Runs, Generate(r) PROVE Unedited' /\ KeepsShown
<1> USE DEF Unedited
<1>0. /\ task[r].pc = "angles" /\ Drawing(r) /\ UNCHANGED <<rows, art, cards, lastId>>
      /\ task[r] \in Task
  BY DEF Generate, At, CastsTypeOK
<1>1. PICK t \in Task :
        /\ task' = [task EXCEPT ![r] = t]
        /\ t.id = task[r].id /\ t.left = task[r].left /\ t.drawn = task[r].drawn
        /\ \/ t.pc = "angles"
           \/ /\ t.pc = "image" /\ t.angle = task[r].angle
              /\ Key(r) # Entity => (View(r) = "front" \/ "front" \in task[r].drawn)
              /\ t.painter = IF Key(r) = Entity THEN Reference
                             ELSE IF View(r) = "front" THEN r ELSE art[Key(r)]["front"]
  <2>1. CASE task' = [task EXCEPT ![r].angle = @ + 1]
    <3> DEFINE t == [task[r] EXCEPT !.angle = @ + 1]
    <3>1. task' = [task EXCEPT ![r] = t]
      BY <2>1
    <3>2. t \in Task
      BY <1>0, AnglesAssumption DEF Task, Drawing
    <3>3. t.id = task[r].id /\ t.left = task[r].left /\ t.drawn = task[r].drawn /\ t.pc = "angles"
      BY <1>0 DEF Task
    <3> QED  BY <3>1, <3>2, <3>3
  <2>2. CASE task' # [task EXCEPT ![r].angle = @ + 1]
    <3> DEFINE who == IF Key(r) = Entity THEN Reference
                      ELSE IF View(r) = "front" THEN r ELSE art[Key(r)]["front"]
               t == [task[r] EXCEPT !.pc = "image", !.painter = who]
    <3>1. /\ task' = [task EXCEPT ![r].pc = "image", ![r].painter = who]
          /\ Key(r) # Entity => (View(r) = "front" \/ "front" \in task[r].drawn)
      BY <2>2 DEF Generate
    <3>2. who \in Painters
      <4>1. Key(r) \in Keys
        BY <1>0, HeadInHand DEF Key, Keys
      <4> QED  BY <4>1, ViewsAreViews DEF CastsTypeOK, Painters
    <3> HIDE DEF who
    <3>3. t \in Task
      BY <1>0, <3>2 DEF Task, Pc, Provisioning
    <3>4. task' = [task EXCEPT ![r] = t]
      BY <3>1
    <3>5. /\ t.id = task[r].id /\ t.left = task[r].left /\ t.drawn = task[r].drawn
          /\ t.pc = "image" /\ t.angle = task[r].angle /\ t.painter = who
      BY <1>0 DEF Task
    <3> QED  BY <3>1, <3>3, <3>4, <3>5 DEF who
  <2> QED  BY <2>1, <2>2
<1>2. task'[r] = t
  BY <1>1 DEF CastsTypeOK
<1>3. LocalsHold(r)' /\ PoseOfTheRow(r)'
  BY <1>0, <1>1, <1>2 DEF LocalsHold, PoseOfTheRow, Drawing
<1>4. DrawsEntity(r)' => DrawsEntity(r) /\ t.id = task[r].id
  BY <1>0, <1>1, <1>2 DEF DrawsEntity
<1>5. DrawnFromTheFront(r)'
  <2> SUFFICES ASSUME task[r].left # {}
               PROVE  /\ FromTheFront(Key(r), task[r].drawn)
                      /\ t.pc = "image" =>
                           t.painter \in Runs /\ (View(r) = "front" \/ "front" \in task[r].drawn)
    BY <1>0, <1>1, <1>2 DEF DrawnFromTheFront, DrawsOffshoot, FromTheFront, View, Key, Offshoot
  <2>1. FromTheFront(Key(r), task[r].drawn)
    BY <1>0 DEF DrawnFromTheFront, DrawsOffshoot
  <2>2. Key(r) # Entity
    BY <1>0, HeadInHand DEF Key
  <2> QED  BY <1>1, <2>1, <2>2 DEF FromTheFront
<1> QED  BY <1>0, <1>1, <1>3, <1>4, <1>5, StillStep

LEMMA GeneratedStep ==
  ASSUME Unedited, NEW r \in Runs, Generated(r) PROVE Unedited' /\ KeepsShown
<1> USE DEF Unedited
<1>0. /\ task[r].pc = "image" /\ Drawing(r) /\ UNCHANGED <<rows, cards, lastId>>
      /\ task[r] \in Task /\ View(r) \in Views
  BY ViewsAreViews DEF Generated, At, CastsTypeOK, LocalsHold
<1>1. /\ task[r].angle \in Nat /\ task[r].angle + 1 \in 1 .. Len(Angles) + 1
      /\ Key(r) \in Keys
      /\ task[r].left # {} => Key(r) \in Derived
      /\ task[r].left = {} => Key(r) = Entity
  <2>1. task[r].angle \in Nat /\ task[r].angle + 1 \in 1 .. Len(Angles) + 1
    BY <1>0, AnglesAssumption DEF Task, Drawing
  <2> QED  BY <2>1, <1>0, HeadInHand DEF Key, Keys
<1>2. PICK t \in Task :
        /\ task' = [task EXCEPT ![r] = t] /\ t.id = task[r].id /\ t.left = task[r].left
        /\ \/ /\ art' = [art EXCEPT ![Key(r)][View(r)] = task[r].painter]
              /\ t.drawn = task[r].drawn \cup {View(r)}
              /\ t.pc = "angles" \/ (t.pc = "reading" /\ Key(r) \in Derived)
           \/ art' = art /\ t.drawn = task[r].drawn /\ t.pc = "angles"
  <2>1. CASE /\ art' = [art EXCEPT ![Key(r)][View(r)] = task[r].painter]
             /\ task' = [task EXCEPT
                  ![r].pc = IF Key(r) \in Derived /\ View(r) = "front"
                            THEN "reading" ELSE "angles",
                  ![r].angle = @ + 1, ![r].painter = Nobody,
                  ![r].drawn = @ \cup {View(r)}]
    <3> DEFINE pc == IF Key(r) \in Derived /\ View(r) = "front" THEN "reading" ELSE "angles"
               t == [task[r] EXCEPT !.pc = pc, !.angle = @ + 1, !.painter = Nobody,
                                    !.drawn = @ \cup {View(r)}]
    <3>1. pc \in Pc /\ (pc = "angles" \/ (pc = "reading" /\ Key(r) \in Derived))
      BY DEF Pc, Provisioning
    <3>2. task' = [task EXCEPT ![r] = t]
      BY <2>1
    <3> HIDE DEF pc
    <3>3. t \in Task
      BY <1>0, <1>1, <3>1 DEF Task, Painters
    <3>4. /\ t.id = task[r].id /\ t.left = task[r].left /\ t.pc = pc
          /\ t.drawn = task[r].drawn \cup {View(r)}
      BY <1>0 DEF Task
    <3> QED  BY <2>1, <3>1, <3>2, <3>3, <3>4
  <2>2. CASE /\ task' = [task EXCEPT ![r].pc = "angles", ![r].angle = @ + 1,
                                     ![r].painter = Nobody]
             /\ UNCHANGED art
    <3> DEFINE t == [task[r] EXCEPT !.pc = "angles", !.angle = @ + 1, !.painter = Nobody]
    <3>1. t \in Task
      BY <1>0, <1>1 DEF Task, Pc, Provisioning, Painters
    <3>2. task' = [task EXCEPT ![r] = t]
      BY <2>2
    <3>3. /\ t.id = task[r].id /\ t.left = task[r].left /\ t.drawn = task[r].drawn
          /\ t.pc = "angles"
      BY <1>0 DEF Task
    <3> QED  BY <2>2, <3>1, <3>2, <3>3
  <2> QED  BY <2>1, <2>2 DEF Generated
<1>3. task'[r] = t
  BY <1>2 DEF CastsTypeOK
<1>4. LocalsHold(r)' /\ PoseOfTheRow(r)'
  BY <1>0, <1>1, <1>2, <1>3, OffshootsAssumption
  DEF LocalsHold, PoseOfTheRow, Drawing, Derived
<1>5. DrawsEntity(r)' => DrawsEntity(r) /\ t.id = task[r].id
  BY <1>0, <1>2, <1>3 DEF DrawsEntity
<1>6. CASE art' = art /\ t.drawn = task[r].drawn /\ t.pc = "angles"
  <2>1. DrawnFromTheFront(r)'
    BY <1>0, <1>2, <1>3, <1>6
    DEF DrawnFromTheFront, DrawsOffshoot, FromTheFront, Key, Offshoot
  <2> QED  BY <1>0, <1>2, <1>4, <1>5, <1>6, <2>1, StillStep
<1>7. CASE /\ art' = [art EXCEPT ![Key(r)][View(r)] = task[r].painter]
           /\ t.drawn = task[r].drawn \cup {View(r)}
           /\ t.pc = "angles" \/ (t.pc = "reading" /\ Key(r) \in Derived)
  <2>1. /\ art' \in [Keys -> [Views -> Painters]]
        /\ \A k \in Keys : \A a \in Views :
             art'[k][a] = IF k = Key(r) /\ a = View(r) THEN task[r].painter ELSE art[k][a]
    <3>1. task[r].painter \in Painters
      BY <1>0 DEF Task
    <3>2. art \in [Keys -> [Views -> Painters]]
      BY DEF CastsTypeOK
    <3> DEFINE drawn == [art EXCEPT ![Key(r)][View(r)] = task[r].painter]
    <3>3. /\ drawn \in [Keys -> [Views -> Painters]]
          /\ \A k \in Keys : \A a \in Views :
               drawn[k][a] = IF k = Key(r) /\ a = View(r) THEN task[r].painter ELSE art[k][a]
      BY <1>0, <1>1, <3>1, <3>2, CellReplaced
    <3>4. art' = drawn
      BY <1>7
    <3> HIDE DEF drawn
    <3> QED  BY <3>3, <3>4
  <2>2. task[r].left # {} =>
          /\ FromTheFront(Key(r), task[r].drawn) /\ task[r].painter \in Runs
          /\ View(r) = "front" \/ "front" \in task[r].drawn
    BY <1>0 DEF DrawnFromTheFront, DrawsOffshoot
  <2>3. KeepsPaint
    BY <1>1, <2>1, <2>2, OffshootsAssumption DEF KeepsPaint, Keys, Derived
  <2>4. \A k : Shown(k)' = Shown(k) /\ (Anchored(k)' <=> Anchored(k))
    BY <1>0 DEF Shown, Anchored, Present, Described
  <2>5. KeepsAnchors /\ KeepsFilling /\ KeepsShown
    BY <1>0, <2>4 DEF KeepsAnchors, KeepsFilling, KeepsShown, Holds, Present, CastsTypeOK
  <2>6. CastsTypeOK'
    BY <1>0, <1>2, <2>1 DEF CastsTypeOK
  <2>7. DrawnFromTheFront(r)'
    <3> SUFFICES ASSUME task[r].left # {} PROVE FromTheFront(Key(r), t.drawn)'
      BY <1>2, <1>3, <1>7 DEF DrawnFromTheFront, DrawsOffshoot
    <3>1. Key(r)' = Key(r)
      BY <1>2, <1>3 DEF Key, Offshoot
    <3>3. Key(r) \in Keys
      BY <1>1
    <3>2. task[r].drawn \subseteq Views
      BY <1>0 DEF Task
    <3>4. /\ "front" \in t.drawn
          /\ \A a \in t.drawn : art'[Key(r)][a] \in Runs
      BY <1>0, <1>7, <2>1, <2>2, <3>2, <3>3 DEF FromTheFront
    <3> QED  BY <3>1, <3>4 DEF FromTheFront
  <2>8. /\ \A k \in Derived : FromTheFront(k, Shown(k))'
        /\ \A p \in Poses : CardOfTheRow(p)'
    BY <1>0, <2>3, <2>4, <2>5, TablesGoOn
  <2>9. DrawsEntity(r)' => t.id <= lastId' /\ (Holds(r, Entity)' => Shown(Entity)' = {})
    BY <1>0, <1>2, <1>3, <1>5, <2>4 DEF RowIsOfTheRun, Holds, Present
  <2> QED  BY <1>2, <1>4, <1>5, <2>3, <2>5, <2>6, <2>7, <2>8, <2>9, RunStep
<1> QED  BY <1>2, <1>6, <1>7

\* What a step of one run may do to the tables.
TablesKept ==
  /\ rows' \in [Keys -> Row \cup {NoRow}]
  /\ art' \in [Keys -> [Views -> Painters]]
  /\ cards' \in [Poses -> Nat]
  /\ lastId' \in Nat
  /\ KeepsPaint /\ KeepsAnchors /\ KeepsFilling /\ KeepsShown
  /\ \A k \in Derived : FromTheFront(k, Shown(k))'
  /\ \A p \in Poses : CardOfTheRow(p)'

LEMMA StillTables ==
  ASSUME Unedited, UNCHANGED <<rows, art, cards, lastId>> PROVE TablesKept
<1>1. \A k : Shown(k)' = Shown(k) /\ (Anchored(k)' <=> Anchored(k))
  BY DEF Shown, Anchored, Present, Described
<1>2. lastId \in Nat
  BY DEF Unedited, CastsTypeOK
<1>3. KeepsPaint /\ KeepsAnchors /\ KeepsFilling /\ KeepsShown
  BY <1>1, <1>2 DEF KeepsPaint, KeepsAnchors, KeepsFilling, KeepsShown, Holds, Present
<1> QED  BY <1>1, <1>3, TablesGoOn DEF TablesKept, Unedited, CastsTypeOK

LEMMA EraseTables ==
  ASSUME Unedited, NEW k \in Keys, Shown(k) = {}, Erase(k), UNCHANGED <<art, lastId>>
  PROVE  TablesKept
<1> USE DEF Unedited, CastsTypeOK
<1>1. rows' \in [Keys -> Row \cup {NoRow}] /\ cards' \in [Poses -> Nat]
  BY DEF Erase
<1>2. Shown(k)' = {} /\ ~ Anchored(k)
  BY DEF Erase, Shown, Present, Anchored
<1>3. ASSUME NEW j \in Keys, j # k
      PROVE  rows'[j] = rows[j] /\ Shown(j)' = Shown(j) /\ (Anchored(j)' <=> Anchored(j))
  BY <1>3 DEF Erase, Shown, Present, Anchored, Described
<1>4. \A p \in Poses : cards'[p] \in {cards[p], 0}
  BY DEF Erase
<1>5. KeepsPaint /\ KeepsAnchors /\ KeepsShown
  BY <1>2, <1>3 DEF KeepsPaint, KeepsAnchors, KeepsShown
<1>6. KeepsFilling
  BY <1>2, <1>3 DEF KeepsFilling, Holds, Present, Keys
<1>7. \A j \in Derived : Shown(j)' \in {Shown(j), {}}
  BY <1>2, <1>3 DEF Keys
<1> QED  BY <1>1, <1>4, <1>5, <1>6, <1>7, TablesGoOn DEF TablesKept

LEMMA InsertTables ==
  ASSUME Unedited, NEW k \in Keys, ~ Present(k), NEW d \in BOOLEAN, Insert(k, d),
         UNCHANGED <<art, cards>>
  PROVE  TablesKept /\ Shown(k)' = {} /\ rows'[k].id = lastId'
<1> USE DEF Unedited, CastsTypeOK
<1> DEFINE new == [id |-> lastId + 1, described |-> d, shown |-> {}]
<1>0. new \in Row /\ new.shown = {} /\ new.id = lastId + 1
  BY DEF Row
<1>1. rows' \in [Keys -> Row \cup {NoRow}] /\ lastId' \in Nat /\ rows'[k] = new
  BY <1>0 DEF Insert
<1> HIDE DEF new
<1>2. Shown(k) = {} /\ Shown(k)' = {} /\ ~ Anchored(k)
  BY <1>0, <1>1 DEF Shown, Anchored, Described
<1>3. ASSUME NEW j \in Keys, j # k
      PROVE  rows'[j] = rows[j] /\ Shown(j)' = Shown(j) /\ (Anchored(j)' <=> Anchored(j))
  BY <1>3 DEF Insert, Shown, Present, Anchored, Described
<1>4. KeepsPaint /\ KeepsAnchors /\ KeepsShown
  BY <1>2, <1>3 DEF KeepsPaint, KeepsAnchors, KeepsShown
<1>5. KeepsFilling
  BY <1>2, <1>3 DEF KeepsFilling, Holds, Present, Keys, Insert
<1>6. \A j \in Derived : Shown(j)' \in {Shown(j), {}}
  BY <1>2, <1>3 DEF Keys
<1>7. rows'[k].id = lastId'
  BY <1>0, <1>1 DEF Insert
<1> QED  BY <1>1, <1>2, <1>4, <1>5, <1>6, <1>7, TablesGoOn DEF TablesKept

LEMMA DescribeTables ==
  ASSUME Unedited, NEW k \in Keys, Present(k),
         rows' = [rows EXCEPT ![k].described = TRUE], UNCHANGED <<art, cards, lastId>>
  PROVE  /\ TablesKept /\ Shown(Entity)' = Shown(Entity)
         /\ \A r \in Runs : task'[r].id = task[r].id /\ Holds(r, Entity)' => Holds(r, Entity)
<1> USE DEF Unedited, CastsTypeOK
<1> DEFINE new == [rows[k] EXCEPT !.described = TRUE]
<1>0. rows[k] \in Row /\ new \in Row /\ new.shown = rows[k].shown /\ new.id = rows[k].id
  /\ new.described = TRUE
  BY DEF Row, Present
<1>1. rows' \in [Keys -> Row \cup {NoRow}] /\ rows'[k] = new /\ rows' = [rows EXCEPT ![k] = new]
  BY <1>0
<1> HIDE DEF new
<1>2. ASSUME NEW j \in Keys
      PROVE  /\ Present(j)' <=> Present(j)
             /\ rows'[j].id = rows[j].id
             /\ Shown(j)' = Shown(j) /\ (Anchored(j) => Anchored(j)')
  <2>1. CASE j = k
    BY <1>0, <1>1, <2>1, NoRowAssumption DEF Shown, Present, Anchored, Described
  <2>2. CASE j # k
    BY <1>1, <2>2 DEF Shown, Present, Anchored, Described
  <2> QED  BY <2>1, <2>2
<1>3. Entity \in Keys /\ \A j \in Derived : j \in Keys
  BY DEF Keys
<1>4. KeepsPaint /\ KeepsAnchors /\ KeepsShown
  BY <1>2 DEF KeepsPaint, KeepsAnchors, KeepsShown
<1>5. KeepsFilling
  BY <1>2, <1>3 DEF KeepsFilling, Holds
<1> QED  BY <1>1, <1>2, <1>3, <1>4, <1>5, TablesGoOn DEF TablesKept, Holds

LEMMA ShowTables ==
  ASSUME Unedited, NEW r \in Runs, NEW k \in Keys, Holds(r, k),
         k = Entity => DrawsEntity(r) /\ task'[r] # task[r],
         k # Entity => FromTheFront(k, task[r].drawn),
         rows' = [rows EXCEPT ![k].shown = @ \cup task[r].drawn],
         UNCHANGED <<art, cards, lastId>>
  PROVE  TablesKept
<1> USE DEF Unedited, CastsTypeOK
<1> DEFINE new == [rows[k] EXCEPT !.shown = @ \cup task[r].drawn]
<1>0. /\ rows[k] \in Row /\ new \in Row /\ new.shown = rows[k].shown \cup task[r].drawn
      /\ new.id = rows[k].id /\ new.described = rows[k].described
  <2>1. task[r].drawn \subseteq Views
    BY DEF Task
  <2> QED  BY <2>1 DEF Row, Present, Holds
<1>1. rows' \in [Keys -> Row \cup {NoRow}] /\ rows'[k] = new /\ rows' = [rows EXCEPT ![k] = new]
  BY <1>0
<1> HIDE DEF new
<1>2. ASSUME NEW j \in Keys, j # k
      PROVE  /\ Present(j)' <=> Present(j)
             /\ rows'[j].id = rows[j].id
             /\ Shown(j)' = Shown(j) /\ (Anchored(j) => Anchored(j)')
  BY <1>1, <1>2 DEF Shown, Present, Anchored, Described
<1>3. /\ Present(k) /\ Present(k)' /\ rows'[k].id = rows[k].id
      /\ Shown(k)' = Shown(k) \cup task[r].drawn
      /\ Anchored(k) => Anchored(k)'
  BY <1>0, <1>1, NoRowAssumption DEF Shown, Present, Anchored, Described, Holds
<1>4. KeepsPaint /\ KeepsAnchors /\ KeepsShown
  BY <1>2, <1>3 DEF KeepsPaint, KeepsAnchors, KeepsShown
<1>5. KeepsFilling
  <2>1. lastId <= lastId'
    OBVIOUS
  <2>2. ASSUME NEW q \in Runs, task'[q] = task[q], DrawsEntity(q), Holds(q, Entity)',
               Shown(Entity)' # {}
        PROVE  Holds(q, Entity) /\ Shown(Entity) # {}
    <3>1. CASE k = Entity
      <4>1. task[q].id = task[r].id
        BY <1>3, <2>2, <3>1 DEF Holds
      <4>2. q = r
        BY <4>1, <2>2, <3>1 DEF RowIsOfTheRun
      <4> QED  BY <4>2, <2>2, <3>1
    <3>2. CASE k # Entity
      BY <1>2, <2>2, <3>2 DEF Holds, Keys
    <3> QED  BY <3>1, <3>2
  <2> QED  BY <2>1, <2>2 DEF KeepsFilling
<1>6. ASSUME NEW j \in Derived PROVE FromTheFront(j, Shown(j))'
  <2>0. FromTheFront(j, Shown(j)) /\ j # Entity /\ j \in Keys
    BY OffshootsAssumption DEF Derived, Keys
  <2>1. CASE j # k
    BY <1>2, <2>0, <2>1 DEF FromTheFront
  <2>2. CASE j = k
    BY <1>3, <2>0, <2>2 DEF FromTheFront
  <2> QED  BY <2>1, <2>2
<1>7. ASSUME NEW p \in Poses PROVE CardOfTheRow(p)'
  <2>1. p[1] \in Keys
    BY HintsAssumption DEF Poses, ToSet, Keys, Derived
  <2> QED  BY <1>4, <2>1 DEF CardOfTheRow, KeepsAnchors
<1> QED  BY <1>1, <1>4, <1>5, <1>6, <1>7 DEF TablesKept

\* A run that ends its step between two works.
LEMMA RestStep ==
  ASSUME Unedited, TablesKept, NEW r \in Runs, NEW t \in Task, task' = [task EXCEPT ![r] = t],
         t.pc \in {"scenario", "film", "ask", "adopt"}, t.drawn = {},
         t.pc = "ask" => t.left \subseteq DOMAIN Hints,
         t.pc = "adopt" => t.left \subseteq DOMAIN Offshoots
  PROVE  Unedited' /\ KeepsShown
<1>1. task'[r] = t /\ CastsTypeOK'
  BY DEF Unedited, CastsTypeOK, TablesKept
<1>2. LocalsHold(r)' /\ DrawnFromTheFront(r)' /\ PoseOfTheRow(r)' /\ ~ DrawsEntity(r)'
  BY <1>1 DEF LocalsHold, DrawnFromTheFront, PoseOfTheRow, DrawsEntity, DrawsOffshoot
<1> QED  BY <1>1, <1>2, RunStep DEF TablesKept

LEMMA Leaves ==
  ASSUME CastsTypeOK, NEW r \in Runs, NEW pc \in Pc, NEW gaps \in SUBSET (Keys \cup Poses),
         Leave(r, pc, gaps)
  PROVE  \E t \in Task : /\ task' = [task EXCEPT ![r] = t]
                         /\ t.pc = pc /\ t.left = {} /\ t.drawn = {}
                         /\ t.told = task[r].told \cup gaps
<1> DEFINE t == [Idle(pc) EXCEPT !.told = task[r].told \cup gaps]
<1>1. task[r].told \subseteq Keys \cup Poses /\ 1 \in 1 .. Len(Angles) + 1
  BY AnglesAssumption DEF CastsTypeOK, Task
<1>2. /\ t \in Task /\ t.pc = pc /\ t.left = {} /\ t.drawn = {}
      /\ t.told = task[r].told \cup gaps
  BY <1>1 DEF Idle, Task, Painters
<1>3. task' = [task EXCEPT ![r] = t]
  BY DEF Leave
<1> QED  BY <1>2, <1>3

LEMMA Advances ==
  ASSUME CastsTypeOK, NEW r \in Runs, NEW pc \in Pc, NEW gaps \in SUBSET (Keys \cup Poses),
         Advance(r, pc, gaps)
  PROVE  \E t \in Task : /\ task' = [task EXCEPT ![r] = t]
                         /\ t.pc = pc /\ t.left \subseteq task[r].left /\ t.drawn = {}
                         /\ t.left = task[r].left \ {Min(task[r].left)}
                         /\ t.told = task[r].told \cup gaps
<1> DEFINE left == task[r].left \ {Min(task[r].left)}
           t == [Idle(pc) EXCEPT !.left = left, !.told = task[r].told \cup gaps]
<1>1. task[r].told \subseteq Keys \cup Poses /\ 1 \in 1 .. Len(Angles) + 1
  BY AnglesAssumption DEF CastsTypeOK, Task
<1>2. left \subseteq Nat /\ left \subseteq task[r].left
  BY DEF CastsTypeOK, Task
<1>3. task' = [task EXCEPT ![r] = t]
  BY DEF Advance
<1>0. left = task[r].left \ {Min(task[r].left)}
  OBVIOUS
<1> HIDE DEF left
<1>4. /\ t \in Task /\ t.pc = pc /\ t.left = left /\ t.drawn = {}
      /\ t.told = task[r].told \cup gaps
  BY <1>1, <1>2 DEF Idle, Task, Painters
<1> QED  BY <1>0, <1>2, <1>3, <1>4

LEMMA TurnsTo ==
  ASSUME CastsTypeOK, NEW r \in Runs, NEW pc \in Pc, Goto(r, pc)
  PROVE  \E t \in Task : /\ task' = [task EXCEPT ![r] = t]
                         /\ t.pc = pc /\ t.left = task[r].left /\ t.drawn = task[r].drawn
                         /\ t.id = task[r].id /\ t.told = task[r].told
<1> DEFINE t == [task[r] EXCEPT !.pc = pc]
<1>1. /\ t \in Task /\ t.pc = pc /\ t.left = task[r].left /\ t.drawn = task[r].drawn
      /\ t.id = task[r].id /\ t.told = task[r].told
  BY DEF CastsTypeOK, Task
<1>2. task' = [task EXCEPT ![r] = t]
  BY DEF Goto
<1> QED  BY <1>1, <1>2

LEMMA CreateStep ==
  ASSUME Unedited, NEW r \in Runs, Create(r) PROVE Unedited' /\ KeepsShown
<1> USE DEF Unedited
<1>0. task[r].pc = "create" /\ task[r].left = {} /\ task[r].drawn = {} /\ task[r] \in Task
  BY DEF Create, At, LocalsHold, CastsTypeOK
<1>1. CASE Goto(r, "scenario") /\ UNCHANGED <<rows, lastId>>
  <2>1. TablesKept
    BY <1>1, StillTables DEF Create
  <2>2. PICK t \in Task : /\ task' = [task EXCEPT ![r] = t]
                          /\ t.pc = "scenario" /\ t.drawn = {}
    <3>1. "scenario" \in Pc
      BY DEF Pc
    <3> QED  BY <1>0, <1>1, <3>1, TurnsTo
  <2> QED  BY <2>1, <2>2, RestStep
<1>2. CASE /\ ~ Present(Entity) /\ Insert(Entity, FALSE)
           /\ task' = [task EXCEPT ![r].pc = "search", ![r].id = lastId']
  <2>1. TablesKept /\ Shown(Entity)' = {}
    BY <1>2, InsertTables DEF Create, Keys
  <2> DEFINE id == lastId'
             t == [task[r] EXCEPT !.pc = "search", !.id = id]
  <2>2. lastId \in Nat /\ lastId' = lastId + 1
    BY <1>2 DEF CastsTypeOK, Insert
  <2>8. id \in Nat
    BY <2>2
  <2>4. task' = [task EXCEPT ![r] = t] /\ task'[r] = t
    BY <1>2 DEF CastsTypeOK
  <2> HIDE DEF id
  <2>3. /\ t \in Task /\ t.pc = "search" /\ t.id = id /\ t.left = {} /\ t.drawn = {}
    BY <1>0, <2>8 DEF Task, Pc, Provisioning
  <2> HIDE DEF t
  <2>5. LocalsHold(r)' /\ DrawnFromTheFront(r)' /\ PoseOfTheRow(r)'
    BY <2>3, <2>4 DEF LocalsHold, DrawnFromTheFront, PoseOfTheRow, DrawsOffshoot
  <2>6. CastsTypeOK'
    BY <2>1, <2>3, <2>4 DEF CastsTypeOK, TablesKept
  <2>7. t.id > lastId /\ t.id <= lastId'
    BY <2>2, <2>3 DEF id
  <2> QED  BY <2>1, <2>3, <2>4, <2>5, <2>6, <2>7, RunStep DEF TablesKept
<1> QED  BY <1>1, <1>2 DEF Create

LEMMA AbandonStep ==
  ASSUME Unedited, NEW r \in Runs, DrawsEntity(r), Abandon(r), UNCHANGED <<art, lastId>>
  PROVE  Unedited' /\ KeepsShown
<1>1. TablesKept
  <2>1. CASE Holds(r, Entity)
    <3>1. Shown(Entity) = {}
      BY <2>1 DEF Unedited, RowIsOfTheRun
    <3> QED  BY <2>1, <3>1, EraseTables DEF Abandon, Keys
  <2>2. CASE ~ Holds(r, Entity)
    BY <2>2, StillTables DEF Abandon
  <2> QED  BY <2>1, <2>2
<1>2. PICK t \in Task : /\ task' = [task EXCEPT ![r] = t]
                        /\ t.pc = "scenario" /\ t.left = {} /\ t.drawn = {}
  <2>1. "scenario" \in Pc /\ {Entity} \in SUBSET (Keys \cup Poses)
    BY DEF Pc, Keys
  <2> QED  BY <2>1, Leaves DEF Abandon, Unedited
<1> QED  BY <1>1, <1>2, RestStep

LEMMA SearchStep ==
  ASSUME Unedited, NEW r \in Runs, Search(r) PROVE Unedited' /\ KeepsShown
<1> USE DEF Unedited
<1>0. task[r].pc = "search" /\ DrawsEntity(r) /\ task[r].left = {} /\ task[r].drawn = {}
  BY DEF Search, At, DrawsEntity, LocalsHold
<1>1. CASE Goto(r, "describe") /\ UNCHANGED <<rows, cards>>
  <2>1. PICK t \in Task : /\ task' = [task EXCEPT ![r] = t] /\ t.pc = "describe"
                          /\ t.left = {} /\ t.drawn = {} /\ t.id = task[r].id
    BY <1>0, <1>1, TurnsTo DEF Pc, Provisioning
  <2>2. task'[r] = t
    BY <2>1 DEF CastsTypeOK
  <2>3. LocalsHold(r)' /\ DrawnFromTheFront(r)' /\ PoseOfTheRow(r)'
    BY <2>1, <2>2 DEF LocalsHold, DrawnFromTheFront, PoseOfTheRow, DrawsOffshoot
  <2> QED  BY <1>0, <1>1, <2>1, <2>3, StillStep DEF Search
<1>2. CASE Abandon(r)
  BY <1>0, <1>2, AbandonStep DEF Search
<1> QED  BY <1>1, <1>2 DEF Search

LEMMA DescribeStep ==
  ASSUME Unedited, NEW r \in Runs, Describe(r) PROVE Unedited' /\ KeepsShown
<1> USE DEF Unedited
<1>0. /\ task[r].pc = "describe" /\ DrawsEntity(r) /\ task[r].left = {}
      /\ task[r].drawn = {} /\ UNCHANGED <<art, cards, lastId>>
  BY DEF Describe, At, DrawsEntity, LocalsHold
<1>1. PICK t \in Task : /\ task' = [task EXCEPT ![r] = t] /\ t.pc = "angles"
                        /\ t.left = {} /\ t.drawn = {} /\ t.id = task[r].id
  BY <1>0, TurnsTo DEF Describe, Pc, Provisioning
<1>2. task'[r] = t
  BY <1>1 DEF CastsTypeOK
<1>3. LocalsHold(r)' /\ DrawnFromTheFront(r)' /\ PoseOfTheRow(r)'
  BY <1>1, <1>2 DEF LocalsHold, DrawnFromTheFront, PoseOfTheRow, DrawsOffshoot
<1>4. CASE UNCHANGED rows
  BY <1>0, <1>1, <1>3, <1>4, StillStep
<1>5. CASE Holds(r, Entity) /\ rows' = [rows EXCEPT ![Entity].described = TRUE]
  <2>1. /\ TablesKept /\ Shown(Entity)' = Shown(Entity)
        /\ task'[r].id = task[r].id /\ Holds(r, Entity)' => Holds(r, Entity)
    BY <1>0, <1>5, DescribeTables DEF Keys, Holds
  <2>2. CastsTypeOK'
    BY <1>1, <2>1 DEF CastsTypeOK, TablesKept
  <2>3. t.id <= lastId' /\ (Holds(r, Entity)' => Shown(Entity)' = {})
    BY <1>0, <1>1, <1>2, <2>1 DEF RowIsOfTheRun
  <2> QED  BY <1>0, <1>1, <1>3, <2>1, <2>2, <2>3, RunStep DEF TablesKept
<1> QED  BY <1>4, <1>5 DEF Describe

LEMMA PublishStep ==
  ASSUME Unedited, NEW r \in Runs, Publish(r) PROVE Unedited' /\ KeepsShown
<1> USE DEF Unedited
<1>0. task[r].pc = "angles" /\ task[r].left = {} /\ DrawsEntity(r)
  <2>1. task[r].pc = "angles" /\ Key(r) = Entity
    BY DEF Publish, At
  <2>2. task[r].left = {}
    BY <2>1, HeadInHand DEF Key
  <2> QED  BY <2>1, <2>2 DEF DrawsEntity
<1>1. CASE Abandon(r)
  BY <1>0, <1>1, AbandonStep DEF Publish
<1>2. CASE /\ Holds(r, Entity)
           /\ rows' = [rows EXCEPT ![Entity].shown = @ \cup task[r].drawn]
           /\ Leave(r, "scenario", {})
           /\ UNCHANGED cards
  <2>1. PICK t \in Task : /\ task' = [task EXCEPT ![r] = t]
                          /\ t.pc = "scenario" /\ t.left = {} /\ t.drawn = {}
    BY <1>2, Leaves DEF Pc
  <2>2. task'[r] # task[r]
    BY <1>0, <2>1 DEF CastsTypeOK
  <2>3. TablesKept
    BY <1>0, <1>2, <2>2, ShowTables DEF Publish, Keys
  <2> QED  BY <2>1, <2>3, RestStep
<1> QED  BY <1>1, <1>2 DEF Publish

LEMMA ListStep ==
  ASSUME Unedited, NEW r \in Runs, NEW pc \in {"ask", "adopt"}, NEW left, NEW gaps,
         left \subseteq IF pc = "ask" THEN DOMAIN Hints ELSE DOMAIN Offshoots,
         gaps \subseteq Keys \cup Poses, task[r].drawn = {},
         task' = [task EXCEPT ![r].pc = pc, ![r].left = left, ![r].told = @ \cup gaps],
         UNCHANGED <<rows, art, cards, lastId>>
  PROVE  Unedited' /\ KeepsShown
<1> USE DEF Unedited
<1> DEFINE t == [task[r] EXCEPT !.pc = pc, !.left = left, !.told = @ \cup gaps]
<1>1. pc \in Pc /\ left \subseteq Nat
  BY HintsAssumption, OffshootsAssumption DEF Pc, Provisioning
<1>2. t \in Task /\ t.pc = pc /\ t.left = left /\ t.drawn = {}
  BY <1>1 DEF CastsTypeOK, Task
<1>3. task' = [task EXCEPT ![r] = t]
  OBVIOUS
<1>4. TablesKept
  BY StillTables
<1> HIDE DEF t
<1> QED  BY <1>2, <1>3, <1>4, RestStep

LEMMA ApproveStep ==
  ASSUME Unedited, NEW r \in Runs, Approve(r) PROVE Unedited' /\ KeepsShown
<1> DEFINE missing == {i \in DOMAIN Hints : cards[Hints[i]] = 0}
           left == Within(PoseCap, missing)
           gaps == {Hints[i] : i \in Beyond(PoseCap, missing)}
<1>1. left \subseteq DOMAIN Hints /\ gaps \subseteq Poses
  BY DEF Within, Beyond, Poses, ToSet
<1>2. task' = [task EXCEPT ![r].pc = "ask", ![r].left = left, ![r].told = @ \cup gaps]
  BY DEF Approve
<1>3. task[r].drawn = {} /\ UNCHANGED <<rows, art, cards, lastId>>
  BY DEF Approve, At, Unedited, LocalsHold
<1> HIDE DEF left, gaps
<1> QED  BY <1>1, <1>2, <1>3, ListStep

LEMMA PlanStep ==
  ASSUME Unedited, NEW r \in Runs, Plan(r) PROVE Unedited' /\ KeepsShown
<1> DEFINE missing == {i \in DOMAIN Offshoots : ~ Present(Offshoots[i])}
           drawable == {i \in missing : Offshoots[i] \in Authored}
           passed == (missing \ drawable) \cup Beyond(DerivedCap, drawable)
           left == Within(DerivedCap, drawable)
           gaps == {Offshoots[i] : i \in passed}
<1>1. left \subseteq DOMAIN Offshoots /\ gaps \subseteq Keys
  BY DEF Within, Beyond, Keys, Derived, ToSet
<1>2. task' = [task EXCEPT ![r].pc = "adopt", ![r].left = left, ![r].told = @ \cup gaps]
  BY DEF Plan
<1>3. task[r].drawn = {} /\ UNCHANGED <<rows, art, cards, lastId>>
  BY DEF Plan, At, Unedited, LocalsHold
<1> HIDE DEF left, gaps
<1> QED  BY <1>1, <1>2, <1>3, ListStep

LEMMA AskStep ==
  ASSUME Unedited, NEW r \in Runs, Ask(r) PROVE Unedited' /\ KeepsShown
<1> USE DEF Unedited
<1>0. /\ task[r].pc = "ask" /\ task[r].left # {} /\ task[r].drawn = {} /\ task[r] \in Task
      /\ task[r].left \subseteq DOMAIN Hints /\ UNCHANGED <<rows, art, cards, lastId>>
      /\ Hinted(r) \in Poses /\ Hinted(r)[1] \in Keys
  BY HeadInHand DEF Ask, At, CastsTypeOK, LocalsHold
<1>1. CASE /\ Anchored(Hinted(r)[1])
           /\ task' = [task EXCEPT ![r].pc = "save", ![r].id = rows[Hinted(r)[1]].id]
  <2> DEFINE id == rows[Hinted(r)[1]].id
             t == [task[r] EXCEPT !.pc = "save", !.id = id]
  <2>1. id \in Nat
    BY <1>0, <1>1 DEF CastsTypeOK, Anchored, Described, Present, Row
  <2>2. task' = [task EXCEPT ![r] = t]
    BY <1>1
  <2> HIDE DEF id
  <2>3. /\ t \in Task /\ t.pc = "save" /\ t.id = id /\ t.left = task[r].left
        /\ t.drawn = {}
    BY <1>0, <2>1 DEF Task, Pc, Provisioning
  <2>4. task'[r] = t
    BY <2>2 DEF CastsTypeOK
  <2> HIDE DEF t
  <2>5. LocalsHold(r)' /\ DrawnFromTheFront(r)' /\ ~ DrawsEntity(r)'
    BY <1>0, <2>3, <2>4 DEF LocalsHold, DrawnFromTheFront, DrawsOffshoot, DrawsEntity
  <2>6. Hinted(r)' = Hinted(r)
    BY <2>3, <2>4 DEF Hinted
  <2>7. PoseOfTheRow(r)'
    BY <1>0, <1>1, <2>3, <2>4, <2>6
    DEF PoseOfTheRow, Anchored, Shown, Described, Present, id
  <2> QED  BY <1>0, <2>2, <2>3, <2>5, <2>7, StillStep
<1>2. CASE Advance(r, "ask", {Hinted(r)})
  <2>1. PICK t \in Task : /\ task' = [task EXCEPT ![r] = t]
                          /\ t.pc = "ask" /\ t.left \subseteq task[r].left /\ t.drawn = {}
    BY <1>0, <1>2, Advances DEF Pc, Provisioning
  <2>2. TablesKept
    BY <1>0, StillTables
  <2> QED  BY <1>0, <2>1, <2>2, RestStep
<1> QED  BY <1>1, <1>2 DEF Ask

LEMMA SaveStep ==
  ASSUME Unedited, NEW r \in Runs, Save(r) PROVE Unedited' /\ KeepsShown
<1> USE DEF Unedited
<1>0. /\ task[r].pc = "save" /\ task[r].left # {} /\ task[r].left \subseteq DOMAIN Hints
      /\ UNCHANGED <<rows, art, lastId>> /\ Hinted(r) \in Poses
  BY HeadInHand DEF Save, At, LocalsHold
<1>1. \E gaps \in SUBSET (Keys \cup Poses) : Advance(r, "ask", gaps)
  BY <1>0 DEF Save
<1>2. PICK t \in Task : /\ task' = [task EXCEPT ![r] = t]
                        /\ t.pc = "ask" /\ t.left \subseteq task[r].left /\ t.drawn = {}
  <2>1. "ask" \in Pc
    BY DEF Pc, Provisioning
  <2> QED  BY <1>1, <2>1, Advances
<1>3. TablesKept
  <2>1. CASE UNCHANGED cards
    BY <1>0, <2>1, StillTables
  <2>2. CASE cards' = [cards EXCEPT ![Hinted(r)] = task[r].id]
    <3>1. task[r].id \in Nat
      BY DEF CastsTypeOK, Task
    <3>2. \A k : Shown(k)' = Shown(k) /\ (Anchored(k)' <=> Anchored(k))
      BY <1>0 DEF Shown, Anchored, Present, Described
    <3>3. KeepsPaint /\ KeepsAnchors /\ KeepsFilling /\ KeepsShown
      BY <1>0, <3>2
      DEF KeepsPaint, KeepsAnchors, KeepsFilling, KeepsShown, Holds, Present, CastsTypeOK
    <3>4. \A p \in Poses : CardOfTheRow(p)'
      BY <1>0, <2>2, <3>2 DEF CardOfTheRow, PoseOfTheRow, CastsTypeOK
    <3>5. \A k \in Derived : FromTheFront(k, Shown(k))'
      BY <1>0, <3>2 DEF FromTheFront
    <3> QED  BY <1>0, <2>2, <3>1, <3>3, <3>4, <3>5 DEF TablesKept, CastsTypeOK
  <2> QED  BY <2>1, <2>2 DEF Save
<1> QED  BY <1>0, <1>2, <1>3, RestStep

LEMMA AdoptStep ==
  ASSUME Unedited, NEW r \in Runs, Adopt(r) PROVE Unedited' /\ KeepsShown
<1> USE DEF Unedited
<1>0. /\ task[r].pc = "adopt" /\ task[r].left # {} /\ task[r].drawn = {} /\ task[r] \in Task
      /\ task[r].left \subseteq DOMAIN Offshoots
      /\ Offshoot(r) \in Keys /\ UNCHANGED <<art, cards>>
  BY HeadInHand DEF Adopt, At, LocalsHold, CastsTypeOK
<1>1. TablesKept
  <2>1. CASE Present(Offshoot(r))
    <3>1. rows' = [rows EXCEPT ![Offshoot(r)].described = TRUE] /\ UNCHANGED lastId
      BY <2>1 DEF Adopt
    <3> QED  BY <1>0, <2>1, <3>1, DescribeTables
  <2>2. CASE ~ Present(Offshoot(r))
    <3>1. Insert(Offshoot(r), TRUE)
      BY <2>2 DEF Adopt
    <3> QED  BY <1>0, <2>2, <3>1, InsertTables
  <2> QED  BY <2>1, <2>2
<1>2. PICK id \in Nat : task' = [task EXCEPT ![r].pc = "angles", ![r].id = id]
  <2>1. CASE Present(Offshoot(r))
    <3>1. rows[Offshoot(r)].id \in Nat
      BY <1>0, <2>1 DEF CastsTypeOK, Present, Row
    <3> QED  BY <2>1, <3>1 DEF Adopt
  <2>2. CASE ~ Present(Offshoot(r))
    <3>1. lastId' \in Nat
      BY <1>1 DEF TablesKept
    <3> QED  BY <2>2, <3>1 DEF Adopt
  <2> QED  BY <2>1, <2>2
<1> DEFINE t == [task[r] EXCEPT !.pc = "angles", !.id = id]
<1>3. t \in Task /\ t.pc = "angles" /\ t.left = task[r].left /\ t.drawn = {}
  BY <1>0 DEF Task, Pc, Provisioning
<1>4. task' = [task EXCEPT ![r] = t] /\ task'[r] = t
  BY <1>2 DEF CastsTypeOK
<1> HIDE DEF t
<1>5. LocalsHold(r)' /\ PoseOfTheRow(r)' /\ ~ DrawsEntity(r)'
  BY <1>0, <1>3, <1>4 DEF LocalsHold, PoseOfTheRow, DrawsEntity
<1>6. DrawnFromTheFront(r)'
  BY <1>3, <1>4 DEF DrawnFromTheFront, FromTheFront
<1>7. CastsTypeOK'
  BY <1>1, <1>3, <1>4 DEF CastsTypeOK, TablesKept
<1> QED  BY <1>1, <1>3, <1>4, <1>5, <1>6, <1>7, RunStep DEF TablesKept

LEMMA NextOffshoot ==
  ASSUME Unedited, NEW r \in Runs, TablesKept, task[r].pc \in {"angles", "reading"},
         task[r].left # {}, NEW gaps \in SUBSET Keys, Advance(r, "adopt", gaps)
  PROVE  Unedited' /\ KeepsShown
<1>1. task[r].left \subseteq DOMAIN Offshoots
  BY DEF Unedited, LocalsHold
<1>2. PICK t \in Task : /\ task' = [task EXCEPT ![r] = t]
                        /\ t.pc = "adopt" /\ t.left \subseteq task[r].left /\ t.drawn = {}
  <2>1. "adopt" \in Pc /\ gaps \in SUBSET (Keys \cup Poses)
    BY DEF Pc, Provisioning
  <2> QED  BY <2>1, Advances DEF Unedited
<1> QED  BY <1>1, <1>2, RestStep

LEMMA GiveUpStep ==
  ASSUME Unedited, NEW r \in Runs, task[r].pc \in {"angles", "reading"}, task[r].left # {},
         GiveUp(r), UNCHANGED <<art, lastId>>
  PROVE  Unedited' /\ KeepsShown
<1>1. Offshoot(r) \in Keys /\ FromTheFront(Offshoot(r), Shown(Offshoot(r)))
  BY HeadInHand DEF Unedited
<1>2. TablesKept
  BY <1>1, EraseTables, StillTables DEF GiveUp, FromTheFront
<1> QED  BY <1>1, <1>2, NextOffshoot DEF GiveUp

LEMMA ReadBackStep ==
  ASSUME Unedited, NEW r \in Runs, ReadBack(r) PROVE Unedited' /\ KeepsShown
<1> USE DEF Unedited
<1>0. /\ task[r].pc = "reading" /\ task[r].left # {} /\ UNCHANGED <<art, lastId>>
      /\ task[r].left \subseteq DOMAIN Offshoots
  BY DEF ReadBack, At, LocalsHold
<1>1. CASE GiveUp(r)
  BY <1>0, <1>1, GiveUpStep
<1>2. CASE Goto(r, "angles") /\ UNCHANGED <<rows, cards>>
  <2>1. PICK t \in Task : /\ task' = [task EXCEPT ![r] = t] /\ t.pc = "angles"
                          /\ t.left = task[r].left /\ t.drawn = task[r].drawn
    <3>1. "angles" \in Pc
      BY DEF Pc, Provisioning
    <3> QED  BY <1>2, <3>1, TurnsTo
  <2>2. task'[r] = t
    BY <2>1 DEF CastsTypeOK
  <2>3. LocalsHold(r)' /\ PoseOfTheRow(r)' /\ ~ DrawsEntity(r)'
    BY <1>0, <2>1, <2>2 DEF LocalsHold, PoseOfTheRow, DrawsEntity
  <2>4. FromTheFront(Key(r), t.drawn)
    BY <1>0, <2>1 DEF DrawnFromTheFront, DrawsOffshoot
  <2>5. Key(r)' = Key(r)
    BY <2>1, <2>2 DEF Key, Offshoot
  <2>6. FromTheFront(Key(r), task[r].drawn)'
    BY <1>0, <2>2, <2>4, <2>5 DEF FromTheFront
  <2>7. DrawnFromTheFront(r)'
    BY <2>1, <2>2, <2>6 DEF DrawnFromTheFront
  <2> QED  BY <1>0, <1>2, <2>1, <2>3, <2>7, StillStep
<1> QED  BY <1>1, <1>2 DEF ReadBack

LEMMA SettleStep ==
  ASSUME Unedited, NEW r \in Runs, Settle(r) PROVE Unedited' /\ KeepsShown
<1> USE DEF Unedited
<1>0. /\ task[r].pc = "angles" /\ task[r].left # {} /\ UNCHANGED <<art, lastId>>
      /\ Key(r) = Offshoot(r) /\ Offshoot(r) \in Keys /\ Offshoot(r) # Entity
  <2>1. task[r].pc = "angles" /\ Key(r) \in Derived /\ UNCHANGED <<art, lastId>>
    BY DEF Settle, At
  <2>2. task[r].left # {}
    BY <2>1, OffshootsAssumption DEF Key, Derived
  <2> QED  BY <2>1, <2>2, HeadInHand DEF Key
<1>1. CASE GiveUp(r)
  BY <1>0, <1>1, GiveUpStep
<1>2. CASE Advance(r, "adopt", {}) /\ UNCHANGED <<rows, cards>>
  BY <1>0, <1>2, StillTables, NextOffshoot
<1>3. CASE /\ Holds(r, Offshoot(r)) /\ UNCHANGED cards /\ Advance(r, "adopt", {})
           /\ rows' = [rows EXCEPT ![Offshoot(r)].shown = @ \cup task[r].drawn]
  <2>1. FromTheFront(Offshoot(r), task[r].drawn)
    BY <1>0 DEF DrawnFromTheFront, DrawsOffshoot
  <2>2. TablesKept
    BY <1>0, <1>3, <2>1, ShowTables
  <2> QED  BY <1>0, <1>3, <2>2, NextOffshoot
<1> QED  BY <1>1, <1>2, <1>3 DEF Settle

LEMMA FilmStep ==
  ASSUME Unedited, NEW r \in Runs, Film(r) PROVE Unedited' /\ KeepsShown
<1>1. TablesKept
  BY StillTables DEF Film
<1>2. PICK t \in Task : /\ task' = [task EXCEPT ![r] = t]
                        /\ t.pc = "film" /\ t.left = {} /\ t.drawn = {}
  <2>1. "film" \in Pc /\ {} \in SUBSET (Keys \cup Poses)
    BY DEF Pc
  <2> QED  BY <2>1, Leaves DEF Film, Unedited
<1> QED  BY <1>1, <1>2, RestStep

LEMMA CrashStep ==
  ASSUME Unedited, Crash PROVE Unedited' /\ KeepsShown
<1> USE DEF Unedited
<1>0. UNCHANGED <<rows, art, cards, lastId>> /\ task' = [r \in Runs |-> Resumed(task[r])]
  BY DEF Crash
<1>1. ASSUME NEW r \in Runs
      PROVE  /\ Resumed(task[r]) \in Task
             /\ \/ Resumed(task[r]) = task[r] /\ task[r].pc \in {"new", "scenario", "film"}
                \/ /\ Resumed(task[r]).pc = "scenario" /\ Resumed(task[r]).left = {}
                   /\ Resumed(task[r]).drawn = {}
  <2>1. 1 \in 1 .. Len(Angles) + 1 /\ task[r] \in Task
    BY AnglesAssumption DEF CastsTypeOK
  <2>2. CASE task[r].pc \in {"new", "scenario", "film"}
    BY <2>1, <2>2 DEF Resumed
  <2>3. CASE task[r].pc \in {"create", "search", "describe"}
    <3>1. Resumed(task[r]) = Idle("scenario")
      BY <2>3 DEF Resumed
    <3> QED  BY <2>1, <3>1 DEF Idle, Task, Pc, Painters
  <2>4. CASE task[r].pc \notin {"new", "scenario", "film", "create", "search", "describe"}
    <3> DEFINE heard == task[r].told \cap {Entity}
               t == [Idle("scenario") EXCEPT !.told = heard]
    <3>1. Resumed(task[r]) = t
      BY <2>4 DEF Resumed
    <3>2. heard \subseteq Keys \cup Poses
      BY <2>1 DEF Task
    <3> HIDE DEF heard
    <3>3. t \in Task /\ t.pc = "scenario" /\ t.left = {} /\ t.drawn = {}
      BY <2>1, <3>2 DEF Idle, Task, Pc, Painters
    <3> QED  BY <3>1, <3>3
  <2> QED  BY <2>2, <2>3, <2>4
<1>2. CastsTypeOK'
  BY <1>0, <1>1 DEF CastsTypeOK
<1>3. ASSUME NEW r \in Runs
      PROVE  (LocalsHold(r) /\ DrawnFromTheFront(r) /\ PoseOfTheRow(r) /\ RowIsOfTheRun(r))'
  <2>1. /\ task'[r].pc \in {"new", "scenario", "film"} /\ task'[r].drawn = {}
        /\ task'[r].pc = "new" => task'[r].left = {}
    BY <1>0, <1>1 DEF LocalsHold
  <2> QED  BY <2>1 DEF LocalsHold, DrawnFromTheFront, PoseOfTheRow, RowIsOfTheRun,
                       DrawsEntity, DrawsOffshoot
<1>4. TablesKept
  BY <1>0, StillTables
<1> QED  BY <1>2, <1>3, <1>4 DEF TablesKept

LEMMA RunSteps ==
  ASSUME Unedited, NEW r \in Runs, Check(r) \/ Approve(r) \/ Works(r)
  PROVE  Unedited' /\ KeepsShown
  BY CheckStep, ApproveStep, CreateStep, SearchStep, DescribeStep, PublishStep,
     GenerateStep, GeneratedStep, AskStep, SaveStep, PlanStep, AdoptStep, ReadBackStep,
     SettleStep, FilmStep DEF Works

LEMMA CastStep == CastsInv /\ [Next]_vars => CastsInv'
<1> SUFFICES ASSUME CastsInv, [Next]_vars PROVE CastsInv'
  OBVIOUS
<1> USE DEF CastsInv
<1>1. CASE UNCHANGED vars
  <2>1. ASSUME Unedited PROVE Unedited'
    BY <1>1, <2>1
    DEF vars, Unedited, CastsTypeOK, LocalsHold, DrawnFromTheFront, PoseOfTheRow, RowIsOfTheRun,
        DrawsEntity, DrawsOffshoot, FromTheFront, CardOfTheRow, Drawing, View, Key, Offshoot,
        Hinted, Holds, Anchored, Shown, Described, Present
  <2> QED  BY <1>1, <2>1 DEF vars
<1>2. CASE PageNext
  <2>1. edits' = edits + 1
    BY <1>2 DEF PageNext, PageCreate, PageDescribe, PageDelete, PageDraw, Request
  <2> QED  BY <2>1
<1>3. CASE Crash
  BY <1>3, CrashStep DEF Crash
<1>4. ASSUME NEW r \in Runs, Check(r) \/ Approve(r) \/ Works(r) PROVE CastsInv'
  <2>1. edits' = edits
    BY <1>4 DEF Works, Check, Approve, Create, Search, Describe, Publish, Generate, Generated,
                Ask, Save, Plan, Adopt, ReadBack, Settle, Film
  <2> QED  BY <1>4, <2>1, RunSteps
<1> QED  BY <1>1, <1>2, <1>3, <1>4 DEF Next

LEMMA CastShows == CastsInv => NeverAStranger
<1> SUFFICES ASSUME CastsInv, edits = 0
             PROVE  /\ \A k \in Derived : Shown(k) # {} =>
                         "front" \in Shown(k) /\ \A a \in Shown(k) : art[k][a] \in Runs
                    /\ \A p \in Poses : cards[p] # 0 =>
                         Anchored(p[1]) /\ rows[p[1]].id = cards[p]
  BY DEF NeverAStranger
<1> QED  BY DEF CastsInv, Unedited, FromTheFront, CardOfTheRow

-----------------------------------------------------------------------------
(* Nobody is forgotten: a character is on screen, told of, or at work on.   *)

Accounted(k) ==
  Shown(k) # {} \/ \E q \in Runs : k \in task[q].told \/ AtWork(q, k)

\* A run past its own reference, its plan and its last offshoot.
Reckoned(r) ==
  /\ task[r].pc \in {"scenario", "ask", "save", "adopt", "film"} \/ DrawsOffshoot(r)
       => Accounted(Entity)
  /\ task[r].pc = "adopt" \/ DrawsOffshoot(r)
       => \A i \in DOMAIN Offshoots \ task[r].left : Accounted(Offshoots[i])
  /\ task[r].pc = "film" => \A i \in DOMAIN Offshoots : Accounted(Offshoots[i])

ServedInv ==
  /\ crashes \in Nat
  /\ Undisturbed => EmptyRowIsBeingFilled /\ \A r \in Runs : Reckoned(r)

LEMMA ServedBegins == Init => ServedInv
<1> SUFFICES ASSUME Init  PROVE ServedInv
  OBVIOUS
<1>1. EmptyRowIsBeingFilled
  BY DEF Init, EmptyRowIsBeingFilled, Present
<1>2. ASSUME NEW r \in Runs  PROVE Reckoned(r)
  BY DEF Init, Idle, Reckoned, DrawsOffshoot
<1> QED  BY <1>1, <1>2 DEF Init, ServedInv

LEMMA ServedShows == ServedInv => NobodyIsForgotten
<1> SUFFICES ASSUME ServedInv, Undisturbed
             PROVE  EmptyRowIsBeingFilled /\ SomebodyReportsTheGap
  BY DEF NobodyIsForgotten
<1>1. ASSUME NEW r \in Runs, NEW k \in Keys, Through(r, k), Shown(k) = {}
      PROVE  \E q \in Runs : k \in task[q].told \/ AtWork(q, k)
  <2>1. Reckoned(r)
    BY DEF ServedInv
  <2>2. Accounted(k)
    <3>1. CASE k = Entity
      BY <1>1, <2>1, <3>1 DEF Through, Reckoned
    <3>2. CASE k # Entity
      <4>1. PICK i \in DOMAIN Offshoots : k = Offshoots[i]
        BY <3>2 DEF Keys, Derived, ToSet
      <4>2. task[r].pc = "film"
        BY <1>1, <3>2 DEF Through
      <4> QED  BY <2>1, <4>1, <4>2 DEF Reckoned
    <3> QED  BY <3>1, <3>2
  <2> QED  BY <1>1, <2>2 DEF Accounted
<1> QED  BY <1>1 DEF ServedInv, SomebodyReportsTheGap

\* What the step of a run does to nobody's loss: whoever it stops working on is on
\* screen, or gone and told of, and no row is left empty by it.
OthersStay(r) == \A q \in Runs \ {r} : task'[q] = task[q]
HandsOver(r) ==
  \A k \in Keys :
    AtWork(r, k) =>
      AtWork(r, k)' \/ Shown(k)' # {} \/ (~ Present(k)' /\ k \in task'[r].told)
KeepsHolders(r) ==
  \A q \in Runs \ {r} :
    Holds(q, Entity) => Holds(q, Entity)' \/ (~ Present(Entity)' /\ Entity \in task'[r].told)
KeepsFull(r) ==
  \A k \in Keys :
    Present(k)' /\ Shown(k)' = {} => (Present(k) /\ Shown(k) = {}) \/ AtWork(r, k)'
Careful(r) ==
  /\ OthersStay(r) /\ task[r].told \subseteq task'[r].told
  /\ HandsOver(r) /\ KeepsHolders(r) /\ KeepsFull(r)

LEMMA CareIsTaken ==
  ASSUME EmptyRowIsBeingFilled, KeepsShown, NEW r \in Runs, Careful(r)
  PROVE  /\ EmptyRowIsBeingFilled'
         /\ \A k \in Keys : Accounted(k) => Accounted(k)'
<1>1. ASSUME NEW k \in Keys, NEW q \in Runs, AtWork(q, k)
      PROVE  AtWork(q, k)' \/ Shown(k)' # {} \/ (~ Present(k)' /\ k \in task'[r].told)
  <2>1. CASE q = r
    BY <1>1, <2>1 DEF Careful, HandsOver
  <2>2. CASE q # r
    <3>1. task'[q] = task[q]
      BY <2>2 DEF Careful, OthersStay
    <3>2. Key(q)' = Key(q)
      BY <3>1 DEF Key, Offshoot
    <3>3. CASE k = Entity
      <4>1. Holds(q, Entity)
        BY <1>1, <3>3 DEF AtWork
      <4>2. Holds(q, Entity)' \/ (~ Present(Entity)' /\ Entity \in task'[r].told)
        BY <2>2, <4>1 DEF Careful, KeepsHolders
      <4>3. Holds(q, Entity)' => AtWork(q, Entity)'
        BY <1>1, <3>1, <3>2, <3>3 DEF AtWork
      <4> QED  BY <3>3, <4>2, <4>3
    <3>4. CASE k # Entity
      BY <1>1, <3>1, <3>2, <3>4 DEF AtWork
    <3> QED  BY <3>3, <3>4
  <2> QED  BY <2>1, <2>2
<1>2. ASSUME NEW k \in Keys, Present(k)', Shown(k)' = {}  PROVE \E q \in Runs : AtWork(q, k)'
  <2>1. CASE AtWork(r, k)'
    BY <2>1
  <2>2. CASE Present(k) /\ Shown(k) = {}
    <3>1. PICK q \in Runs : AtWork(q, k)
      BY <2>2 DEF EmptyRowIsBeingFilled
    <3> QED  BY <1>1, <1>2, <3>1
  <2> QED  BY <1>2, <2>1, <2>2 DEF Careful, KeepsFull
<1>3. ASSUME NEW k \in Keys, Accounted(k)  PROVE Accounted(k)'
  <2>1. CASE Shown(k) # {}
    BY <2>1 DEF KeepsShown, Accounted
  <2>2. CASE \E q \in Runs : k \in task[q].told
    <3>1. PICK q \in Runs : k \in task[q].told
      BY <2>2
    <3>2. task[q].told \subseteq task'[q].told
      BY DEF Careful, OthersStay
    <3>3. k \in task'[q].told
      BY <3>1, <3>2
    <3> QED  BY <3>3 DEF Accounted
  <2>3. CASE \E q \in Runs : AtWork(q, k)
    <3>1. PICK q \in Runs : AtWork(q, k)
      BY <2>3
    <3>2. AtWork(q, k)' \/ Shown(k)' # {} \/ k \in task'[r].told
      BY <1>1, <3>1
    <3> QED  BY <3>2 DEF Accounted
  <2> QED  BY <1>3, <2>1, <2>2, <2>3 DEF Accounted
<1> QED  BY <1>2, <1>3 DEF EmptyRowIsBeingFilled

LEMMA TaskTurned ==
  ASSUME CastsTypeOK, NEW r \in Runs, NEW t, task' = [task EXCEPT ![r] = t]
  PROVE  task'[r] = t /\ OthersStay(r)
  BY DEF CastsTypeOK, OthersStay

\* A step that leaves the table alone.
LEMMA CareOfStill ==
  ASSUME UNCHANGED rows, NEW r \in Runs, OthersStay(r), task[r].told \subseteq task'[r].told,
         HandsOver(r)
  PROVE  Careful(r)
<1>1. \A q \in Runs \ {r} : Holds(q, Entity) => Holds(q, Entity)'
  BY DEF OthersStay, Holds, Present
<1>2. KeepsHolders(r)
  BY <1>1 DEF KeepsHolders
<1>3. \A k \in Keys : (Present(k)' <=> Present(k)) /\ Shown(k)' = Shown(k)
  BY DEF Present, Shown
<1>4. KeepsFull(r)
  BY <1>3 DEF KeepsFull
<1> QED  BY <1>2, <1>4 DEF Careful

\* A run that works on nobody has nobody to hand over.
LEMMA CareOfIdle ==
  ASSUME UNCHANGED rows, NEW r \in Runs, OthersStay(r), task[r].told \subseteq task'[r].told,
         task[r].pc \notin {"search", "describe", "angles", "image", "reading"}
  PROVE  Careful(r)
<1>1. HandsOver(r)
  BY DEF HandsOver, AtWork
<1> QED  BY <1>1, CareOfStill

LEMMA PresentIsAccounted ==
  ASSUME EmptyRowIsBeingFilled, NEW k \in Keys, Present(k)
  PROVE  Accounted(k)
  BY DEF EmptyRowIsBeingFilled, Accounted

LEMMA CheckServes ==
  ASSUME Unedited, EmptyRowIsBeingFilled, KeepsShown, NEW r \in Runs, Check(r)
  PROVE  Careful(r) /\ Reckoned(r)'
<1>1. PICK pc \in {"scenario", "create"} :
        Goto(r, pc) /\ (pc = "scenario" => Present(Entity))
  BY DEF Check
<1>2. pc \in Pc /\ CastsTypeOK
  BY DEF Pc, Provisioning, Unedited
<1>3. PICK t \in Task : /\ task' = [task EXCEPT ![r] = t] /\ t.pc = pc /\ t.told = task[r].told
  BY <1>1, <1>2, TurnsTo
<1>4. task'[r] = t /\ OthersStay(r)
  BY <1>2, <1>3, TaskTurned
<1>5. Careful(r)
  BY <1>3, <1>4, CareOfIdle DEF Check, At
<1>6. Entity \in Keys /\ \A k \in Keys : Accounted(k) => Accounted(k)'
  BY <1>5, CareIsTaken DEF Keys
<1>7. pc = "scenario" => Accounted(Entity)'
  BY <1>1, <1>6, PresentIsAccounted
<1>8. Reckoned(r)'
  BY <1>3, <1>4, <1>7 DEF Reckoned, DrawsOffshoot
<1> QED  BY <1>5, <1>8

LEMMA CreateServes ==
  ASSUME Unedited, EmptyRowIsBeingFilled, KeepsShown, NEW r \in Runs, Create(r)
  PROVE  Careful(r) /\ Reckoned(r)'
<1>0. task[r].pc = "create" /\ CastsTypeOK /\ task[r] \in Task /\ Entity \in Keys
  BY DEF Create, At, Unedited, CastsTypeOK, Keys
<1>1. CASE Present(Entity) /\ Goto(r, "scenario") /\ UNCHANGED rows
  <2>1. PICK t \in Task : /\ task' = [task EXCEPT ![r] = t] /\ t.pc = "scenario"
                          /\ t.told = task[r].told
    <3>1. "scenario" \in Pc
      BY DEF Pc
    <3> QED  BY <1>0, <1>1, <3>1, TurnsTo
  <2>2. task'[r] = t /\ OthersStay(r)
    BY <1>0, <2>1, TaskTurned
  <2>3. Careful(r)
    BY <1>0, <1>1, <2>1, <2>2, CareOfIdle
  <2>4. Accounted(Entity)'
    BY <1>0, <1>1, <2>3, CareIsTaken, PresentIsAccounted
  <2>5. Reckoned(r)'
    BY <2>1, <2>2, <2>4 DEF Reckoned, DrawsOffshoot
  <2> QED  BY <2>3, <2>5
<1>2. CASE /\ ~ Present(Entity) /\ Insert(Entity, FALSE)
           /\ task' = [task EXCEPT ![r].pc = "search", ![r].id = lastId']
  <2> DEFINE t == [task[r] EXCEPT !.pc = "search", !.id = lastId']
  <2>1. t.pc = "search" /\ t.id = lastId' /\ t.told = task[r].told
    BY <1>0 DEF Task
  <2>2. task' = [task EXCEPT ![r] = t]
    BY <1>2
  <2> HIDE DEF t
  <2>3. task'[r] = t /\ OthersStay(r)
    BY <1>0, <2>2, TaskTurned
  <2>4. /\ rows'[Entity] = [id |-> lastId + 1, described |-> FALSE, shown |-> {}]
        /\ lastId' = lastId + 1
        /\ \A k \in Keys \ {Entity} : rows'[k] = rows[k]
    BY <1>0, <1>2 DEF Insert, CastsTypeOK
  <2>5. Present(Entity)' => AtWork(r, Entity)'
    BY <2>1, <2>3, <2>4 DEF AtWork, Holds
  <2>6. KeepsFull(r)
    BY <2>4, <2>5 DEF KeepsFull, Present, Shown
  <2>7. HandsOver(r) /\ KeepsHolders(r)
    BY <1>0, <1>2 DEF HandsOver, KeepsHolders, AtWork, Holds
  <2>8. Careful(r)
    BY <2>1, <2>3, <2>6, <2>7 DEF Careful
  <2>9. Reckoned(r)'
    BY <2>1, <2>3 DEF Reckoned, DrawsOffshoot
  <2> QED  BY <2>8, <2>9
<1> QED  BY <1>1, <1>2 DEF Create

\* The total failure is reported, whoever has the row by then.
LEMMA AbandonServes ==
  ASSUME Unedited, EmptyRowIsBeingFilled, KeepsShown, NEW r \in Runs,
         DrawsEntity(r), Abandon(r)
  PROVE  Careful(r) /\ Reckoned(r)'
<1>0. CastsTypeOK /\ Entity \in Keys
  BY DEF Unedited, Keys
<1>1. PICK t \in Task : /\ task' = [task EXCEPT ![r] = t] /\ t.pc = "scenario"
                        /\ t.told = task[r].told \cup {Entity}
  <2>1. "scenario" \in Pc /\ {Entity} \in SUBSET (Keys \cup Poses)
    BY DEF Pc, Keys
  <2> QED  BY <1>0, <2>1, Leaves DEF Abandon
<1>2. task'[r] = t /\ OthersStay(r)
  BY <1>0, <1>1, TaskTurned
<1>3. \A k \in Keys : AtWork(r, k) => k = Entity /\ Holds(r, Entity)
  BY DEF DrawsEntity, AtWork, Key
<1>4. Entity \in task'[r].told /\ task[r].told \subseteq task'[r].told
  <2>1. task[r].told \subseteq task[r].told \cup {Entity}
    OBVIOUS
  <2> QED  BY <1>1, <1>2, <2>1
<1>5. ASSUME Holds(r, Entity)  PROVE Careful(r)
  <2>1. rows'[Entity] = NoRow /\ \A k \in Keys \ {Entity} : rows'[k] = rows[k]
    BY <1>0, <1>5 DEF Abandon, Erase, CastsTypeOK
  <2>2. ~ Present(Entity)'
    BY <2>1 DEF Present
  <2>3. HandsOver(r) /\ KeepsHolders(r)
    BY <1>3, <1>4, <2>2 DEF HandsOver, KeepsHolders
  <2>4. KeepsFull(r)
    BY <2>1, <2>2 DEF KeepsFull, Present, Shown
  <2> QED  BY <1>2, <1>4, <2>3, <2>4 DEF Careful
<1>6. ASSUME ~ Holds(r, Entity)  PROVE Careful(r)
  <2>1. UNCHANGED rows
    BY <1>6 DEF Abandon
  <2>2. HandsOver(r)
    BY <1>3, <1>6 DEF HandsOver
  <2> QED  BY <1>2, <1>4, <2>1, <2>2, CareOfStill
<1>7. Reckoned(r)'
  BY <1>1, <1>2, <1>4 DEF Reckoned, DrawsOffshoot, Accounted
<1> QED  BY <1>5, <1>6, <1>7

LEMMA SearchServes ==
  ASSUME Unedited, EmptyRowIsBeingFilled, KeepsShown, NEW r \in Runs, Search(r)
  PROVE  Careful(r) /\ Reckoned(r)'
<1>0. task[r].pc = "search" /\ DrawsEntity(r) /\ CastsTypeOK
  BY DEF Search, At, DrawsEntity, Unedited
<1>1. CASE Goto(r, "describe") /\ UNCHANGED rows
  <2>1. PICK t \in Task : /\ task' = [task EXCEPT ![r] = t] /\ t.pc = "describe"
                          /\ t.id = task[r].id /\ t.told = task[r].told
    <3>1. "describe" \in Pc
      BY DEF Pc, Provisioning
    <3> QED  BY <1>0, <1>1, <3>1, TurnsTo
  <2>2. task'[r] = t /\ OthersStay(r)
    BY <1>0, <2>1, TaskTurned
  <2>3. HandsOver(r)
    BY <1>0, <1>1, <2>1, <2>2 DEF HandsOver, AtWork, Holds, Present
  <2>4. Careful(r)
    BY <1>1, <2>1, <2>2, <2>3, CareOfStill
  <2>5. Reckoned(r)'
    BY <2>1, <2>2 DEF Reckoned, DrawsOffshoot
  <2> QED  BY <2>4, <2>5
<1>2. CASE Abandon(r)
  BY <1>0, <1>2, AbandonServes
<1> QED  BY <1>1, <1>2 DEF Search

LEMMA DescribeServes ==
  ASSUME Unedited, EmptyRowIsBeingFilled, KeepsShown, NEW r \in Runs, Describe(r)
  PROVE  Careful(r) /\ Reckoned(r)'
<1>0. /\ task[r].pc = "describe" /\ task[r].left = {} /\ CastsTypeOK /\ Entity \in Keys
  BY DEF Describe, At, LocalsHold, Unedited, Keys
<1>1. PICK t \in Task : /\ task' = [task EXCEPT ![r] = t] /\ t.pc = "angles" /\ t.left = {}
                        /\ t.id = task[r].id /\ t.told = task[r].told
  <2>1. "angles" \in Pc
    BY DEF Pc, Provisioning
  <2> QED  BY <1>0, <2>1, TurnsTo DEF Describe
<1>2. task'[r] = t /\ OthersStay(r)
  BY <1>0, <1>1, TaskTurned
<1>3. /\ \A k \in Keys : (Present(k)' <=> Present(k)) /\ Shown(k)' = Shown(k)
      /\ Present(Entity) => rows'[Entity].id = rows[Entity].id
  <2>1. CASE UNCHANGED rows
    BY <2>1 DEF Present, Shown
  <2>2. CASE Holds(r, Entity) /\ rows' = [rows EXCEPT ![Entity].described = TRUE]
    <3>1. rows[Entity] \in Row
      BY <1>0, <2>2 DEF Holds, Present, CastsTypeOK
    <3>2. /\ rows'[Entity].id = rows[Entity].id /\ rows'[Entity].shown = rows[Entity].shown
          /\ rows'[Entity] \in Row
      BY <1>0, <2>2, <3>1 DEF CastsTypeOK, Row
    <3>3. \A k \in Keys \ {Entity} : rows'[k] = rows[k]
      BY <2>2 DEF CastsTypeOK
    <3>4. Present(Entity)' /\ Present(Entity)
      BY <2>2, <3>2, NoRowAssumption DEF Holds, Present
    <3>5. ASSUME NEW k \in Keys  PROVE (Present(k)' <=> Present(k)) /\ Shown(k)' = Shown(k)
      <4>1. CASE k = Entity
        BY <3>2, <3>4, <4>1 DEF Shown
      <4>2. CASE k # Entity
        BY <3>3, <4>2 DEF Present, Shown
      <4> QED  BY <4>1, <4>2
    <3> QED  BY <3>2, <3>5
  <2> QED  BY <2>1, <2>2 DEF Describe
<1>4. /\ \A q \in Runs \ {r} : Holds(q, Entity) => Holds(q, Entity)'
      /\ Holds(r, Entity) => Holds(r, Entity)'
  BY <1>0, <1>1, <1>2, <1>3 DEF Holds, OthersStay
<1>5. HandsOver(r)
  BY <1>0, <1>1, <1>2, <1>4 DEF HandsOver, AtWork, Key
<1>6. KeepsHolders(r) /\ KeepsFull(r)
  BY <1>3, <1>4 DEF KeepsHolders, KeepsFull
<1>7. Careful(r)
  BY <1>1, <1>2, <1>5, <1>6 DEF Careful
<1>8. Reckoned(r)'
  BY <1>1, <1>2 DEF Reckoned, DrawsOffshoot
<1> QED  BY <1>7, <1>8

LEMMA PublishServes ==
  ASSUME Unedited, EmptyRowIsBeingFilled, KeepsShown, NEW r \in Runs, Publish(r)
  PROVE  Careful(r) /\ Reckoned(r)'
<1>0. /\ task[r].pc = "angles" /\ task[r].left = {} /\ DrawsEntity(r) /\ CastsTypeOK
      /\ Entity \in Keys
  <2>1. task[r].pc = "angles" /\ Key(r) = Entity /\ CastsTypeOK /\ LocalsHold(r)
    BY DEF Publish, At, Unedited
  <2>2. task[r].left = {}
    BY <2>1, HeadInHand DEF Key
  <2> QED  BY <2>1, <2>2 DEF DrawsEntity, Keys
<1>1. CASE Abandon(r)
  BY <1>0, <1>1, AbandonServes
<1>2. CASE /\ Holds(r, Entity) /\ task[r].drawn # {}
           /\ rows' = [rows EXCEPT ![Entity].shown = @ \cup task[r].drawn]
           /\ Leave(r, "scenario", {})
  <2>1. PICK t \in Task : /\ task' = [task EXCEPT ![r] = t] /\ t.pc = "scenario"
                          /\ task[r].told \subseteq t.told
    <3>0. {} \in SUBSET (Keys \cup Poses)
      OBVIOUS
    <3>1. PICK nobody \in SUBSET (Keys \cup Poses) : nobody = {} /\ Leave(r, "scenario", nobody)
      BY <1>2, <3>0, Zenon
    <3>2. "scenario" \in Pc
      BY DEF Pc
    <3>3. CastsTypeOK /\ Leave(r, "scenario", nobody)
      BY <1>0, <3>1
    <3>4. \E t \in Task : /\ task' = [task EXCEPT ![r] = t]
                          /\ t.pc = "scenario" /\ t.left = {} /\ t.drawn = {}
                          /\ t.told = task[r].told \cup nobody
      BY <3>2, <3>3, Leaves
    <3> QED  BY <3>4
  <2>2. task'[r] = t /\ OthersStay(r)
    BY <1>0, <2>1, TaskTurned
  <2>3. rows[Entity] \in Row
    BY <1>0, <1>2 DEF Holds, Present, CastsTypeOK
  <2>4. /\ rows'[Entity].id = rows[Entity].id
        /\ rows'[Entity].shown = rows[Entity].shown \cup task[r].drawn
    BY <1>0, <1>2, <2>3 DEF CastsTypeOK, Row
  <2>5. \A k \in Keys \ {Entity} : rows'[k] = rows[k]
    BY <1>2 DEF CastsTypeOK
  <2>6. Present(Entity)'
    <3>1. task[r].drawn \subseteq Views
      BY <1>0 DEF CastsTypeOK, Task
    <3>2. rows'[Entity] = [rows[Entity] EXCEPT !.shown = @ \cup task[r].drawn]
      BY <1>0, <1>2 DEF CastsTypeOK
    <3>3. rows'[Entity] \in Row
      BY <2>3, <3>1, <3>2 DEF Row
    <3> QED  BY <3>3, NoRowAssumption DEF Present
  <2>7. Shown(Entity)' # {}
    BY <1>2, <2>4, <2>6 DEF Shown
  <2>8. HandsOver(r)
    BY <1>0, <2>7 DEF HandsOver, AtWork, Key
  <2>9. KeepsHolders(r)
    BY <2>2, <2>4, <2>6 DEF KeepsHolders, Holds, OthersStay
  <2>10. KeepsFull(r)
    BY <2>5, <2>7 DEF KeepsFull, Present, Shown
  <2>11. Careful(r)
    BY <2>1, <2>2, <2>8, <2>9, <2>10 DEF Careful
  <2>12. Reckoned(r)'
    BY <2>1, <2>2, <2>7 DEF Reckoned, DrawsOffshoot, Accounted
  <2> QED  BY <2>11, <2>12
<1> QED  BY <1>1, <1>2 DEF Publish

\* While a list of poses is drawn, only reports are added.
LEMMA PosesServe ==
  ASSUME Unedited, EmptyRowIsBeingFilled, KeepsShown, UNCHANGED rows, NEW r \in Runs, Reckoned(r),
         task[r].pc \in {"scenario", "ask", "save"}, task'[r].pc \in {"ask", "save"},
         OthersStay(r), task[r].told \subseteq task'[r].told
  PROVE  Careful(r) /\ Reckoned(r)'
<1>1. Careful(r)
  BY CareOfIdle
<1>2. Accounted(Entity)'
  <2>1. Entity \in Keys /\ Accounted(Entity)
    BY DEF Reckoned, Keys
  <2> QED  BY <1>1, <2>1, CareIsTaken
<1> QED  BY <1>1, <1>2 DEF Reckoned, DrawsOffshoot

LEMMA ApproveServes ==
  ASSUME Unedited, EmptyRowIsBeingFilled, KeepsShown, NEW r \in Runs, Reckoned(r), Approve(r)
  PROVE  Careful(r) /\ Reckoned(r)'
<1> DEFINE missing == {i \in DOMAIN Hints : cards[Hints[i]] = 0}
           left == Within(PoseCap, missing)
           gaps == {Hints[i] : i \in Beyond(PoseCap, missing)}
           t == [task[r] EXCEPT !.pc = "ask", !.left = left, !.told = @ \cup gaps]
<1>0. CastsTypeOK /\ task[r] \in Task /\ task[r].pc = "scenario" /\ UNCHANGED rows
  BY DEF Approve, At, Unedited, CastsTypeOK
<1>1. task' = [task EXCEPT ![r] = t]
  BY DEF Approve
<1> HIDE DEF left, gaps
<1>2. t.pc = "ask" /\ t.told = task[r].told \cup gaps
  BY <1>0 DEF Task
<1> HIDE DEF t
<1>3. task'[r] = t /\ OthersStay(r)
  BY <1>0, <1>1, TaskTurned
<1> QED  BY <1>0, <1>2, <1>3, PosesServe

LEMMA AskServes ==
  ASSUME Unedited, EmptyRowIsBeingFilled, KeepsShown, NEW r \in Runs, Reckoned(r), Ask(r)
  PROVE  Careful(r) /\ Reckoned(r)'
<1>0. /\ CastsTypeOK /\ task[r] \in Task /\ task[r].pc = "ask" /\ UNCHANGED rows
      /\ Hinted(r) \in Poses
  BY HeadInHand DEF Ask, At, Unedited, CastsTypeOK
<1>1. CASE task' = [task EXCEPT ![r].pc = "save", ![r].id = rows[Hinted(r)[1]].id]
  <2> DEFINE id == rows[Hinted(r)[1]].id
             t == [task[r] EXCEPT !.pc = "save", !.id = id]
  <2>1. task' = [task EXCEPT ![r] = t]
    BY <1>1
  <2> HIDE DEF id
  <2>2. t.pc = "save" /\ t.told = task[r].told
    BY <1>0 DEF Task
  <2> HIDE DEF t
  <2>3. task'[r] = t /\ OthersStay(r)
    BY <1>0, <2>1, TaskTurned
  <2> QED  BY <1>0, <2>2, <2>3, PosesServe
<1>2. CASE Advance(r, "ask", {Hinted(r)})
  <2>1. "ask" \in Pc /\ {Hinted(r)} \in SUBSET (Keys \cup Poses)
    BY <1>0 DEF Pc, Provisioning
  <2>2. PICK t \in Task : /\ task' = [task EXCEPT ![r] = t] /\ t.pc = "ask"
                          /\ t.told = task[r].told \cup {Hinted(r)}
    BY <1>0, <1>2, <2>1, Advances
  <2>3. task'[r] = t /\ OthersStay(r)
    BY <1>0, <2>2, TaskTurned
  <2> QED  BY <1>0, <2>2, <2>3, PosesServe
<1> QED  BY <1>1, <1>2 DEF Ask

LEMMA SaveServes ==
  ASSUME Unedited, EmptyRowIsBeingFilled, KeepsShown, NEW r \in Runs, Reckoned(r), Save(r)
  PROVE  Careful(r) /\ Reckoned(r)'
<1>0. /\ CastsTypeOK /\ task[r] \in Task /\ task[r].pc = "save" /\ UNCHANGED rows
      /\ task[r].left # {} /\ Hinted(r) \in Poses
  <2>1. task[r].pc = "save" /\ LocalsHold(r)
    BY DEF Save, At, Unedited
  <2>2. task[r].left # {}
    BY <2>1 DEF LocalsHold
  <2> QED  BY <2>1, <2>2, HeadInHand DEF Save, Unedited, CastsTypeOK
<1>1. PICK nobody \in SUBSET (Keys \cup Poses) : Advance(r, "ask", nobody)
  <2>1. {} \in SUBSET (Keys \cup Poses) /\ {Hinted(r)} \in SUBSET (Keys \cup Poses)
    BY <1>0
  <2>2. Advance(r, "ask", {}) \/ Advance(r, "ask", {Hinted(r)})
    BY DEF Save
  <2> QED  BY <2>1, <2>2, Zenon
<1>2. "ask" \in Pc
  BY DEF Pc, Provisioning
<1>3. PICK t \in Task : /\ task' = [task EXCEPT ![r] = t] /\ t.pc = "ask"
                        /\ t.told = task[r].told \cup nobody
  BY <1>0, <1>1, <1>2, Advances
<1>4. task'[r] = t /\ OthersStay(r)
  BY <1>0, <1>3, TaskTurned
<1> QED  BY <1>0, <1>3, <1>4, PosesServe

\* Who is not on the list has a row, and is told of or worked on, or is told of now.
LEMMA PlanServes ==
  ASSUME Unedited, EmptyRowIsBeingFilled, KeepsShown, NEW r \in Runs, Reckoned(r), Plan(r)
  PROVE  Careful(r) /\ Reckoned(r)'
<1> DEFINE missing == {i \in DOMAIN Offshoots : ~ Present(Offshoots[i])}
           drawable == {i \in missing : Offshoots[i] \in Authored}
           passed == (missing \ drawable) \cup Beyond(DerivedCap, drawable)
           left == Within(DerivedCap, drawable)
           gaps == {Offshoots[i] : i \in passed}
           t == [task[r] EXCEPT !.pc = "adopt", !.left = left, !.told = @ \cup gaps]
<1>0. CastsTypeOK /\ task[r] \in Task /\ task[r].pc = "ask" /\ UNCHANGED rows
  BY DEF Plan, At, Unedited, CastsTypeOK
<1>1. task' = [task EXCEPT ![r] = t]
  BY DEF Plan
<1>2. ASSUME NEW i \in DOMAIN Offshoots \ left
      PROVE  Present(Offshoots[i]) \/ Offshoots[i] \in gaps
  BY DEF Beyond
<1> HIDE DEF left, gaps
<1>3. t.pc = "adopt" /\ t.left = left /\ t.told = task[r].told \cup gaps
  BY <1>0 DEF Task
<1> HIDE DEF t
<1>4. task'[r] = t /\ OthersStay(r) /\ task[r].told \subseteq task'[r].told
  BY <1>0, <1>1, <1>3, TaskTurned
<1>5. Careful(r)
  BY <1>0, <1>4, CareOfIdle
<1>6. \A k \in Keys : Accounted(k) => Accounted(k)'
  BY <1>5, CareIsTaken
<1>7. ASSUME NEW i \in DOMAIN Offshoots \ left  PROVE Accounted(Offshoots[i])'
  <2>1. Offshoots[i] \in Keys
    BY DEF Keys, Derived, ToSet
  <2>2. CASE Present(Offshoots[i])
    BY <1>6, <2>1, <2>2, PresentIsAccounted
  <2>3. CASE Offshoots[i] \in gaps
    BY <1>3, <1>4, <2>3 DEF Accounted
  <2> QED  BY <1>2, <2>2, <2>3
<1>8. Accounted(Entity)'
  <2>1. Entity \in Keys /\ Accounted(Entity)
    BY <1>0 DEF Reckoned, Keys
  <2> QED  BY <1>6, <2>1
<1>9. Reckoned(r)'
  BY <1>3, <1>4, <1>7, <1>8 DEF Reckoned
<1> QED  BY <1>5, <1>9

\* While an offshoot, or the entity, is drawn.
LEMMA DrawingServes ==
  ASSUME Unedited, EmptyRowIsBeingFilled, KeepsShown, UNCHANGED rows, NEW r \in Runs, Reckoned(r),
         task[r].pc \in {"angles", "image", "reading"}, task'[r].pc \in {"angles", "image", "reading"},
         task'[r].left = task[r].left, task'[r].id = task[r].id, task'[r].told = task[r].told,
         OthersStay(r)
  PROVE  Careful(r) /\ Reckoned(r)'
<1>1. Key(r)' = Key(r)
  BY DEF Key, Offshoot
<1>2. HandsOver(r)
  BY <1>1 DEF HandsOver, AtWork, Holds, Present
<1>3. Careful(r)
  BY <1>2, CareOfStill
<1>4. \A k \in Keys : Accounted(k) => Accounted(k)'
  BY <1>3, CareIsTaken
<1>5. Reckoned(r)'
  <2> SUFFICES ASSUME DrawsOffshoot(r)
               PROVE  /\ Accounted(Entity)'
                      /\ \A i \in DOMAIN Offshoots \ task[r].left : Accounted(Offshoots[i])'
    BY DEF Reckoned, DrawsOffshoot
  <2>1. Accounted(Entity) /\ \A i \in DOMAIN Offshoots \ task[r].left : Accounted(Offshoots[i])
    BY DEF Reckoned
  <2>2. Entity \in Keys /\ \A i \in DOMAIN Offshoots : Offshoots[i] \in Keys
    BY DEF Keys, Derived, ToSet
  <2> QED  BY <1>4, <2>1, <2>2
<1> QED  BY <1>3, <1>5

LEMMA GenerateServes ==
  ASSUME Unedited, EmptyRowIsBeingFilled, KeepsShown, NEW r \in Runs, Reckoned(r), Generate(r)
  PROVE  Careful(r) /\ Reckoned(r)'
<1>0. CastsTypeOK /\ task[r] \in Task /\ task[r].pc = "angles" /\ UNCHANGED rows
  BY DEF Generate, At, Unedited, CastsTypeOK
<1>1. CASE task' = [task EXCEPT ![r].angle = @ + 1]
  <2> DEFINE t == [task[r] EXCEPT !.angle = @ + 1]
  <2>1. task' = [task EXCEPT ![r] = t]
    BY <1>1
  <2>2. /\ t.pc = "angles" /\ t.left = task[r].left /\ t.id = task[r].id
        /\ t.told = task[r].told
    BY <1>0 DEF Task
  <2> HIDE DEF t
  <2>3. task'[r] = t /\ OthersStay(r)
    BY <1>0, <2>1, TaskTurned
  <2> QED  BY <1>0, <2>2, <2>3, DrawingServes
<1>2. CASE task' # [task EXCEPT ![r].angle = @ + 1]
  <2> DEFINE who == IF Key(r) = Entity THEN Reference
                    ELSE IF View(r) = "front" THEN r ELSE art[Key(r)]["front"]
             t == [task[r] EXCEPT !.pc = "image", !.painter = who]
  <2>1. task' = [task EXCEPT ![r].pc = "image", ![r].painter = who]
    BY <1>2 DEF Generate
  <2> HIDE DEF who
  <2>2. task' = [task EXCEPT ![r] = t]
    BY <2>1
  <2>3. /\ t.pc = "image" /\ t.left = task[r].left /\ t.id = task[r].id
        /\ t.told = task[r].told
    BY <1>0 DEF Task
  <2> HIDE DEF t
  <2>4. task'[r] = t /\ OthersStay(r)
    BY <1>0, <2>2, TaskTurned
  <2> QED  BY <1>0, <2>3, <2>4, DrawingServes
<1> QED  BY <1>1, <1>2

LEMMA GeneratedServes ==
  ASSUME Unedited, EmptyRowIsBeingFilled, KeepsShown, NEW r \in Runs, Reckoned(r), Generated(r)
  PROVE  Careful(r) /\ Reckoned(r)'
<1>0. CastsTypeOK /\ task[r] \in Task /\ task[r].pc = "image" /\ UNCHANGED rows
  BY DEF Generated, At, Unedited, CastsTypeOK
<1>1. CASE task' = [task EXCEPT
                      ![r].pc = IF Key(r) \in Derived /\ View(r) = "front"
                                THEN "reading" ELSE "angles",
                      ![r].angle = @ + 1, ![r].painter = Nobody,
                      ![r].drawn = @ \cup {View(r)}]
  <2> DEFINE pc == IF Key(r) \in Derived /\ View(r) = "front" THEN "reading" ELSE "angles"
             t == [task[r] EXCEPT !.pc = pc, !.angle = @ + 1, !.painter = Nobody,
                                  !.drawn = @ \cup {View(r)}]
  <2>1. task' = [task EXCEPT ![r] = t]
    BY <1>1
  <2>2. pc \in {"angles", "reading"}
    OBVIOUS
  <2> HIDE DEF pc
  <2>3. t.pc = pc /\ t.left = task[r].left /\ t.id = task[r].id /\ t.told = task[r].told
    BY <1>0 DEF Task
  <2> HIDE DEF t
  <2>4. task'[r] = t /\ OthersStay(r)
    BY <1>0, <2>1, TaskTurned
  <2> QED  BY <1>0, <2>2, <2>3, <2>4, DrawingServes
<1>2. CASE task' = [task EXCEPT ![r].pc = "angles", ![r].angle = @ + 1,
                                ![r].painter = Nobody]
  <2> DEFINE t == [task[r] EXCEPT !.pc = "angles", !.angle = @ + 1, !.painter = Nobody]
  <2>1. task' = [task EXCEPT ![r] = t]
    BY <1>2
  <2>2. /\ t.pc = "angles" /\ t.left = task[r].left /\ t.id = task[r].id
        /\ t.told = task[r].told
    BY <1>0 DEF Task
  <2> HIDE DEF t
  <2>3. task'[r] = t /\ OthersStay(r)
    BY <1>0, <2>1, TaskTurned
  <2> QED  BY <1>0, <2>2, <2>3, DrawingServes
<1> QED  BY <1>1, <1>2 DEF Generated

LEMMA AdoptServes ==
  ASSUME Unedited, EmptyRowIsBeingFilled, KeepsShown, NEW r \in Runs, Reckoned(r), Adopt(r)
  PROVE  Careful(r) /\ Reckoned(r)'
<1>0. /\ CastsTypeOK /\ task[r] \in Task /\ task[r].pc = "adopt" /\ task[r].left # {}
      /\ Offshoot(r) \in Keys /\ Offshoot(r) # Entity /\ Entity \in Keys
  BY HeadInHand DEF Adopt, At, Unedited, CastsTypeOK, Keys
<1>1. PICK id : task' = [task EXCEPT ![r].pc = "angles", ![r].id = id]
  BY DEF Adopt
<1> DEFINE t == [task[r] EXCEPT !.pc = "angles", !.id = id]
<1>2. t.pc = "angles" /\ t.left = task[r].left /\ t.told = task[r].told
  BY <1>0 DEF Task
<1>3. task' = [task EXCEPT ![r] = t]
  BY <1>1
<1> HIDE DEF t
<1>4. task'[r] = t /\ OthersStay(r)
  BY <1>0, <1>3, TaskTurned
<1>5. \A k \in Keys \ {Offshoot(r)} : rows'[k] = rows[k]
  BY DEF Adopt, Insert, Unedited, CastsTypeOK
<1>6. Key(r)' = Offshoot(r)
  BY <1>0, <1>2, <1>4 DEF Key, Offshoot
<1>7. HandsOver(r)
  BY <1>0 DEF HandsOver, AtWork
<1>8. KeepsHolders(r)
  <2>1. rows'[Entity] = rows[Entity]
    BY <1>0, <1>5
  <2> QED  BY <1>4, <2>1 DEF KeepsHolders, OthersStay, Holds, Present
<1>9. KeepsFull(r)
  <2> SUFFICES ASSUME NEW k \in Keys, Present(k)', Shown(k)' = {}
               PROVE  (Present(k) /\ Shown(k) = {}) \/ AtWork(r, k)'
    BY DEF KeepsFull
  <2>1. CASE k = Offshoot(r)
    <3>1. Key(r)' = k /\ k # Entity /\ task'[r].pc = "angles"
      BY <1>0, <1>2, <1>4, <1>6, <2>1
    <3> QED  BY <3>1 DEF AtWork
  <2>2. CASE k # Offshoot(r)
    BY <1>5, <2>2 DEF Present, Shown
  <2> QED  BY <2>1, <2>2
<1>10. Careful(r)
  BY <1>2, <1>4, <1>7, <1>8, <1>9 DEF Careful
<1>11. \A k \in Keys : Accounted(k) => Accounted(k)'
  BY <1>10, CareIsTaken
<1>12. Reckoned(r)'
  <2>1. Accounted(Entity) /\ \A i \in DOMAIN Offshoots \ task[r].left : Accounted(Offshoots[i])
    BY <1>0 DEF Reckoned
  <2>2. Entity \in Keys /\ \A i \in DOMAIN Offshoots : Offshoots[i] \in Keys
    BY DEF Keys, Derived, ToSet
  <2>3. Accounted(Entity)' /\ \A i \in DOMAIN Offshoots \ task[r].left : Accounted(Offshoots[i])'
    BY <1>11, <2>1, <2>2
  <2> QED  BY <1>2, <1>4, <2>3 DEF Reckoned
<1> QED  BY <1>10, <1>12

\* A run is through with the offshoot in hand once it is on screen or told of.
LEMMA AdvanceServes ==
  ASSUME Unedited, EmptyRowIsBeingFilled, KeepsShown, NEW r \in Runs, Reckoned(r),
         task[r].pc \in {"angles", "reading"}, task[r].left # {}, NEW o, o = Offshoot(r),
         NEW nobody \in SUBSET (Keys \cup Poses), Advance(r, "adopt", nobody),
         \A k \in Keys \ {o} : rows'[k] = rows[k],
         Shown(o)' # {} \/ (~ Present(o)' /\ o \in nobody)
  PROVE  Careful(r) /\ Reckoned(r)'
<1>0. /\ CastsTypeOK /\ o \in Keys /\ o # Entity /\ Entity \in Keys
      /\ Min(task[r].left) \in task[r].left /\ LocalsHold(r)
  BY HeadInHand DEF Unedited, Keys
<1>1. "adopt" \in Pc
  BY DEF Pc, Provisioning
<1>2. PICK t \in Task : /\ task' = [task EXCEPT ![r] = t] /\ t.pc = "adopt"
                        /\ t.left = task[r].left \ {Min(task[r].left)}
                        /\ t.told = task[r].told \cup nobody
  BY <1>0, <1>1, Advances
<1>3. task'[r] = t /\ OthersStay(r) /\ task[r].told \subseteq task'[r].told
  <2>1. task[r].told \subseteq task[r].told \cup nobody
    OBVIOUS
  <2> QED  BY <1>0, <1>2, <2>1, TaskTurned
<1>4. \A k \in Keys : AtWork(r, k) => k = o
  BY DEF AtWork, Key
<1>5. HandsOver(r)
  BY <1>2, <1>3, <1>4 DEF HandsOver
<1>6. KeepsHolders(r)
  <2>1. rows'[Entity] = rows[Entity]
    BY <1>0
  <2> QED  BY <1>3, <2>1 DEF KeepsHolders, OthersStay, Holds, Present
<1>7. KeepsFull(r)
  <2> SUFFICES ASSUME NEW k \in Keys, Present(k)', Shown(k)' = {}
               PROVE  (Present(k) /\ Shown(k) = {}) \/ AtWork(r, k)'
    BY DEF KeepsFull
  <2>1. k # o
    OBVIOUS
  <2> QED  BY <2>1 DEF Present, Shown
<1>8. Careful(r)
  BY <1>3, <1>5, <1>6, <1>7 DEF Careful
<1>9. \A k \in Keys : Accounted(k) => Accounted(k)'
  BY <1>8, CareIsTaken
<1>10. Accounted(Entity) /\ \A i \in DOMAIN Offshoots \ task[r].left : Accounted(Offshoots[i])
  BY DEF Reckoned, DrawsOffshoot
<1>11. ASSUME NEW i \in DOMAIN Offshoots \ t.left  PROVE Accounted(Offshoots[i])'
  <2>1. CASE i = Min(task[r].left)
    BY <1>2, <1>3, <2>1 DEF Accounted, Offshoot
  <2>2. CASE i # Min(task[r].left)
    <3>1. i \in DOMAIN Offshoots \ task[r].left /\ Offshoots[i] \in Keys
      BY <1>2, <2>2 DEF Keys, Derived, ToSet
    <3> QED  BY <1>9, <1>10, <3>1
  <2> QED  BY <2>1, <2>2
<1>12. Reckoned(r)'
  BY <1>0, <1>2, <1>3, <1>9, <1>10, <1>11 DEF Reckoned
<1> QED  BY <1>8, <1>12

LEMMA GiveUpServes ==
  ASSUME Unedited, EmptyRowIsBeingFilled, KeepsShown, NEW r \in Runs, Reckoned(r),
         task[r].pc \in {"angles", "reading"}, task[r].left # {}, GiveUp(r)
  PROVE  Careful(r) /\ Reckoned(r)'
<1>0. PICK o \in Keys : o = Offshoot(r)
  BY HeadInHand DEF Unedited
<1>1. Advance(r, "adopt", {o}) /\ {o} \in SUBSET (Keys \cup Poses)
  BY <1>0 DEF GiveUp
<1>2. CASE Present(o) /\ "front" \notin Shown(o)
  <2>1. rows' = [rows EXCEPT ![o] = NoRow]
    BY <1>0, <1>2 DEF GiveUp, Erase
  <2>2. ~ Present(o)' /\ \A k \in Keys \ {o} : rows'[k] = rows[k]
    BY <1>0, <2>1 DEF Present, Unedited, CastsTypeOK
  <2> QED  BY <1>0, <1>1, <2>2, AdvanceServes
<1>3. CASE ~ (Present(o) /\ "front" \notin Shown(o))
  <2>1. UNCHANGED rows
    BY <1>0, <1>3 DEF GiveUp
  <2>2. Shown(o)' # {} \/ ~ Present(o)'
    BY <1>3, <2>1 DEF Shown, Present
  <2>3. \A k \in Keys \ {o} : rows'[k] = rows[k]
    BY <2>1
  <2> QED  BY <1>0, <1>1, <2>2, <2>3, AdvanceServes
<1> QED  BY <1>2, <1>3

LEMMA ReadBackServes ==
  ASSUME Unedited, EmptyRowIsBeingFilled, KeepsShown, NEW r \in Runs, Reckoned(r), ReadBack(r)
  PROVE  Careful(r) /\ Reckoned(r)'
<1>0. task[r].pc = "reading" /\ task[r].left # {} /\ CastsTypeOK
  <2>1. task[r].pc = "reading" /\ LocalsHold(r) /\ CastsTypeOK
    BY DEF ReadBack, At, Unedited
  <2> QED  BY <2>1 DEF LocalsHold
<1>1. CASE GiveUp(r)
  BY <1>0, <1>1, GiveUpServes
<1>2. CASE Goto(r, "angles") /\ UNCHANGED rows
  <2>1. "angles" \in Pc
    BY DEF Pc, Provisioning
  <2>2. PICK t \in Task : /\ task' = [task EXCEPT ![r] = t] /\ t.pc = "angles"
                          /\ t.left = task[r].left /\ t.id = task[r].id
                          /\ t.told = task[r].told
    BY <1>0, <1>2, <2>1, TurnsTo
  <2>3. task'[r] = t /\ OthersStay(r)
    BY <1>0, <2>2, TaskTurned
  <2> QED  BY <1>0, <1>2, <2>2, <2>3, DrawingServes
<1> QED  BY <1>1, <1>2 DEF ReadBack

LEMMA SettleServes ==
  ASSUME Unedited, EmptyRowIsBeingFilled, KeepsShown, NEW r \in Runs, Reckoned(r), Settle(r)
  PROVE  Careful(r) /\ Reckoned(r)'
<1>0. /\ task[r].pc = "angles" /\ task[r].left # {} /\ CastsTypeOK
      /\ {} \in SUBSET (Keys \cup Poses)
  <2>1. task[r].pc = "angles" /\ Key(r) \in Derived /\ CastsTypeOK
    BY DEF Settle, At, Unedited
  <2>2. task[r].left # {}
    BY <2>1, OffshootsAssumption DEF Key, Derived
  <2> QED  BY <2>1, <2>2
<1>1. PICK o \in Keys : o = Offshoot(r)
  BY <1>0, HeadInHand DEF Unedited
<1>2. CASE GiveUp(r)
  BY <1>0, <1>2, GiveUpServes
<1>3. CASE "front" \in Shown(o) /\ Advance(r, "adopt", {}) /\ UNCHANGED rows
  <2>1. Shown(o)' # {} /\ \A k \in Keys \ {o} : rows'[k] = rows[k]
    BY <1>3 DEF Shown, Present
  <2>2. Advance(r, "adopt", {})
    BY <1>3
  <2> QED  BY <1>0, <1>1, <2>1, <2>2, AdvanceServes
<1>4. CASE /\ task[r].drawn # {} /\ Holds(r, o) /\ Advance(r, "adopt", {})
           /\ rows' = [rows EXCEPT ![o].shown = @ \cup task[r].drawn]
  <2>1. rows[o] \in Row /\ task[r].drawn \subseteq Views
    BY <1>0, <1>1, <1>4 DEF Holds, Present, CastsTypeOK, Task
  <2>2. rows'[o] = [rows[o] EXCEPT !.shown = @ \cup task[r].drawn]
    BY <1>0, <1>1, <1>4 DEF CastsTypeOK
  <2>3. rows'[o] \in Row /\ rows'[o].shown = rows[o].shown \cup task[r].drawn
    BY <2>1, <2>2 DEF Row
  <2>4. Shown(o)' # {}
    BY <1>4, <2>3, NoRowAssumption DEF Shown, Present
  <2>5. \A k \in Keys \ {o} : rows'[k] = rows[k]
    BY <1>0, <1>4 DEF CastsTypeOK
  <2>6. Advance(r, "adopt", {})
    BY <1>4
  <2> QED  BY <1>0, <1>1, <2>4, <2>5, <2>6, AdvanceServes
<1> QED  BY <1>1, <1>2, <1>3, <1>4 DEF Settle

LEMMA FilmServes ==
  ASSUME Unedited, EmptyRowIsBeingFilled, KeepsShown, NEW r \in Runs, Reckoned(r), Film(r)
  PROVE  Careful(r) /\ Reckoned(r)'
<1>0. /\ task[r].pc = "adopt" /\ task[r].left = {} /\ UNCHANGED rows /\ CastsTypeOK
      /\ Leave(r, "film", {})
  BY DEF Film, At, Unedited
<1>1. "film" \in Pc /\ {} \in SUBSET (Keys \cup Poses)
  BY DEF Pc
<1>2. PICK nobody \in SUBSET (Keys \cup Poses) : Leave(r, "film", nobody)
  BY <1>0, <1>1, Zenon
<1>3. PICK t \in Task : /\ task' = [task EXCEPT ![r] = t] /\ t.pc = "film"
                        /\ t.told = task[r].told \cup nobody
  BY <1>0, <1>1, <1>2, Leaves
<1>4. task'[r] = t /\ OthersStay(r) /\ task[r].told \subseteq task'[r].told
  <2>1. task[r].told \subseteq task[r].told \cup nobody
    OBVIOUS
  <2> QED  BY <1>0, <1>3, <2>1, TaskTurned
<1>5. Careful(r)
  BY <1>0, <1>4, CareOfIdle
<1>6. \A k \in Keys : Accounted(k) => Accounted(k)'
  BY <1>5, CareIsTaken
<1>7. Accounted(Entity) /\ \A i \in DOMAIN Offshoots : Accounted(Offshoots[i])
  BY <1>0 DEF Reckoned
<1>8. Entity \in Keys /\ \A i \in DOMAIN Offshoots : Offshoots[i] \in Keys
  BY DEF Keys, Derived, ToSet
<1>9. Accounted(Entity)' /\ \A i \in DOMAIN Offshoots : Accounted(Offshoots[i])'
  BY <1>6, <1>7, <1>8
<1>10. Reckoned(r)'
  BY <1>3, <1>4, <1>9 DEF Reckoned, DrawsOffshoot
<1> QED  BY <1>5, <1>10

LEMMA RunServes ==
  ASSUME Unedited, EmptyRowIsBeingFilled, KeepsShown, NEW r \in Runs, Reckoned(r),
         Check(r) \/ Approve(r) \/ Works(r)
  PROVE  Careful(r) /\ Reckoned(r)'
  BY CheckServes, ApproveServes, CreateServes, SearchServes, DescribeServes, PublishServes,
     GenerateServes, GeneratedServes, AskServes, SaveServes, PlanServes, AdoptServes,
     ReadBackServes, SettleServes, FilmServes DEF Works

LEMMA ServedStep == CastsInv /\ ServedInv /\ [Next]_vars => ServedInv'
<1> SUFFICES ASSUME CastsInv, ServedInv, [Next]_vars  PROVE ServedInv'
  OBVIOUS
<1>0. edits \in Nat /\ crashes \in Nat
  BY DEF CastsInv, ServedInv
<1>1. CASE UNCHANGED vars
  <2>1. UNCHANGED <<rows, task, edits, crashes>>
    BY <1>1 DEF vars
  <2>2. ASSUME EmptyRowIsBeingFilled  PROVE EmptyRowIsBeingFilled'
    BY <2>1, <2>2 DEF EmptyRowIsBeingFilled, AtWork, Holds, Present, Shown, Key, Offshoot
  <2>3. ASSUME NEW r \in Runs, Reckoned(r)  PROVE Reckoned(r)'
    BY <2>1, <2>3 DEF Reckoned, DrawsOffshoot, Accounted, AtWork, Holds, Present, Shown, Key, Offshoot
  <2> QED  BY <2>1, <2>2, <2>3 DEF ServedInv, Undisturbed
<1>2. CASE PageNext
  <2>1. edits' = edits + 1 /\ crashes' = crashes
    BY <1>2 DEF PageNext, PageCreate, PageDescribe, PageDelete, PageDraw, Request
  <2> QED  BY <1>0, <2>1 DEF ServedInv, Undisturbed
<1>3. CASE Crash
  <2>1. crashes' = crashes + 1
    BY <1>3 DEF Crash
  <2> QED  BY <1>0, <2>1 DEF ServedInv, Undisturbed
<1>4. ASSUME NEW r \in Runs, Check(r) \/ Approve(r) \/ Works(r)  PROVE ServedInv'
  <2>1. edits' = edits /\ crashes' = crashes
    BY <1>4 DEF Works, Check, Approve, Create, Search, Describe, Publish, Generate, Generated,
                Ask, Save, Plan, Adopt, ReadBack, Settle, Film
  <2> SUFFICES ASSUME Undisturbed
               PROVE  EmptyRowIsBeingFilled' /\ \A q \in Runs : Reckoned(q)'
    BY <1>0, <2>1 DEF ServedInv, Undisturbed
  <2>2. Unedited /\ EmptyRowIsBeingFilled /\ \A q \in Runs : Reckoned(q)
    BY DEF CastsInv, ServedInv, Undisturbed
  <2>3. KeepsShown
    BY <1>4, <2>2, RunSteps
  <2>4. Careful(r) /\ Reckoned(r)'
    BY <1>4, <2>2, <2>3, RunServes
  <2>5. EmptyRowIsBeingFilled' /\ \A k \in Keys : Accounted(k) => Accounted(k)'
    BY <2>2, <2>3, <2>4, CareIsTaken
  <2>6. ASSUME NEW q \in Runs, q # r  PROVE Reckoned(q)'
    <3>1. task'[q] = task[q]
      BY <2>4, <2>6 DEF Careful, OthersStay
    <3>2. Entity \in Keys /\ \A i \in DOMAIN Offshoots : Offshoots[i] \in Keys
      BY DEF Keys, Derived, ToSet
    <3> QED  BY <2>2, <2>5, <3>1, <3>2 DEF Reckoned, DrawsOffshoot
  <2> QED  BY <2>4, <2>5, <2>6
<1> QED  BY <1>1, <1>2, <1>3, <1>4 DEF Next

-----------------------------------------------------------------------------
(* The cards drawn one by one. *)

\* What the check excludes: the guided graph's file goes between the look and the
\* load, and the provider draws on the plain graph as if it were the guided one.
GraphKept == "graph" \notin DrawFaults

CardType ==
  [who: Nat, meant: Nat, figures: 0 .. 2, guide: BOOLEAN, guided: BOOLEAN, order: Nat]
DrawTypeOK ==
  /\ orders \in Nat /\ people \in Nat \ {0}
  /\ deck \in [Dirs -> [Slots -> CardType]]
  /\ listed \in [Slots -> {"none", "plain", "guide"}]
  /\ order \in [kind: {"none", "set", "angle", "hint"}, dir: Dirs, anchored: BOOLEAN,
                todo: SUBSET Angles0, drawn: SUBSET Slots]
  /\ bench \in [slot: Slots, meant: Nat, guide: BOOLEAN, fell: BOOLEAN, applied: BOOLEAN,
                guided: BOOLEAN, figures: 0 .. 2, who: Nat]

\* A picture is being drawn or judged.
AtBench == step \in {"upload", "likeness", "text", "judge"}

\* A card is of an order that was given, shows somebody, and is true.
CardsHold ==
  \A d \in Dirs, s \in Slots :
    /\ deck[d][s].order <= orders
    /\ deck[d][s].order # 0 => deck[d][s].who # 0 /\ CardIsTrue(s, deck[d][s])
SetsHold == \A d \in Dirs : SetIsOnePerson(d)

\* The picture in hand shows its model, or the provider says that it does not;
\* beside a front of the same order it is to show who is there.
HandHolds ==
  AtBench =>
    /\ bench.meant = Nobody1 => bench.slot = "front"
    /\ step = "text" => bench.meant = Nobody1 \/ bench.fell
    /\ step = "likeness" => bench.meant # Nobody1
    /\ step = "judge" => bench.who # 0 /\ (bench.who = bench.meant \/ bench.meant = Nobody1 \/ bench.fell)
    /\ step # "upload" => bench.guided = bench.applied
    /\ bench.slot # "front" => "front" \notin order.todo
    /\ bench.slot \in Others /\ deck[order.dir]["front"].order = orders =>
         bench.meant = deck[order.dir]["front"].who

\* What the order under way has drawn, front first.
OrderHolds ==
  step # "idle" =>
    /\ orders # 0
    /\ \A s \in Slots : s \in order.drawn <=> deck[order.dir][s].order = orders
    /\ "front" \in order.todo \/ (AtBench /\ bench.slot = "front") =>
         \A d \in Dirs, s \in Others : deck[d][s].order # orders
    /\ order.dir = "live" => \A s \in order.drawn : listed[s] # "none"

\* What a row points at has been drawn, and has an approved entry.
ColumnsHold ==
  columns \subseteq {s \in Slots : listed[s] # "none" /\ deck["live"][s].order # 0}

DrawInv == DrawTypeOK /\ CardsHold /\ SetsHold /\ HandHolds /\ OrderHolds /\ ColumnsHold

LEMMA DrawBegins == DrawInit => DrawInv
<1> SUFFICES ASSUME DrawInit PROVE DrawInv
  OBVIOUS
<1>1. DrawTypeOK
  BY DEF DrawInit, DrawTypeOK, CardType, NoCard1, Blank, NoOrder, Dirs, Slots, Angles0, Nobody1, Sitter
<1>2. CardsHold /\ SetsHold
  BY DEF DrawInit, CardsHold, SetsHold, SetIsOnePerson, NoCard1, Slots, Angles0
<1>3. HandHolds /\ OrderHolds /\ ColumnsHold
  BY DEF DrawInit, HandHolds, OrderHolds, ColumnsHold, AtBench
<1> QED  BY <1>1, <1>2, <1>3 DEF DrawInv

\* Cards stay as true as they were while rows are only filed.
LEMMA DeckStands ==
  ASSUME DrawInv, deck' = deck, filed \subseteq filed', orders' \in Nat, orders <= orders'
  PROVE  CardsHold' /\ SetsHold'
<1>1. ASSUME NEW d \in Dirs, NEW s \in Slots
      PROVE  /\ (deck[d][s].order <= orders)'
             /\ (deck[d][s].order # 0 => deck[d][s].who # 0 /\ CardIsTrue(s, deck[d][s]))'
  <2>1. deck[d][s].order \in Nat /\ deck[d][s].order <= orders /\ orders \in Nat
    BY DEF DrawInv, DrawTypeOK, CardType, CardsHold
  <2>2. deck[d][s].order # 0 => deck[d][s].who # 0 /\ CardIsTrue(s, deck[d][s])
    BY DEF DrawInv, CardsHold
  <2> QED  BY <2>1, <2>2 DEF CardIsTrue, ToldOf
<1>2. ASSUME NEW d \in Dirs PROVE SetIsOnePerson(d)'
  BY DEF DrawInv, SetsHold, SetIsOnePerson, ToldOf
<1> QED  BY <1>1, <1>2 DEF CardsHold, SetsHold

\* A new order has drawn nothing yet.
LEMMA NothingOfTheNext ==
  ASSUME DrawInv, NEW d \in Dirs, NEW s \in Slots
  PROVE  deck[d][s].order # orders + 1
BY DEF DrawInv, DrawTypeOK, CardType, CardsHold

LEMMA OrderGiven ==
  ASSUME DrawInv, NEW o \in [kind: {"set", "angle"}, dir: Dirs, anchored: BOOLEAN,
                             todo: SUBSET Angles0, drawn: {{}}],
         Begin(o)
  PROVE  DrawInv'
<1>1. /\ step' = "next" /\ order' = o /\ o.drawn = {} /\ orders' = orders + 1
      /\ orders \in Nat /\ orders' \in Nat /\ orders <= orders' /\ orders' # 0
      /\ deck' = deck /\ listed' = listed /\ columns' = columns /\ bench' = bench
      /\ filed' = filed /\ people' = people
  BY DEF Begin, deckVars, DrawInv, DrawTypeOK
<1>2. DrawTypeOK'
  BY <1>1 DEF DrawInv, DrawTypeOK
<1>3. CardsHold' /\ SetsHold'
  BY <1>1, DeckStands
<1>4. HandHolds'
  BY <1>1 DEF HandHolds, AtBench
<1>5. OrderHolds'
  BY <1>1, NothingOfTheNext DEF OrderHolds, AtBench, Slots, Angles0
<1>6. ColumnsHold'
  BY <1>1 DEF DrawInv, ColumnsHold
<1> QED  BY <1>2, <1>3, <1>4, <1>5, <1>6 DEF DrawInv

LEMMA BeginSetStep ==
  ASSUME DrawInv, NEW dir \in Dirs, NEW anchored \in BOOLEAN, BeginSet(dir, anchored)
  PROVE  DrawInv'
<1> DEFINE o == [NoOrder EXCEPT !.kind = "set", !.dir = dir, !.anchored = anchored, !.todo = Angles0]
<1>1. o \in [kind: {"set", "angle"}, dir: Dirs, anchored: BOOLEAN, todo: SUBSET Angles0, drawn: {{}}]
  BY DEF NoOrder
<1>2. Begin(o)
  BY DEF BeginSet
<1> HIDE DEF o
<1> QED  BY <1>1, <1>2, OrderGiven

LEMMA BeginAngleStep ==
  ASSUME DrawInv, NEW a \in Angles0, BeginAngle(a)
  PROVE  DrawInv'
<1> DEFINE o == [NoOrder EXCEPT !.kind = "angle", !.anchored = TRUE, !.todo = {a}]
<1>1. o \in [kind: {"set", "angle"}, dir: Dirs, anchored: BOOLEAN, todo: SUBSET Angles0, drawn: {{}}]
  BY DEF NoOrder, Dirs
<1>2. Begin(o)
  BY DEF BeginAngle
<1> HIDE DEF o
<1> QED  BY <1>1, <1>2, OrderGiven

LEMMA BeginHintStep ==
  ASSUME DrawInv, NEW guide \in {"none", "usable", "unusable"}, BeginHint(guide)
  PROVE  DrawInv'
<1>1. /\ step = "idle" /\ orders' = orders + 1
      /\ orders \in Nat /\ orders' \in Nat /\ orders <= orders' /\ orders' # 0
      /\ deck' = deck /\ listed' = listed /\ columns' = columns
      /\ filed \subseteq filed' /\ people' = people
  BY DEF BeginHint, deckVars, DrawInv, DrawTypeOK
<1>2. CardsHold' /\ SetsHold'
  BY <1>1, DeckStands
<1>3. ColumnsHold'
  BY <1>1 DEF DrawInv, ColumnsHold
<1>4. CASE "front" \in columns /\ looks # "none"
  <2> DEFINE o == [NoOrder EXCEPT !.kind = "hint"]
             b == Blank("hint", LiveFront.who, guide = "usable")
  <2>1. step' = "upload" /\ order' = o /\ bench' = b
    BY <1>4 DEF BeginHint
  <2>2. /\ o \in [kind: {"none", "set", "angle", "hint"}, dir: Dirs, anchored: BOOLEAN,
                  todo: SUBSET Angles0, drawn: SUBSET Slots]
        /\ o.drawn = {} /\ o.todo = {} /\ o.dir = "live"
    BY DEF NoOrder, Dirs
  <2>3. LiveFront.who \in Nat /\ LiveFront.who # 0
    BY <1>4 DEF LiveFront, DrawInv, DrawTypeOK, CardType, CardsHold, ColumnsHold, Dirs, Slots, Angles0
  <2>4. /\ b \in [slot: Slots, meant: Nat, guide: BOOLEAN, fell: BOOLEAN, applied: BOOLEAN,
                  guided: BOOLEAN, figures: 0 .. 2, who: Nat]
        /\ b.slot = "hint" /\ b.meant = LiveFront.who
    <3>1. (guide = "usable") \in BOOLEAN
      OBVIOUS
    <3> QED  BY <2>3, <3>1 DEF Blank, Slots
  <2> HIDE DEF o, b
  <2>5. DrawTypeOK'
    BY <1>1, <2>1, <2>2, <2>4 DEF DrawInv, DrawTypeOK
  <2>6. HandHolds'
    BY <2>1, <2>2, <2>3, <2>4, OthersKnown DEF HandHolds, AtBench, Nobody1
  <2>7. OrderHolds'
    BY <1>1, <2>1, <2>2, <2>4, NothingOfTheNext DEF OrderHolds, Slots, Angles0, Dirs
  <2> QED  BY <1>2, <1>3, <2>5, <2>6, <2>7 DEF DrawInv
<1>5. CASE ~("front" \in columns /\ looks # "none")
  <2>1. step' = step /\ order' = order /\ bench' = bench
    BY <1>5 DEF BeginHint
  <2>2. DrawTypeOK'
    BY <1>1, <2>1 DEF DrawInv, DrawTypeOK
  <2>3. HandHolds' /\ OrderHolds'
    BY <1>1, <2>1 DEF HandHolds, OrderHolds, AtBench
  <2> QED  BY <1>2, <1>3, <2>2, <2>3 DEF DrawInv
<1> QED  BY <1>4, <1>5

\* While a picture is made, the cards and the order stay as they are.
LEMMA BenchStep ==
  ASSUME DrawInv, deck' = deck, listed' = listed, columns' = columns, order' = order,
         orders' = orders, filed \subseteq filed', people' \in Nat \ {0},
         bench' \in [slot: {bench.slot}, meant: {bench.meant}, guide: BOOLEAN, fell: BOOLEAN,
                     applied: BOOLEAN, guided: BOOLEAN, figures: 0 .. 2, who: Nat],
         step # "idle", AtBench' => AtBench,
         AtBench' =>
           /\ step' = "text" => bench.meant = Nobody1 \/ bench'.fell
           /\ step' = "likeness" => bench.meant # Nobody1
           /\ step' = "judge" => bench'.who # 0
                /\ (bench'.who = bench.meant \/ bench.meant = Nobody1 \/ bench'.fell)
           /\ step' # "upload" => bench'.guided = bench'.applied
  PROVE  DrawInv'
<1>1. /\ bench'.slot = bench.slot /\ bench'.meant = bench.meant
      /\ orders' \in Nat /\ orders <= orders'
  BY DEF DrawInv, DrawTypeOK
<1>2. DrawTypeOK'
  BY DEF DrawInv, DrawTypeOK
<1>3. CardsHold' /\ SetsHold'
  BY <1>1, DeckStands
<1>4. HandHolds'
  BY <1>1 DEF DrawInv, HandHolds
<1>5. OrderHolds'
  BY <1>1 DEF DrawInv, OrderHolds
<1>6. ColumnsHold'
  BY DEF DrawInv, ColumnsHold
<1> QED  BY <1>2, <1>3, <1>4, <1>5, <1>6 DEF DrawInv

LEMMA BenchIs ==
  ASSUME DrawInv
  PROVE  bench \in [slot: {bench.slot}, meant: {bench.meant}, guide: BOOLEAN, fell: BOOLEAN,
                    applied: BOOLEAN, guided: BOOLEAN, figures: 0 .. 2, who: Nat]
BY DEF DrawInv, DrawTypeOK

LEMMA UploadStep == ASSUME GraphKept, DrawInv, Upload PROVE DrawInv'
<1>1. PICK applied \in BOOLEAN : bench' = [bench EXCEPT !.applied = applied, !.guided = applied]
  <2>1. \E applied \in {bench.guide, FALSE} :
          bench' = [bench EXCEPT !.applied = applied, !.guided = applied]
    BY DEF Upload, Graphs, GraphKept
  <2>2. bench.guide \in BOOLEAN
    BY DEF DrawInv, DrawTypeOK
  <2> QED  BY <2>1, <2>2
<1> DEFINE b == [bench EXCEPT !.applied = applied, !.guided = applied]
<1>2. /\ b \in [slot: {bench.slot}, meant: {bench.meant}, guide: BOOLEAN, fell: BOOLEAN,
                applied: BOOLEAN, guided: BOOLEAN, figures: 0 .. 2, who: Nat]
      /\ b.guided = b.applied
  BY BenchIs
<1>3. bench' = b
  BY <1>1
<1> HIDE DEF b
<1>4. /\ step = "upload" /\ step' \in {"text", "likeness"}
      /\ step' = "text" => bench.meant = Nobody1
      /\ step' = "likeness" => bench.meant # Nobody1
      /\ UNCHANGED <<deck, listed, columns, order, filed, people, orders>>
  BY DEF Upload, deckVars
<1>5. people' \in Nat \ {0}
  BY <1>4 DEF DrawInv, DrawTypeOK
<1> QED  BY <1>2, <1>3, <1>4, <1>5, BenchStep DEF AtBench

LEMMA CountsAreFew == Counts \subseteq 0 .. 2
BY DEF Counts

LEMMA DrawLikenessStep == ASSUME DrawInv, DrawLikeness PROVE DrawInv'
<1>1. /\ step = "likeness"
      /\ UNCHANGED <<deck, listed, columns, order, filed, people, orders>>
  BY DEF DrawLikeness, deckVars
<1>2. people' \in Nat \ {0} /\ AtBench
  BY <1>1 DEF DrawInv, DrawTypeOK, AtBench
<1>3. bench.guided = bench.applied
  BY <1>1, <1>2 DEF DrawInv, HandHolds
<1>4. CASE \E n \in Counts : bench' = [bench EXCEPT !.figures = n, !.who = bench.meant] /\ step' = "judge"
  <2>1. PICK n \in 0 .. 2 : bench' = [bench EXCEPT !.figures = n, !.who = bench.meant]
    BY <1>4, CountsAreFew, Zenon
  <2> DEFINE b == [bench EXCEPT !.figures = n, !.who = bench.meant]
  <2>2. /\ b \in [slot: {bench.slot}, meant: {bench.meant}, guide: BOOLEAN, fell: BOOLEAN,
                  applied: BOOLEAN, guided: BOOLEAN, figures: 0 .. 2, who: Nat]
        /\ b.guided = b.applied /\ b.who = bench.meant /\ b.fell = bench.fell
    BY <1>3 DEF DrawInv, DrawTypeOK
  <2>3. bench' = b
    BY <2>1
  <2> HIDE DEF b
  <2>4. bench.meant # 0 /\ step' = "judge"
    BY <1>1, <1>2, <1>4 DEF DrawInv, HandHolds, Nobody1
  <2> QED  BY <1>1, <1>2, <2>2, <2>3, <2>4, BenchStep
<1>5. CASE bench' = [bench EXCEPT !.fell = TRUE] /\ step' = "text"
  <2> DEFINE b == [bench EXCEPT !.fell = TRUE]
  <2>2. /\ b \in [slot: {bench.slot}, meant: {bench.meant}, guide: BOOLEAN, fell: BOOLEAN,
                  applied: BOOLEAN, guided: BOOLEAN, figures: 0 .. 2, who: Nat]
        /\ b.guided = b.applied /\ b.fell
    BY <1>3 DEF DrawInv, DrawTypeOK
  <2>3. bench' = b
    BY <1>5
  <2> HIDE DEF b
  <2> QED  BY <1>1, <1>2, <1>5, <2>2, <2>3, BenchStep
<1> QED  BY <1>4, <1>5 DEF DrawLikeness

LEMMA DrawTextStep == ASSUME DrawInv, DrawText PROVE DrawInv'
<1>1. /\ step = "text"
      /\ UNCHANGED <<deck, listed, columns, order, filed, orders>>
  BY DEF DrawText, deckVars
<1>2. people \in Nat \ {0} /\ AtBench
  BY <1>1 DEF DrawInv, DrawTypeOK, AtBench
<1>3. bench.guided = bench.applied /\ (bench.meant = Nobody1 \/ bench.fell)
  BY <1>1, <1>2 DEF DrawInv, HandHolds
<1>4. CASE /\ people' = Stranger /\ step' = "judge"
           /\ \E n \in Counts : bench' = [bench EXCEPT !.figures = n, !.who = people']
  <2>1. PICK n \in 0 .. 2 : bench' = [bench EXCEPT !.figures = n, !.who = people']
    BY <1>4, CountsAreFew, Zenon
  <2>2. people' \in Nat \ {0} /\ people' # 0
    BY <1>2, <1>4 DEF Stranger
  <2> DEFINE b == [bench EXCEPT !.figures = n, !.who = people']
  <2>3. /\ b \in [slot: {bench.slot}, meant: {bench.meant}, guide: BOOLEAN, fell: BOOLEAN,
                  applied: BOOLEAN, guided: BOOLEAN, figures: 0 .. 2, who: Nat]
        /\ b.guided = b.applied /\ b.who = people' /\ b.fell = bench.fell
    BY <1>3, <2>2 DEF DrawInv, DrawTypeOK
  <2>4. bench' = b
    BY <2>1
  <2> HIDE DEF b
  <2> QED  BY <1>1, <1>2, <1>3, <1>4, <2>2, <2>3, <2>4, BenchStep
<1>5. CASE step' = "miss" /\ UNCHANGED <<bench, people>>
  BY <1>1, <1>2, <1>5, BenchIs, BenchStep DEF AtBench
<1> QED  BY <1>4, <1>5 DEF DrawText

\* The picture is refused, or was none.
LEMMA RefusedStep ==
  ASSUME DrawInv, Refuse \/ Empty \/ Miss \/ ReadLooks
  PROVE  DrawInv'
<1>1. /\ UNCHANGED <<deck, listed, columns, order, bench, people, orders>>
      /\ filed \subseteq filed' /\ step # "idle"
      /\ step' \in {"miss", "next", "idle"}
  BY DEF Refuse, Empty, Miss, ReadLooks, Said, File, deckVars
<1>2. ~AtBench' /\ people' \in Nat \ {0}
  BY <1>1 DEF AtBench, DrawInv, DrawTypeOK
<1> QED  BY <1>1, <1>2, BenchIs, BenchStep

LEMMA Closed ==
  ASSUME DrawInv, deck' = deck, listed' = listed, bench' = bench, filed' = filed,
         people' = people, orders' = orders, step' = "idle", order' = NoOrder, ColumnsHold'
  PROVE  DrawInv'
<1>1. DrawTypeOK'
  BY DEF DrawInv, DrawTypeOK, NoOrder, Dirs
<1>2. orders' \in Nat /\ orders <= orders'
  BY DEF DrawInv, DrawTypeOK
<1>3. CardsHold' /\ SetsHold'
  BY <1>2, DeckStands
<1>4. HandHolds' /\ OrderHolds'
  BY DEF HandHolds, OrderHolds, AtBench
<1> QED  BY <1>1, <1>3, <1>4 DEF DrawInv

LEMMA CloseStep == ASSUME DrawInv, Close PROVE DrawInv'
<1>1. ColumnsHold'
  <2>1. CASE order.dir = "live"
    <3>1. \A s \in order.drawn : s \in Slots /\ listed[s] # "none" /\ deck["live"][s].order # 0
      BY <2>1 DEF Close, DrawInv, DrawTypeOK, OrderHolds
    <3> QED  BY <2>1, <3>1 DEF Close, DrawInv, ColumnsHold
  <2>2. CASE order.dir # "live"
    BY <2>2 DEF Close, DrawInv, ColumnsHold
  <2> QED  BY <2>1, <2>2
<1> QED  BY <1>1, Closed DEF Close

LEMMA DrawKilledStep == ASSUME DrawInv, DrawKilled PROVE DrawInv'
<1>1. ColumnsHold'
  BY DEF DrawKilled, deckVars, DrawInv, ColumnsHold
<1> QED  BY <1>1, Closed DEF DrawKilled, deckVars

LEMMA Ask0Step == ASSUME DrawInv, NEW s \in Angles0, Ask0(s) PROVE DrawInv'
<1> DEFINE o == [order EXCEPT !.todo = @ \ {s}]
           m == Likeness(s)
           b == Blank(s, m, FALSE)
<1>1. /\ step = "next" /\ Due(s) /\ order' = o
      /\ UNCHANGED <<deck, listed, columns, people, orders>> /\ filed \subseteq filed'
  BY DEF Ask0, Without, deckVars
<1>2. /\ o \in [kind: {"none", "set", "angle", "hint"}, dir: Dirs, anchored: BOOLEAN,
                todo: SUBSET Angles0, drawn: SUBSET Slots]
      /\ o.dir = order.dir /\ o.drawn = order.drawn /\ o.todo = order.todo \ {s}
      /\ s \in order.todo /\ ("front" \in order.todo => s = "front")
  BY <1>1 DEF DrawInv, DrawTypeOK, Due
<1>3. orders' \in Nat /\ orders <= orders' /\ orders # 0
  BY <1>1 DEF DrawInv, DrawTypeOK, OrderHolds
<1>4. CardsHold' /\ SetsHold'
  BY <1>1, <1>3, DeckStands
<1>5. ColumnsHold'
  BY <1>1 DEF DrawInv, ColumnsHold
<1>6. CASE UNCHANGED <<step, bench>>
  <2>1. DrawTypeOK'
    BY <1>1, <1>2, <1>6 DEF DrawInv, DrawTypeOK
  <2>2. HandHolds'
    BY <1>1, <1>6 DEF HandHolds, AtBench
  <2>3. OrderHolds'
    BY <1>1, <1>2, <1>6, <1>3 DEF OrderHolds, DrawInv, AtBench
  <2> QED  BY <1>4, <1>5, <2>1, <2>2, <2>3 DEF DrawInv
<1>7. CASE bench' = b /\ (UNCHANGED step \/ step' = "upload") /\ (s = "front" \/ order.anchored \/ "front" \in order.drawn)
  <2>1. s \in Slots /\ m \in Nat
    BY <1>1 DEF Slots, DrawInv, DrawTypeOK, CardType, Likeness, Dirs, Angles0, Sitter, Nobody1
  <2>2. /\ b \in [slot: Slots, meant: Nat, guide: BOOLEAN, fell: BOOLEAN, applied: BOOLEAN,
                  guided: BOOLEAN, figures: 0 .. 2, who: Nat]
        /\ b.slot = s /\ b.meant = m
    BY <2>1 DEF Blank
  <2>3. m = Nobody1 => s = "front"
    <3>1. order.dir \in Dirs /\ "front" \in Slots
      BY DEF DrawInv, DrawTypeOK, Slots, Angles0
    <3>2. "front" \in order.drawn => deck[order.dir]["front"].order = orders
      BY <1>1, <3>1 DEF DrawInv, OrderHolds
    <3>3. "front" \in order.drawn => deck[order.dir]["front"].who # 0
      BY <1>3, <3>1, <3>2 DEF DrawInv, CardsHold
    <3> QED  BY <1>7, <3>3 DEF Likeness, Nobody1, Sitter
  <2>4. s \in Others /\ deck[order.dir]["front"].order = orders => m = deck[order.dir]["front"].who
    <3>1. s \in Others => s # "front"
      BY OthersKnown
    <3>2. deck[order.dir]["front"].order = orders => "front" \in order.drawn
      BY <1>1 DEF DrawInv, OrderHolds, Slots, Angles0
    <3> QED  BY <3>1, <3>2 DEF Likeness
  <2> HIDE DEF b, m
  <2>5. DrawTypeOK'
    BY <1>1, <1>2, <1>7, <2>2 DEF DrawInv, DrawTypeOK
  <2>6. HandHolds'
    BY <1>1, <1>2, <1>7, <2>2, <2>3, <2>4 DEF HandHolds, AtBench, o
  <2>7. OrderHolds'
    <3>1. \A t \in Slots : t \in o.drawn <=> deck[order.dir][t].order = orders
      BY <1>1, <1>2 DEF DrawInv, OrderHolds
    <3>2. "front" \in order.todo => \A d \in Dirs, t \in Others : deck[d][t].order # orders
      BY <1>1 DEF DrawInv, OrderHolds
    <3>3. order.dir = "live" => \A t \in o.drawn : listed[t] # "none"
      BY <1>1, <1>2 DEF DrawInv, OrderHolds
    <3>4. step' # "idle" /\ step' \in {"next", "upload"}
      BY <1>1, <1>7
    <3> HIDE DEF o
    <3> QED  BY <1>1, <1>2, <1>3, <1>7, <2>2, <3>1, <3>2, <3>3, <3>4 DEF OrderHolds, AtBench
  <2> QED  BY <1>4, <1>5, <2>5, <2>6, <2>7 DEF DrawInv
<1> QED  BY <1>6, <1>7 DEF Ask0

\* The picture in hand may be kept: it is true beside the rows its keeping files.
LEMMA PictureIsGood ==
  ASSUME DrawInv, step = "judge", bench.figures = 1, filed' = Said, bench' = bench, orders' = orders
  PROVE  /\ CardIsTrue(bench.slot, Picture)'
         /\ Picture \in CardType /\ Picture.order = orders /\ Picture.who # 0
         /\ bench.slot \in Others /\ deck[order.dir]["front"].order = orders =>
              \/ Picture.who = deck[order.dir]["front"].who
              \/ Row1("character_card_i2i_fallback", bench.slot, orders) \in filed'
<1> DEFINE p == Picture
<1>1. /\ p.figures = 1 /\ p.who = bench.who /\ p.meant = bench.meant /\ p.order = orders
      /\ p.guide = bench.guide /\ p.guided = bench.guided /\ p \in CardType
  BY DEF Picture, DrawInv, DrawTypeOK, CardType
<1>2. /\ bench.meant = Nobody1 => bench.slot = "front"
      /\ bench.who # 0 /\ (bench.who = bench.meant \/ bench.meant = Nobody1 \/ bench.fell)
      /\ bench.guided = bench.applied
      /\ bench.slot \in Others /\ deck[order.dir]["front"].order = orders =>
           bench.meant = deck[order.dir]["front"].who
  BY DEF DrawInv, HandHolds, AtBench
<1>3. /\ bench.fell => Row1("character_card_i2i_fallback", bench.slot, orders) \in filed'
      /\ bench.guide /\ ~bench.applied =>
           Row1("special_pose_guide_unapplied", bench.slot, orders) \in filed'
  BY DEF Said
<1>4. bench.slot \in Others => bench.slot # "front"
  BY OthersKnown
<1>5. CardIsTrue(bench.slot, Picture)'
  <2>1. Picture' = Picture /\ bench' = bench /\ orders' = orders
    BY DEF Picture
  <2> QED  BY <1>1, <1>2, <1>3, <2>1 DEF CardIsTrue, ToldOf
<1> QED  BY <1>1, <1>2, <1>3, <1>4, <1>5

LEMMA KeepStep == ASSUME DrawInv, Keep PROVE DrawInv'
<1> DEFINE d0 == order.dir
           s0 == bench.slot
           p == Picture
<1>1. /\ step = "judge" /\ bench.figures = 1 /\ filed' = Said
      /\ deck' = [deck EXCEPT ![d0][s0] = p]
      /\ listed' = IF d0 = "staged" THEN listed
                   ELSE [listed EXCEPT ![s0] = IF bench.guide THEN "guide" ELSE "plain"]
      /\ order' = [order EXCEPT !.drawn = @ \cup {s0}]
      /\ step' \in {"idle", "read", "next"}
      /\ UNCHANGED <<columns, bench, people, orders>>
  BY DEF Keep
<1>2. /\ d0 \in Dirs /\ s0 \in Slots /\ orders \in Nat /\ orders # 0
      /\ deck \in [Dirs -> [Slots -> CardType]]
  BY <1>1 DEF DrawInv, DrawTypeOK, OrderHolds
<1>3. filed \subseteq filed'
  BY <1>1 DEF Said
<1>4. /\ p \in CardType /\ p.order = orders /\ p.who # 0 /\ p.order # 0
      /\ s0 \in Others /\ deck[d0]["front"].order = orders =>
           p.who = deck[d0]["front"].who
             \/ Row1("character_card_i2i_fallback", s0, orders) \in filed'
  BY <1>1, <1>2, PictureIsGood
<1>5. CardIsTrue(s0, p)'
  BY <1>1, PictureIsGood
<1>6. p' = p
  BY <1>1 DEF Picture
<1> HIDE DEF p
<1>7. \A d \in Dirs, s \in Slots :
        deck'[d][s] = IF d = d0 /\ s = s0 THEN p ELSE deck[d][s]
  BY <1>1, <1>2
<1>8. DrawTypeOK'
  <2>1. deck' \in [Dirs -> [Slots -> CardType]]
    <3>1. [deck[d0] EXCEPT ![s0] = p] \in [Slots -> CardType]
      BY <1>2, <1>4
    <3> QED  BY <1>1, <1>2, <3>1
  <2>2. listed' \in [Slots -> {"none", "plain", "guide"}]
    BY <1>1, <1>2 DEF DrawInv, DrawTypeOK
  <2>3. order' \in [kind: {"none", "set", "angle", "hint"}, dir: Dirs, anchored: BOOLEAN,
                    todo: SUBSET Angles0, drawn: SUBSET Slots]
    BY <1>1, <1>2 DEF DrawInv, DrawTypeOK
  <2> QED  BY <1>1, <2>1, <2>2, <2>3 DEF DrawInv, DrawTypeOK
<1>9. CardsHold'
  <2> SUFFICES ASSUME NEW d \in Dirs, NEW s \in Slots
               PROVE  /\ (deck[d][s].order <= orders)'
                      /\ (deck[d][s].order # 0 => deck[d][s].who # 0 /\ CardIsTrue(s, deck[d][s]))'
    BY DEF CardsHold
  <2>1. CASE d = d0 /\ s = s0
    <3>1. deck'[d][s] = p
      BY <1>7, <2>1
    <3>2. CardIsTrue(s, deck[d][s])'
      BY <1>1, <1>5, <1>6, <2>1, <3>1 DEF CardIsTrue, ToldOf
    <3> QED  BY <1>1, <1>2, <1>4, <3>1, <3>2
  <2>2. CASE ~(d = d0 /\ s = s0)
    <3>1. deck'[d][s] = deck[d][s]
      BY <1>7, <2>2
    <3>2. /\ deck[d][s].order <= orders
          /\ deck[d][s].order # 0 => deck[d][s].who # 0 /\ CardIsTrue(s, deck[d][s])
      BY DEF DrawInv, CardsHold
    <3> QED  BY <1>1, <1>3, <3>1, <3>2 DEF CardIsTrue, ToldOf
  <2> QED  BY <2>1, <2>2
<1>10. SetsHold'
  <2> SUFFICES ASSUME NEW d \in Dirs, NEW s \in Others,
                      deck'[d][s].order # 0, deck'[d][s].order = deck'[d]["front"].order
               PROVE  deck'[d][s].who = deck'[d]["front"].who
                        \/ Row1("character_card_i2i_fallback", s, deck'[d][s].order) \in filed'
    BY DEF SetsHold, SetIsOnePerson, ToldOf
  <2>1. s # "front" /\ s \in Slots /\ "front" \in Slots
    BY OthersKnown DEF Slots, Angles0
  <2>5. \A e \in Dirs, t \in Others :
             deck[e][t].order # 0 /\ deck[e][t].order = deck[e]["front"].order =>
               deck[e][t].who = deck[e]["front"].who
                 \/ Row1("character_card_i2i_fallback", t, deck[e][t].order) \in filed
    BY DEF DrawInv, SetsHold, SetIsOnePerson, ToldOf
  <2>2. CASE d = d0 /\ s0 = "front"
    <3>1. deck'[d][s] = deck[d][s] /\ deck'[d]["front"] = p
      BY <1>7, <2>1, <2>2
    <3>2. deck[d][s].order # orders
      BY <1>1, <2>2 DEF DrawInv, OrderHolds, AtBench
    <3> QED  BY <1>4, <3>1, <3>2
  <2>3. CASE d = d0 /\ s0 = s
    <3>1. deck'[d][s] = p /\ deck'[d]["front"] = deck[d]["front"]
      BY <1>7, <2>1, <2>3
    <3> QED  BY <1>4, <2>3, <3>1
  <2>4. CASE d # d0 \/ (s0 # "front" /\ s0 # s)
    <3>1. deck'[d][s] = deck[d][s] /\ deck'[d]["front"] = deck[d]["front"]
      BY <1>7, <2>1, <2>4
    <3> QED  BY <1>3, <2>5, <3>1
  <2> QED  BY <2>2, <2>3, <2>4
<1>11. HandHolds'
  BY <1>1 DEF HandHolds, AtBench
<1>12. OrderHolds'
  <2>1. order'.dir = d0 /\ order'.drawn = order.drawn \cup {s0} /\ order'.todo = order.todo
    BY <1>1 DEF DrawInv, DrawTypeOK
  <2>2. \A s \in Slots : s \in order'.drawn <=> deck'[d0][s].order = orders
    BY <1>1, <1>2, <1>4, <1>7, <2>1 DEF DrawInv, OrderHolds
  <2>3. ASSUME "front" \in order.todo, NEW d \in Dirs, NEW s \in Others
        PROVE  deck'[d][s].order # orders
    <3>1. s0 = "front" /\ s # s0 /\ s \in Slots
      BY <1>1, <2>3, OthersKnown DEF DrawInv, HandHolds, AtBench, Slots, Angles0
    <3> QED  BY <1>1, <1>7, <2>3, <3>1 DEF DrawInv, OrderHolds
  <2>4. d0 = "live" => \A s \in order'.drawn : listed'[s] # "none"
    BY <1>1, <1>2, <2>1 DEF DrawInv, DrawTypeOK, OrderHolds
  <2> QED  BY <1>1, <1>2, <2>1, <2>2, <2>3, <2>4 DEF OrderHolds, AtBench
<1>13. ColumnsHold'
  <2> SUFFICES ASSUME NEW s \in columns
               PROVE  s \in Slots /\ listed'[s] # "none" /\ deck'["live"][s].order # 0
    BY <1>1 DEF ColumnsHold
  <2>1. s \in Slots /\ listed[s] # "none" /\ deck["live"][s].order # 0
    BY DEF DrawInv, ColumnsHold
  <2>2. listed'[s] # "none"
    BY <1>1, <1>2, <2>1 DEF DrawInv, DrawTypeOK
  <2>3. deck'["live"][s].order # 0
    BY <1>4, <1>7, <2>1 DEF Dirs
  <2> QED  BY <2>1, <2>2, <2>3
<1> QED  BY <1>8, <1>9, <1>10, <1>11, <1>12, <1>13 DEF DrawInv

LEMMA DrawStep ==
  ASSUME GraphKept, DrawInv, DrawNext \/ UNCHANGED drawVars
  PROVE  DrawInv'
<1>1. CASE \E dir \in Dirs, anchored \in BOOLEAN : BeginSet(dir, anchored)
  BY <1>1, BeginSetStep
<1>2. CASE \E a \in Angles0 : BeginAngle(a) \/ Ask0(a)
  BY <1>2, BeginAngleStep, Ask0Step
<1>3. CASE \E guide \in {"none", "usable", "unusable"} : BeginHint(guide)
  BY <1>3, BeginHintStep
<1>4. CASE Refuse \/ Empty \/ Miss \/ ReadLooks
  BY <1>4, RefusedStep
<1>5. CASE UNCHANGED drawVars
  BY <1>5 DEF drawVars, DrawInv, DrawTypeOK, CardsHold, CardIsTrue, ToldOf, SetsHold,
              SetIsOnePerson, HandHolds, OrderHolds, AtBench, ColumnsHold
<1> QED
  BY <1>1, <1>2, <1>3, <1>4, <1>5, CloseStep, UploadStep, DrawLikenessStep, DrawTextStep,
     KeepStep, DrawKilledStep DEF DrawNext

LEMMA DrawShows == DrawInv => CardsAreOfTheirModels
BY DEF DrawInv, CardsHold, SetsHold, ColumnsHold, CardsAreOfTheirModels

-----------------------------------------------------------------------------
(* The candidates of a character.  A row is of the last task that has its     *)
(* angle left, so a task that comes to an angle finds its own row or none, and *)
(* nobody draws over a picture that is ready.                                 *)

\* What the page avoids: a deletion while a picture is being selected, a picture
\* drawn out of its turn, a batch asked for without references.
BoardKept == "wipe" \notin BoardFaults /\ "late" \notin BoardFaults /\ "bare" \notin BoardFaults

Marks == {"pending", "generating", "ready", "failed"}
Unfinished == {"new", "next", "draw", "ready"}
Left(j) == {Faces[i] : i \in jobs[j].todo}

Job == [at: Unfinished \cup {"done", "refused"}, todo: SUBSET DOMAIN Faces]
JobsOK == jobs \in Seq(Job)

BoardTypeOK ==
  /\ person \in [id: Nat, by: {"operator", "task"}, told: BOOLEAN, refs: BOOLEAN]
  /\ births \in Nat
  /\ paths \subseteq Face
  /\ board \subseteq [job: Nat, face: Face, of: Nat, status: Marks]
  /\ pictures \in [Face -> Nat]
  /\ JobsOK
  /\ screen \in [id: Nat, refs: BOOLEAN, of: [Face -> Marks \cup {NoCandidate}]]
  /\ kills \in {0, 1}

\* A character is known by its id, which no other ever had, and has references
\* as soon as there are candidates of it.
PersonInv ==
  /\ person.by = "operator" /\ person.id <= births
  /\ screen.id > 0 /\ screen.id <= births
  /\ screen.id = person.id /\ (screen.refs \/ \E f \in Face : screen.of[f] # NoCandidate)
       => person.refs

\* One row for an angle, of a task that is known and of the one character.
RowsInv ==
  \A r \in board :
    /\ \A q \in board : r.face = q.face => r = q
    /\ r.of = person.id /\ person.id # 0 /\ person.refs
    /\ r.job \in Jobs

TasksInv ==
  /\ \A j \in Jobs : jobs[j].at # "refused" /\ (jobs[j].at \in Unfinished <=> jobs[j].todo # {})
  /\ \A i, j \in Jobs : Busy(i) /\ Busy(j) => i = j
  /\ \A j \in Jobs : jobs[j].at = "ready" => \E r \in RowOf(j) : r.status = "ready"

\* A row is of the last task that has its angle left; nobody draws over a picture
\* that is ready.
WorkInv ==
  \A r \in board :
    /\ \A j \in Jobs : j > r.job => r.face \notin Left(j)
    /\ kills = 0 /\ Underway(r) => r.face \in Left(r.job)
    /\ r.status = "ready" =>
         /\ pictures[r.face] = r.job
         /\ \A j \in Jobs : jobs[j].at = "draw" => Hand(j) # r.face
         /\ kills = 0 => Selecting(r) \/ r.face \in paths

\* What the page has seen ready is shown, or just being selected.
PageInv ==
  screen.id = person.id /\ kills = 0 =>
    \A f \in Face : screen.of[f] = "ready" =>
      f \in paths \/ \E j \in Jobs : jobs[j].at = "ready" /\ Hand(j) = f

BoardInv == BoardTypeOK /\ PersonInv /\ RowsInv /\ TasksInv /\ WorkInv /\ PageInv

\* A task with work left has an angle in hand.
LEMMA HandIsLeft ==
  ASSUME JobsOK, NEW j \in Jobs, jobs[j].todo # {}
  PROVE  /\ Min(jobs[j].todo) \in jobs[j].todo
         /\ Hand(j) \in Left(j) /\ Hand(j) \in Face
<1>1. jobs[j].todo \subseteq DOMAIN Faces
  <2>1. jobs[j] \in Job
    BY DEF JobsOK, Jobs
  <2> QED  BY <2>1 DEF Job
<1>2. jobs[j].todo \subseteq Nat
  BY <1>1, FacesAssumption
<1>3. Min(jobs[j].todo) \in jobs[j].todo
  BY <1>2, MinIsThere, Zenon
<1>4. Hand(j) \in Left(j)
  BY <1>3 DEF Hand, Left
<1>5. Hand(j) \in Face
  BY <1>1, <1>3, FacesAssumption DEF Hand, Face, ToSet
<1> QED  BY <1>3, <1>4, <1>5

\* One task changes.
LEMMA TaskChanges ==
  ASSUME JobsOK, NEW j \in Jobs, NEW job \in Job, jobs' = [jobs EXCEPT ![j] = job]
  PROVE  /\ JobsOK' /\ Jobs' = Jobs /\ jobs'[j] = job
         /\ \A i \in Jobs \ {j} : jobs'[i] = jobs[i] /\ Left(i)' = Left(i) /\ Hand(i)' = Hand(i)
         /\ Left(j)' = {Faces[i] : i \in job.todo}
<1>1. jobs \in Seq(Job)
  BY DEF JobsOK
<1>2. jobs' \in Seq(Job) /\ DOMAIN jobs' = DOMAIN jobs
  BY <1>1 DEF Jobs
<1>3. jobs'[j] = job /\ \A i \in Jobs \ {j} : jobs'[i] = jobs[i]
  BY <1>1 DEF Jobs
<1>4. \A i \in Jobs \ {j} : Left(i)' = Left(i) /\ Hand(i)' = Hand(i)
  BY <1>3 DEF Left, Hand
<1>5. Left(j)' = {Faces[i] : i \in job.todo}
  BY <1>3 DEF Left
<1> QED  BY <1>2, <1>3, <1>4, <1>5 DEF JobsOK, Jobs

\* A task that goes on holds what it held.
LEMMA GoesTo ==
  ASSUME JobsOK, NEW j \in Jobs, NEW at \in Unfinished, GoTo(j, at)
  PROVE  /\ JobsOK' /\ Jobs' = Jobs
         /\ \A i \in Jobs : jobs'[i].todo = jobs[i].todo /\ Left(i)' = Left(i) /\ Hand(i)' = Hand(i)
         /\ \A i \in Jobs \ {j} : jobs'[i].at = jobs[i].at
         /\ jobs'[j].at = at
<1> DEFINE job == [jobs[j] EXCEPT !.at = at]
<1>1. jobs' = [jobs EXCEPT ![j] = job]
  BY Zenon DEF GoTo
<1>2. jobs[j] \in Job
  BY DEF JobsOK, Jobs
<1>3. job \in Job /\ job.at = at /\ job.todo = jobs[j].todo
  BY <1>2 DEF Job
<1> HIDE DEF job
<1>4. /\ JobsOK' /\ Jobs' = Jobs /\ jobs'[j] = job
      /\ \A i \in Jobs \ {j} : jobs'[i] = jobs[i] /\ Left(i)' = Left(i) /\ Hand(i)' = Hand(i)
  BY <1>1, <1>3, TaskChanges
<1>5. Left(j)' = Left(j) /\ Hand(j)' = Hand(j)
  BY <1>3, <1>4 DEF Left, Hand
<1> QED  BY <1>3, <1>4, <1>5

\* A task that is through with an angle has the others left.
LEMMA GoesToNextFace ==
  ASSUME JobsOK, NEW j \in Jobs, jobs[j].todo # {}, NextFace(j)
  PROVE  /\ JobsOK' /\ Jobs' = Jobs
         /\ \A i \in Jobs \ {j} :
              jobs'[i] = jobs[i] /\ Left(i)' = Left(i) /\ Hand(i)' = Hand(i)
         /\ \A f \in Left(j)' : f \in Left(j)
         /\ \A f \in Left(j) : f # Hand(j) => f \in Left(j)'
         /\ jobs'[j].at \in {"next", "done"}
         /\ jobs'[j].at = "next" <=> jobs'[j].todo # {}
<1> DEFINE rest == jobs[j].todo \ {Min(jobs[j].todo)}
           job == [at |-> IF rest = {} THEN "done" ELSE "next", todo |-> rest]
<1>1. jobs' = [jobs EXCEPT ![j] = job]
  BY Zenon DEF NextFace
<1>2. rest \subseteq DOMAIN Faces
  <2>1. jobs[j] \in Job
    BY DEF JobsOK, Jobs
  <2> QED  BY <2>1 DEF Job
<1>3. job.at \in {"next", "done"} /\ job.todo = rest /\ (job.at = "next" <=> rest # {})
  OBVIOUS
<1>4. job \in Job
  BY <1>2 DEF Unfinished, Job
<1> HIDE DEF job
<1>5. /\ JobsOK' /\ Jobs' = Jobs /\ jobs'[j] = job
      /\ \A i \in Jobs \ {j} : jobs'[i] = jobs[i] /\ Left(i)' = Left(i) /\ Hand(i)' = Hand(i)
      /\ Left(j)' = {Faces[i] : i \in job.todo}
  BY <1>1, <1>4, TaskChanges
<1> QED  BY <1>3, <1>5 DEF Left, Hand

\* Marking a row changes its mark and nothing else.
LEMMA StatusMarks ==
  ASSUME BoardTypeOK, NEW j \in Jobs, NEW s \in Marks, board' = Status(j, s)
  PROVE  /\ board' \subseteq [job: Nat, face: Face, of: Nat, status: Marks]
         /\ \A r \in board' : \E q \in board :
              /\ r.job = q.job /\ r.face = q.face /\ r.of = q.of
              /\ r.status = (IF q \in RowOf(j) THEN s ELSE q.status)
              /\ q \notin RowOf(j) => r = q
              /\ q \in RowOf(j) => r = [q EXCEPT !.status = s]
<1>1. board \subseteq [job: Nat, face: Face, of: Nat, status: Marks]
  BY DEF BoardTypeOK
<1>2. RowOf(j) \subseteq board
  BY DEF RowOf
<1>3. ASSUME NEW r \in board'
      PROVE  /\ r \in [job: Nat, face: Face, of: Nat, status: Marks]
             /\ \E q \in board :
                  /\ r.job = q.job /\ r.face = q.face /\ r.of = q.of
                  /\ r.status = (IF q \in RowOf(j) THEN s ELSE q.status)
                  /\ q \notin RowOf(j) => r = q
                  /\ q \in RowOf(j) => r = [q EXCEPT !.status = s]
  <2>1. CASE r \in board \ RowOf(j)
    BY <2>1, <1>1
  <2>2. CASE \E q \in RowOf(j) : r = [q EXCEPT !.status = s]
    <3>1. PICK q \in RowOf(j) : r = [q EXCEPT !.status = s]
      BY <2>2
    <3>2. q \in board /\ q \in [job: Nat, face: Face, of: Nat, status: Marks]
      BY <1>1, <1>2
    <3>3. /\ r \in [job: Nat, face: Face, of: Nat, status: Marks]
          /\ r.job = q.job /\ r.face = q.face /\ r.of = q.of /\ r.status = s
      BY <3>1, <3>2
    <3> QED  BY <3>1, <3>2, <3>3
  <2> QED  BY <2>1, <2>2 DEF Status
<1> QED  BY <1>3

LEMMA RowsStayWhole ==
  ASSUME BoardTypeOK, RowsInv, NEW j \in Jobs, NEW s \in Marks, board' = Status(j, s),
         person' = person, Jobs' = Jobs
  PROVE  RowsInv'
<1>1. \A r \in board' : \E q \in board :
        /\ r.job = q.job /\ r.face = q.face /\ r.of = q.of
        /\ q \notin RowOf(j) => r = q
        /\ q \in RowOf(j) => r = [q EXCEPT !.status = s]
  BY StatusMarks
<1>2. ASSUME NEW r \in board' PROVE /\ r.of = person.id /\ person.id # 0 /\ person.refs
                                    /\ r.job \in Jobs
  <2>1. PICK q \in board : r.job = q.job /\ r.of = q.of
    BY <1>1
  <2> QED  BY <2>1 DEF RowsInv
<1>3. ASSUME NEW r \in board', NEW o \in board', r.face = o.face PROVE r = o
  <2>1. PICK q \in board : /\ r.face = q.face
                           /\ q \notin RowOf(j) => r = q
                           /\ q \in RowOf(j) => r = [q EXCEPT !.status = s]
    BY <1>1
  <2>2. PICK p \in board : /\ o.face = p.face
                           /\ p \notin RowOf(j) => o = p
                           /\ p \in RowOf(j) => o = [p EXCEPT !.status = s]
    BY <1>1
  <2>3. p = q
    BY <1>3, <2>1, <2>2 DEF RowsInv
  <2> QED  BY <2>1, <2>2, <2>3, Zenon
<1> QED  BY <1>2, <1>3 DEF RowsInv

\* What no task changes.
LEMMA PersonStays ==
  ASSUME PersonInv, UNCHANGED <<person, births, screen>>
  PROVE  PersonInv'
BY DEF PersonInv

\* The task is through with an angle and has no picture of it to show.
LEMMA MissesFace ==
  ASSUME BoardInv, NEW j \in Jobs, jobs[j].at \in {"new", "next", "draw"}, MayRun(j),
         NextFace(j), board' = Status(j, "failed"),
         \/ pictures' = pictures
         \/ jobs[j].at = "draw" /\ pictures' = [pictures EXCEPT ![Hand(j)] = j],
         UNCHANGED <<person, paths, screen, births, kills>>
  PROVE  BoardInv'
<1> USE DEF BoardInv
<1>1. jobs[j].todo # {} /\ JobsOK
  BY DEF TasksInv, Unfinished, BoardTypeOK
<1>2. /\ JobsOK' /\ Jobs' = Jobs
      /\ \A i \in Jobs \ {j} :
           jobs'[i] = jobs[i] /\ Left(i)' = Left(i) /\ Hand(i)' = Hand(i)
      /\ \A f \in Left(j)' : f \in Left(j)
      /\ \A f \in Left(j) : f # Hand(j) => f \in Left(j)'
      /\ jobs'[j].at \in {"next", "done"}
      /\ jobs'[j].at = "next" <=> jobs'[j].todo # {}
  BY <1>1, GoesToNextFace
<1>3. Hand(j) \in Face /\ j \in Nat
  BY <1>1, HandIsLeft DEF JobsOK, Jobs
<1>4. \A i \in Jobs : jobs[i].at # "ready" /\ jobs'[i].at # "ready"
  BY <1>2 DEF MayRun, Busy
<1>5. /\ board' \subseteq [job: Nat, face: Face, of: Nat, status: Marks]
      /\ \A r \in board' : \E q \in board :
           /\ r.job = q.job /\ r.face = q.face /\ r.of = q.of
           /\ r.status = (IF q \in RowOf(j) THEN "failed" ELSE q.status)
  BY StatusMarks DEF Marks
<1>6. BoardTypeOK'
  BY <1>2, <1>3, <1>5 DEF BoardTypeOK
<1>7. RowsInv'
  BY <1>2, RowsStayWhole DEF Marks
<1>8. TasksInv'
  <2>1. \A i \in Jobs : jobs'[i].at # "refused" /\ (jobs'[i].at \in Unfinished <=> jobs'[i].todo # {})
    BY <1>2 DEF TasksInv, Unfinished
  <2>2. \A i \in Jobs \ {j} : ~ Busy(i)'
    BY <1>2 DEF MayRun, Busy
  <2> QED  BY <1>2, <1>4, <2>1, <2>2 DEF TasksInv
<1>9. WorkInv'
  <2> SUFFICES ASSUME NEW r \in board'
               PROVE  /\ \A i \in Jobs : i > r.job => r.face \notin Left(i)'
                      /\ kills = 0 /\ Underway(r) => r.face \in Left(r.job)'
                      /\ r.status = "ready" =>
                           /\ pictures'[r.face] = r.job
                           /\ \A i \in Jobs : jobs'[i].at = "draw" => Hand(i)' # r.face
                           /\ kills = 0 => r.face \in paths
    BY <1>2 DEF WorkInv, Underway
  <2>1. PICK q \in board : /\ r.job = q.job /\ r.face = q.face /\ r.of = q.of
                           /\ r.status = (IF q \in RowOf(j) THEN "failed" ELSE q.status)
    BY <1>5
  <2>2. q.job \in Jobs
    BY DEF RowsInv
  <2>3. \A i \in Jobs : i > r.job => r.face \notin Left(i)'
    BY <1>2, <2>1 DEF WorkInv
  <2>4. ASSUME kills = 0, Underway(r) PROVE r.face \in Left(r.job)'
    <3>1. q \notin RowOf(j) /\ Underway(q)
      BY <2>1, <2>4 DEF Underway
    <3>2. q.face \in Left(q.job)
      BY <2>4, <3>1 DEF WorkInv
    <3>3. q.job = j => q.face # Hand(j)
      BY <3>1 DEF RowOf
    <3> QED  BY <1>2, <2>1, <2>2, <3>2, <3>3
  <2>5. ASSUME r.status = "ready"
        PROVE  /\ pictures'[r.face] = r.job
               /\ \A i \in Jobs : jobs'[i].at = "draw" => Hand(i)' # r.face
               /\ kills = 0 => r.face \in paths
    <3>1. q.status = "ready"
      BY <2>1, <2>5
    <3>2. /\ pictures[q.face] = q.job
          /\ \A i \in Jobs : jobs[i].at = "draw" => Hand(i) # q.face
          /\ kills = 0 => Selecting(q) \/ q.face \in paths
      BY <3>1 DEF WorkInv
    <3>3. ~ Selecting(q)
      BY <1>4, <2>2 DEF Selecting
    <3>4. pictures'[q.face] = pictures[q.face]
      BY <3>2 DEF BoardTypeOK
    <3>5. \A i \in Jobs : jobs'[i].at = "draw" => Hand(i)' # q.face
      BY <1>2, <3>2
    <3> QED  BY <2>1, <3>2, <3>3, <3>4, <3>5
  <2> QED  BY <2>3, <2>4, <2>5
<1>10. PageInv'
  BY <1>4 DEF PageInv
<1> QED  BY <1>6, <1>7, <1>8, <1>9, <1>10, PersonStays

\* The task takes an angle up, or has its picture drawn: it goes on with it.
LEMMA KeepsFace ==
  ASSUME BoardInv, NEW j \in Jobs, NEW at \in {"draw", "ready"}, NEW s \in Marks,
         \/ at = "draw" /\ s = "generating" /\ jobs[j].at \in {"new", "next"}
            /\ pictures' = pictures
         \/ at = "ready" /\ s = "ready" /\ jobs[j].at = "draw" /\ First(j)
            /\ pictures' = [pictures EXCEPT ![Hand(j)] = j],
         RowOf(j) # {}, MayRun(j), GoTo(j, at), board' = Status(j, s),
         UNCHANGED <<person, paths, screen, births, kills>>
  PROVE  BoardInv'
<1> USE DEF BoardInv
<1>1. jobs[j].todo # {} /\ JobsOK
  BY DEF TasksInv, Unfinished, BoardTypeOK
<1>2. /\ JobsOK' /\ Jobs' = Jobs
      /\ \A i \in Jobs : jobs'[i].todo = jobs[i].todo /\ Left(i)' = Left(i) /\ Hand(i)' = Hand(i)
      /\ \A i \in Jobs \ {j} : jobs'[i].at = jobs[i].at
      /\ jobs'[j].at = at
  BY <1>1, GoesTo DEF Unfinished
<1>3. Hand(j) \in Face /\ Hand(j) \in Left(j) /\ j \in Nat /\ Jobs \subseteq Nat
  BY <1>1, HandIsLeft DEF JobsOK, Jobs
<1>4. \A i \in Jobs : jobs[i].at # "ready"
  BY DEF MayRun, Busy
<1>5. /\ board' \subseteq [job: Nat, face: Face, of: Nat, status: Marks]
      /\ \A r \in board' : \E q \in board :
           /\ r.job = q.job /\ r.face = q.face /\ r.of = q.of
           /\ r.status = (IF q \in RowOf(j) THEN s ELSE q.status)
  BY StatusMarks
<1>6. BoardTypeOK'
  BY <1>2, <1>3, <1>5 DEF BoardTypeOK
<1>7. RowsInv'
  BY <1>2, RowsStayWhole
<1>8. TasksInv'
  <2>1. \A i \in Jobs : jobs'[i].at # "refused" /\ (jobs'[i].at \in Unfinished <=> jobs'[i].todo # {})
    BY <1>2 DEF TasksInv, Unfinished
  <2>2. \A i \in Jobs \ {j} : ~ Busy(i)'
    BY <1>2 DEF MayRun, Busy
  <2>3. ASSUME at = "ready" PROVE \E r \in RowOf(j)' : r.status = "ready"
    <3>1. PICK q \in RowOf(j) : TRUE
      BY <2>3
    <3>2. [q EXCEPT !.status = "ready"] \in board'
      BY <2>3 DEF Status
    <3>3. q \in [job: Nat, face: Face, of: Nat, status: Marks] /\ q.job = j /\ q.face = Hand(j)
      BY DEF BoardTypeOK, RowOf
    <3>4. [q EXCEPT !.status = "ready"] \in RowOf(j)'
      BY <1>2, <3>2, <3>3 DEF RowOf
    <3> QED  BY <3>3, <3>4
  <2> QED  BY <1>2, <1>4, <2>1, <2>2, <2>3 DEF TasksInv
<1>9. WorkInv'
  <2> SUFFICES ASSUME NEW r \in board'
               PROVE  /\ \A i \in Jobs : i > r.job => r.face \notin Left(i)
                      /\ kills = 0 /\ Underway(r) => r.face \in Left(r.job)'
                      /\ r.status = "ready" =>
                           /\ pictures'[r.face] = r.job
                           /\ \A i \in Jobs : jobs'[i].at = "draw" => Hand(i) # r.face
                           /\ kills = 0 => Selecting(r)' \/ r.face \in paths
    BY <1>2 DEF WorkInv, Underway, Selecting
  <2>1. PICK q \in board : /\ r.job = q.job /\ r.face = q.face /\ r.of = q.of
                           /\ r.status = (IF q \in RowOf(j) THEN s ELSE q.status)
    BY <1>5
  <2>2. q.job \in Jobs /\ Left(q.job)' = Left(q.job) /\ r.job = q.job
    BY <1>2, <2>1 DEF RowsInv
  <2>3. \A i \in Jobs : i > r.job => r.face \notin Left(i)
    BY <2>1 DEF WorkInv
  <2>4. ASSUME kills = 0, Underway(r) PROVE r.face \in Left(r.job)'
    <3>1. CASE q \in RowOf(j)
      BY <1>2, <1>3, <2>1, <3>1 DEF RowOf
    <3>2. CASE q \notin RowOf(j)
      BY <2>1, <2>2, <2>4, <3>2 DEF WorkInv, Underway
    <3> QED  BY <3>1, <3>2
  <2>5. ASSUME r.status = "ready", q \in RowOf(j)
        PROVE  /\ pictures'[r.face] = r.job
               /\ \A i \in Jobs : jobs'[i].at = "draw" => Hand(i) # r.face
               /\ Selecting(r)'
    <3>1. s = "ready" /\ at = "ready" /\ First(j) /\ pictures' = [pictures EXCEPT ![Hand(j)] = j]
      BY <2>1, <2>5
    <3>2. r.job = j /\ r.face = Hand(j)
      BY <2>1, <2>5 DEF RowOf
    <3>3. ASSUME NEW i \in Jobs, jobs'[i].at = "draw", Hand(i) = r.face PROVE FALSE
      <4>1. i # j /\ jobs[i].at = "draw" /\ jobs[i].todo # {}
        BY <1>2, <3>1, <3>3 DEF TasksInv, Unfinished
      <4>2. Hand(i) \in Left(i)
        BY <1>1, <4>1, HandIsLeft
      <4>3. ~ (i > j)
        BY <2>3, <3>2, <3>3, <4>2
      <4>4. i \in 1 .. j - 1
        BY <1>1, <1>3, <4>1, <4>3 DEF Jobs, JobsOK
      <4> QED  BY <3>1, <3>2, <3>3, <4>1, <4>4 DEF First
    <3>4. pictures'[r.face] = r.job
      BY <1>3, <3>1, <3>2 DEF BoardTypeOK
    <3>5. Selecting(r)'
      BY <1>2, <3>1, <3>2 DEF Selecting
    <3> QED  BY <3>3, <3>4, <3>5
  <2>6. ASSUME r.status = "ready", q \notin RowOf(j)
        PROVE  /\ pictures'[r.face] = r.job
               /\ \A i \in Jobs : jobs'[i].at = "draw" => Hand(i) # r.face
               /\ kills = 0 => r.face \in paths
    <3>1. q.status = "ready"
      BY <2>1, <2>6
    <3>2. /\ pictures[q.face] = q.job
          /\ \A i \in Jobs : jobs[i].at = "draw" => Hand(i) # q.face
          /\ kills = 0 => Selecting(q) \/ q.face \in paths
      BY <3>1 DEF WorkInv
    <3>3. ~ Selecting(q)
      BY <1>4, <2>2 DEF Selecting
    <3>4. pictures'[q.face] = pictures[q.face]
      BY <3>2 DEF BoardTypeOK
    <3>5. at = "draw" => Hand(j) # q.face
      <4>1. PICK p \in RowOf(j) : TRUE
        OBVIOUS
      <4>2. p \in board /\ p.face = Hand(j)
        BY DEF RowOf
      <4> QED  BY <2>6, <4>1, <4>2 DEF RowsInv
    <3>6. \A i \in Jobs : jobs'[i].at = "draw" => Hand(i) # q.face
      BY <1>2, <3>2, <3>5
    <3> QED  BY <2>1, <3>2, <3>3, <3>4, <3>6
  <2> QED  BY <2>3, <2>4, <2>5, <2>6
<1>10. PageInv'
  BY <1>4 DEF PageInv
<1> QED  BY <1>6, <1>7, <1>8, <1>9, <1>10, PersonStays

LEMMA SelectsWhatIsReady ==
  ASSUME BoardInv, NEW j \in Jobs, SelectDrawn(j)
  PROVE  BoardInv'
<1> USE DEF BoardInv
<1>1. jobs[j].at = "ready" /\ NextFace(j) /\ UNCHANGED <<pictures, screen, visits, kills>>
  BY DEF SelectDrawn
<1>2. PICK q \in RowOf(j) : q.status = "ready"
  BY <1>1 DEF TasksInv
<1>3. q \in board /\ q.job = j /\ q.face = Hand(j) /\ q \in Rows(Hand(j))
  BY DEF RowOf, Rows
<1>4. UNCHANGED <<person, births, board>> /\ paths' = paths \cup {Hand(j)}
  <2>1. person.id # 0
    BY <1>3 DEF RowsInv
  <2> QED  BY <1>2, <1>3, <2>1 DEF SelectDrawn
<1>5. jobs[j].todo # {} /\ JobsOK
  BY <1>1 DEF TasksInv, Unfinished, BoardTypeOK
<1>6. /\ JobsOK' /\ Jobs' = Jobs
      /\ \A i \in Jobs \ {j} :
           jobs'[i] = jobs[i] /\ Left(i)' = Left(i) /\ Hand(i)' = Hand(i)
      /\ \A f \in Left(j)' : f \in Left(j)
      /\ \A f \in Left(j) : f # Hand(j) => f \in Left(j)'
      /\ jobs'[j].at \in {"next", "done"}
      /\ jobs'[j].at = "next" <=> jobs'[j].todo # {}
  BY <1>1, <1>5, GoesToNextFace
<1>7. Hand(j) \in Face
  BY <1>5, HandIsLeft
<1>8. \A i \in Jobs \ {j} : ~ Busy(i)
  BY <1>1 DEF TasksInv, Busy
<1>9. \A i \in Jobs : jobs'[i].at # "ready"
  BY <1>6, <1>8 DEF Busy
<1>10. BoardTypeOK'
  BY <1>1, <1>4, <1>6, <1>7 DEF BoardTypeOK
<1>11. RowsInv'
  BY <1>4, <1>6 DEF RowsInv
<1>12. TasksInv'
  <2>1. \A i \in Jobs : jobs'[i].at # "refused" /\ (jobs'[i].at \in Unfinished <=> jobs'[i].todo # {})
    BY <1>6 DEF TasksInv, Unfinished
  <2>2. \A i \in Jobs \ {j} : ~ Busy(i)'
    BY <1>6, <1>8 DEF Busy
  <2> QED  BY <1>6, <1>9, <2>1, <2>2 DEF TasksInv
<1>13. WorkInv'
  <2> SUFFICES ASSUME NEW r \in board
               PROVE  /\ \A i \in Jobs : i > r.job => r.face \notin Left(i)'
                      /\ kills = 0 /\ Underway(r) => r.face \in Left(r.job)'
                      /\ r.status = "ready" =>
                           /\ pictures[r.face] = r.job
                           /\ \A i \in Jobs : jobs'[i].at = "draw" => Hand(i)' # r.face
                           /\ kills = 0 => r.face \in paths'
    BY <1>1, <1>4, <1>6 DEF WorkInv, Underway
  <2>1. r.job \in Jobs
    BY DEF RowsInv
  <2>2. \A i \in Jobs : i > r.job => r.face \notin Left(i)'
    BY <1>6 DEF WorkInv
  <2>3. ASSUME kills = 0, Underway(r) PROVE r.face \in Left(r.job)'
    <3>1. r.face \in Left(r.job)
      BY <2>3 DEF WorkInv
    <3>2. r.face # Hand(j)
      BY <1>2, <1>3, <2>3 DEF RowsInv, Underway
    <3> QED  BY <1>6, <2>1, <3>1, <3>2
  <2>4. ASSUME r.status = "ready"
        PROVE  /\ pictures[r.face] = r.job
               /\ \A i \in Jobs : jobs'[i].at = "draw" => Hand(i)' # r.face
               /\ kills = 0 => r.face \in paths'
    <3>1. /\ pictures[r.face] = r.job
          /\ \A i \in Jobs : jobs[i].at = "draw" => Hand(i) # r.face
          /\ kills = 0 => Selecting(r) \/ r.face \in paths
      BY <2>4 DEF WorkInv
    <3>2. Selecting(r) => r.face = Hand(j)
      BY <1>8, <2>1 DEF Selecting, Busy
    <3> QED  BY <1>4, <1>6, <3>1, <3>2
  <2> QED  BY <2>2, <2>3, <2>4
<1>14. PageInv'
  <2>1. ASSUME NEW f \in Face, NEW i \in Jobs, jobs[i].at = "ready", Hand(i) = f
        PROVE  f \in paths'
    BY <1>4, <1>8, <2>1 DEF Busy
  <2> QED  BY <1>1, <1>4, <2>1 DEF PageInv
<1> QED  BY <1>1, <1>4, <1>10, <1>11, <1>12, <1>13, <1>14, PersonStays

\* A batch takes the rows of its angles over.
LEMMA BatchTakesOver ==
  ASSUME BoardKept, BoardInv, NEW wanted \in SUBSET Face, PostBatch(wanted)
  PROVE  BoardInv'
<1> USE DEF BoardInv
<1>1. /\ LoopIsFree /\ wanted \in Wants /\ screen.id = person.id /\ person.id # 0
      /\ board' = Batch(wanted)
      /\ UNCHANGED <<person, paths, pictures, screen, births, visits, kills>>
  BY DEF PostBatch
<1>2. person.refs
  <2>1. CASE screen.refs
    BY <1>1, <2>1 DEF PersonInv
  <2>2. CASE ~ screen.refs
    <3>1. PICK f \in Face : screen.of[f] = "failed"
      BY <1>1, <2>2 DEF Wants, BoardKept
    <3>2. screen.of[f] # NoCandidate
      BY <3>1 DEF NoCandidate
    <3> QED  BY <1>1, <3>2 DEF PersonInv
  <2> QED  BY <2>1, <2>2
<1>0. PICK n \in Nat : n = Len(jobs) + 1
  BY DEF BoardTypeOK, JobsOK
<1> DEFINE places == {i \in DOMAIN Faces : Faces[i] \in wanted}
           job == [at |-> "new", todo |-> places]
<1>3. jobs' = Append(jobs, job)
  BY <1>2 DEF PostBatch
<1>4. Face # {} /\ \A f \in Face : \E i \in DOMAIN Faces : Faces[i] = f
  <2>1. Face = {Faces[i] : i \in DOMAIN Faces}
    BY DEF Face, ToSet
  <2>2. 1 \in DOMAIN Faces
    BY FacesAssumption
  <2> QED  BY <2>1, <2>2
<1>5. wanted # {}
  BY <1>1, <1>4 DEF Wants
<1>6. places # {} /\ {Faces[i] : i \in places} = wanted
  BY <1>4, <1>5
<1>7. job \in Job /\ job.at = "new" /\ job.todo = places
  BY DEF Job, Unfinished
<1>8. jobs \in Seq(Job) /\ Jobs = 1 .. Len(jobs) /\ Len(jobs) \in Nat
  BY DEF BoardTypeOK, JobsOK, Jobs
<1> HIDE DEF job, places
<1>9. /\ JobsOK' /\ Jobs' = Jobs \cup {n} /\ n \notin Jobs
      /\ jobs'[n] = job /\ \A i \in Jobs : jobs'[i] = jobs[i] /\ n > i
  BY <1>0, <1>3, <1>7, <1>8 DEF JobsOK, Jobs
<1>10. \A i \in Jobs : Left(i)' = Left(i) /\ Hand(i)' = Hand(i)
  BY <1>9 DEF Left, Hand
<1>11. Left(n)' = wanted
  BY <1>6, <1>7, <1>9 DEF Left
<1>12. \A i \in Jobs' : ~ Busy(i)'
  BY <1>1, <1>7, <1>9 DEF LoopIsFree, Busy
<1>13. \A r \in board' :
         \/ r \in board /\ r.face \notin wanted
         \/ \E f \in wanted : r = [job |-> n, face |-> f, of |-> person.id, status |-> "pending"]
  BY <1>0, <1>1 DEF Batch
<1>14. BoardTypeOK'
  <2>1. board' \subseteq [job: Nat, face: Face, of: Nat, status: Marks]
    BY <1>8, <1>13 DEF BoardTypeOK, Marks
  <2> QED  BY <1>1, <1>9, <2>1 DEF BoardTypeOK
<1>15. RowsInv'
  <2>1. ASSUME NEW r \in board', NEW q \in board', r.face = q.face PROVE r = q
    BY <1>13, <2>1 DEF RowsInv
  <2>2. ASSUME NEW r \in board' PROVE r.of = person.id /\ r.job \in Jobs'
    BY <1>9, <1>13 DEF RowsInv
  <2> QED  BY <1>1, <1>2, <2>1, <2>2 DEF RowsInv
<1>16. TasksInv'
  <2>1. \A i \in Jobs' : jobs'[i].at # "refused" /\ (jobs'[i].at \in Unfinished <=> jobs'[i].todo # {})
    BY <1>6, <1>7, <1>9 DEF TasksInv, Unfinished
  <2> QED  BY <1>12, <2>1 DEF TasksInv, Busy
<1>17. WorkInv'
  <2> SUFFICES ASSUME NEW r \in board'
               PROVE  /\ \A i \in Jobs' : i > r.job => r.face \notin Left(i)'
                      /\ kills = 0 /\ Underway(r) => r.face \in Left(r.job)'
                      /\ r.status = "ready" =>
                           /\ pictures[r.face] = r.job
                           /\ \A i \in Jobs' : jobs'[i].at = "draw" => Hand(i)' # r.face
                           /\ kills = 0 => Selecting(r)' \/ r.face \in paths
    BY <1>1 DEF WorkInv, Underway
  <2>1. CASE r \in board /\ r.face \notin wanted
    <3>1. r.job \in Jobs
      BY <2>1 DEF RowsInv
    <3>2. Selecting(r)' = Selecting(r)
      BY <1>9, <1>10, <3>1 DEF Selecting
    <3>3. jobs'[n].at # "draw"
      BY <1>7, <1>9
    <3>4. \A i \in Jobs' : i > r.job => r.face \notin Left(i)'
      BY <1>9, <1>10, <1>11, <2>1 DEF WorkInv
    <3>5. kills = 0 /\ Underway(r) => r.face \in Left(r.job)'
      BY <1>10, <2>1, <3>1 DEF WorkInv
    <3>6. r.status = "ready" =>
            /\ pictures[r.face] = r.job
            /\ \A i \in Jobs' : jobs'[i].at = "draw" => Hand(i)' # r.face
            /\ kills = 0 => Selecting(r)' \/ r.face \in paths
      BY <1>9, <1>10, <2>1, <3>2, <3>3 DEF WorkInv
    <3> QED  BY <3>4, <3>5, <3>6
  <2>2. CASE \E f \in wanted : r = [job |-> n, face |-> f, of |-> person.id, status |-> "pending"]
    <3>1. r.job = n /\ r.face \in wanted /\ r.status = "pending"
      BY <2>2
    <3>2. \A i \in Jobs' : ~ (i > n)
      BY <1>8, <1>9
    <3> QED  BY <1>11, <3>1, <3>2
  <2> QED  BY <1>13, <2>1, <2>2
<1>18. PageInv'
  BY <1>1, <1>9, <1>10 DEF PageInv
<1> QED  BY <1>1, <1>14, <1>15, <1>16, <1>17, <1>18, PersonStays

LEMMA KillLeavesTheBoard ==
  ASSUME BoardInv, BoardKilled
  PROVE  BoardInv'
<1> USE DEF BoardInv
<1>1. /\ kills' = 1 /\ jobs' = [j \in Jobs |-> [at |-> "done", todo |-> {}]]
      /\ UNCHANGED <<person, paths, board, pictures, screen, births, visits>>
  BY DEF BoardKilled
<1> DEFINE job == [at |-> "done", todo |-> {}]
<1>2. job \in Job /\ job.at = "done" /\ job.todo = {}
  BY DEF Job
<1>3. Jobs = 1 .. Len(jobs) /\ Len(jobs) \in Nat
  BY DEF Jobs, BoardTypeOK, JobsOK
<1> HIDE DEF job
<1>4. jobs' = [j \in 1 .. Len(jobs) |-> job]
  BY <1>1, <1>3 DEF job
<1>5. JobsOK' /\ Jobs' = Jobs /\ \A j \in Jobs : jobs'[j] = job
  BY <1>2, <1>3, <1>4 DEF JobsOK, Jobs
<1>6. \A j \in Jobs : Left(j)' = {} /\ jobs'[j].at = "done" /\ jobs'[j].todo = {}
  BY <1>2, <1>5 DEF Left
<1>7. BoardTypeOK'
  BY <1>1, <1>5 DEF BoardTypeOK
<1>8. RowsInv'
  BY <1>1, <1>5 DEF RowsInv
<1>9. TasksInv'
  BY <1>5, <1>6 DEF TasksInv, Unfinished, Busy
<1>10. WorkInv'
  BY <1>1, <1>5, <1>6 DEF WorkInv
<1>11. PageInv'
  BY <1>1 DEF PageInv
<1> QED  BY <1>1, <1>7, <1>8, <1>9, <1>10, <1>11, PersonStays

\* A page that changes the character, and no candidate.
LEMMA WorkStays ==
  ASSUME BoardInv, UNCHANGED <<paths, board, pictures, jobs, kills>>
  PROVE  /\ TasksInv' /\ WorkInv' /\ JobsOK' /\ Jobs' = Jobs
         /\ \A j \in Jobs : jobs'[j] = jobs[j] /\ Hand(j)' = Hand(j)
<1> USE DEF BoardInv
<1>1. Jobs' = Jobs /\ \A j \in Jobs : jobs'[j] = jobs[j]
  BY DEF Jobs
<1>2. \A j \in Jobs : Hand(j)' = Hand(j) /\ Left(j)' = Left(j) /\ Busy(j)' = Busy(j)
  BY <1>1 DEF Hand, Left, Busy
<1>3. \A j \in Jobs : RowOf(j)' = RowOf(j)
  BY <1>2 DEF RowOf
<1>4. JobsOK'
  BY DEF BoardTypeOK, JobsOK
<1>5. TasksInv'
  BY <1>1, <1>2, <1>3 DEF TasksInv
<1>6. WorkInv'
  BY <1>1, <1>2 DEF WorkInv, RowsInv, Underway, Selecting
<1> QED  BY <1>1, <1>2, <1>4, <1>5, <1>6

LEMMA OperatorTells ==
  ASSUME BoardInv,
         \/ ~ person.refs /\ person' = [person EXCEPT !.refs = TRUE]
         \/ \E words \in BOOLEAN : person' = [person EXCEPT !.told = words],
         UNCHANGED <<paths, board, pictures, jobs, screen, births, kills>>
  PROVE  BoardInv'
<1> USE DEF BoardInv
<1>1. person \in [id: Nat, by: {"operator", "task"}, told: BOOLEAN, refs: BOOLEAN]
  BY DEF BoardTypeOK
<1>2. /\ person' \in [id: Nat, by: {"operator", "task"}, told: BOOLEAN, refs: BOOLEAN]
      /\ person'.id = person.id /\ person'.by = person.by /\ (person.refs => person'.refs)
  BY <1>1
<1>3. BoardTypeOK'
  BY <1>2, WorkStays DEF BoardTypeOK
<1>4. PersonInv'
  BY <1>2 DEF PersonInv
<1>5. RowsInv'
  BY <1>2, WorkStays DEF RowsInv
<1>6. PageInv'
  BY <1>2, WorkStays DEF PageInv
<1> QED  BY <1>3, <1>4, <1>5, <1>6, WorkStays

LEMMA OperatorCreates ==
  ASSUME BoardInv, CreatePerson
  PROVE  BoardInv'
<1> USE DEF BoardInv
<1>1. /\ person.id = 0 /\ person' = [Nobody0 EXCEPT !.id = births + 1] /\ births' = births + 1
      /\ UNCHANGED <<paths, board, pictures, jobs, screen, kills>>
  BY DEF CreatePerson
<1>2. births \in Nat
  BY DEF BoardTypeOK
<1>3. /\ person' \in [id: Nat, by: {"operator", "task"}, told: BOOLEAN, refs: BOOLEAN]
      /\ person'.id = births + 1 /\ person'.by = "operator"
  <2>1. person' = [id |-> births + 1, by |-> "operator", told |-> FALSE, refs |-> FALSE]
    BY <1>1 DEF Nobody0
  <2> QED  BY <1>2, <2>1
<1>4. screen.id > 0 /\ screen.id <= births /\ screen.id \in Nat
  BY DEF PersonInv, BoardTypeOK
<1>5. board = {}
  BY <1>1 DEF RowsInv
<1>6. BoardTypeOK'
  BY <1>1, <1>2, <1>3, WorkStays DEF BoardTypeOK
<1>7. screen'.id # person'.id
  BY <1>1, <1>2, <1>3, <1>4
<1>8. PersonInv'
  BY <1>1, <1>2, <1>3, <1>4, <1>7 DEF PersonInv
<1>9. RowsInv'
  BY <1>1, <1>5 DEF RowsInv
<1>10. PageInv'
  BY <1>7 DEF PageInv
<1> QED  BY <1>1, <1>6, <1>8, <1>9, <1>10, WorkStays

LEMMA OperatorDeletes ==
  ASSUME BoardKept, BoardInv, DeletePerson
  PROVE  BoardInv'
<1> USE DEF BoardInv
<1>1. /\ \A j \in Jobs : jobs[j].at # "ready"
      /\ board' = {r \in board : r.of # person.id} /\ person' = Nobody0 /\ paths' = {}
      /\ UNCHANGED <<pictures, jobs, screen, births, kills>>
  BY DEF DeletePerson, BoardKept
<1>2. board' = {}
  BY <1>1 DEF RowsInv
<1>3. /\ person' \in [id: Nat, by: {"operator", "task"}, told: BOOLEAN, refs: BOOLEAN]
      /\ person'.id = 0 /\ person'.by = "operator"
  BY <1>1 DEF Nobody0
<1>4. Jobs' = Jobs /\ JobsOK'
  BY <1>1 DEF Jobs, BoardTypeOK, JobsOK
<1>5. BoardTypeOK'
  BY <1>1, <1>2, <1>3, <1>4 DEF BoardTypeOK
<1>6. screen.id > 0 /\ screen.id <= births /\ screen.id \in Nat /\ births \in Nat
  BY DEF PersonInv, BoardTypeOK
<1>7. screen'.id # person'.id
  BY <1>1, <1>3, <1>6
<1>8. PersonInv'
  BY <1>1, <1>3, <1>6, <1>7 DEF PersonInv
<1>9. RowsInv' /\ WorkInv'
  BY <1>2 DEF RowsInv, WorkInv
<1>10. TasksInv'
  BY <1>1, <1>4 DEF TasksInv, Busy
<1>11. PageInv'
  BY <1>7 DEF PageInv
<1> QED  BY <1>5, <1>8, <1>9, <1>10, <1>11

\* The page shows the mark of a row.
LEMMA StatusIsOfARow ==
  ASSUME NEW f \in Face, StatusOf(f) # NoCandidate
  PROVE  \E r \in board : r.face = f /\ r.status = StatusOf(f)
<1>1. Rows(f) # {}
  BY DEF StatusOf
<1>2. PICK r \in Rows(f) : r = CHOOSE q \in Rows(f) : TRUE
  BY <1>1, Zenon
<1>3. StatusOf(f) = r.status
  BY <1>1, <1>2, Zenon DEF StatusOf
<1> QED  BY <1>2, <1>3 DEF Rows

LEMMA PageLooks ==
  ASSUME BoardInv, person.id # 0, screen'.of = Statuses, screen'.id = person.id,
         screen' \in [id: Nat, refs: BOOLEAN, of: [Face -> Marks \cup {NoCandidate}]],
         screen'.refs => person.refs,
         UNCHANGED <<person, paths, board, pictures, jobs, births, kills>>
  PROVE  BoardInv'
<1> USE DEF BoardInv
<1>1. \A f \in Face : screen'.of[f] # NoCandidate =>
        \E r \in board : r.face = f /\ r.status = screen'.of[f]
  BY StatusIsOfARow DEF Statuses
<1>2. BoardTypeOK'
  BY WorkStays DEF BoardTypeOK
<1>3. PersonInv'
  <2>1. person.id \in Nat
    BY DEF BoardTypeOK
  <2>2. (\E f \in Face : screen'.of[f] # NoCandidate) => person.refs
    BY <1>1 DEF RowsInv
  <2> QED  BY <2>1, <2>2 DEF PersonInv
<1>4. RowsInv'
  BY WorkStays DEF RowsInv
<1>5. PageInv'
  <2> SUFFICES ASSUME kills = 0, NEW f \in Face, screen'.of[f] = "ready"
               PROVE  f \in paths \/ \E j \in Jobs : jobs[j].at = "ready" /\ Hand(j) = f
    BY WorkStays DEF PageInv
  <2>1. PICK r \in board : r.face = f /\ r.status = "ready"
    BY <1>1 DEF NoCandidate
  <2>2. Selecting(r) \/ r.face \in paths
    BY <2>1 DEF WorkInv
  <2> QED  BY <2>1, <2>2 DEF Selecting, RowsInv
<1> QED  BY <1>2, <1>3, <1>4, <1>5, WorkStays

LEMMA StatusesAreMarks == BoardTypeOK => Statuses \in [Face -> Marks \cup {NoCandidate}]
<1> SUFFICES ASSUME BoardTypeOK, NEW f \in Face PROVE StatusOf(f) \in Marks \cup {NoCandidate}
  BY DEF Statuses
<1>1. CASE StatusOf(f) = NoCandidate
  BY <1>1
<1>2. CASE StatusOf(f) # NoCandidate
  <2>1. PICK r \in board : r.status = StatusOf(f)
    BY <1>2, StatusIsOfARow
  <2> QED  BY <2>1 DEF BoardTypeOK
<1> QED  BY <1>1, <1>2

LEMMA BoardBegins == BoardInit => BoardInv
<1> SUFFICES ASSUME BoardInit PROVE BoardInv
  OBVIOUS
<1>1. person = [id |-> 1, by |-> "operator", told |-> FALSE, refs |-> FALSE]
  BY DEF BoardInit, Nobody0
<1>2. Jobs = {}
  BY DEF BoardInit, Jobs
<1>3. JobsOK
  BY DEF BoardInit, JobsOK
<1>4. BoardTypeOK
  <2>1. person \in [id: Nat, by: {"operator", "task"}, told: BOOLEAN, refs: BOOLEAN]
    BY <1>1
  <2>2. screen \in [id: Nat, refs: BOOLEAN, of: [Face -> Marks \cup {NoCandidate}]]
    BY DEF BoardInit
  <2>3. pictures \in [Face -> Nat] /\ births \in Nat /\ kills \in {0, 1} /\ paths = {} /\ board = {}
    BY DEF BoardInit
  <2> QED  BY <1>3, <2>1, <2>2, <2>3 DEF BoardTypeOK
<1>5. PersonInv
  BY <1>1 DEF BoardInit, PersonInv
<1>6. RowsInv /\ TasksInv /\ WorkInv
  BY <1>2 DEF BoardInit, RowsInv, TasksInv, WorkInv
<1>7. PageInv
  BY DEF BoardInit, PageInv, NoCandidate
<1> QED  BY <1>4, <1>5, <1>6, <1>7 DEF BoardInv

LEMMA BoardStep == BoardKept /\ BoardInv /\ [BoardNext]_boardVars => BoardInv'
<1> SUFFICES ASSUME BoardKept, BoardInv, [BoardNext]_boardVars PROVE BoardInv'
  OBVIOUS
<1>1. ASSUME NEW wanted \in SUBSET Face, PostBatch(wanted) PROVE BoardInv'
  BY <1>1, BatchTakesOver
<1>2. ASSUME NEW j \in Jobs, TakeUp(j) PROVE BoardInv'
  <2>1. CASE RowOf(j) = {}
    <3>1. board' = Status(j, "failed")
      BY <1>2, <2>1 DEF TakeUp, Status
    <3> QED  BY <1>2, <2>1, <3>1, MissesFace DEF TakeUp
  <2>2. CASE RowOf(j) # {} /\ person.told
    BY <1>2, <2>2, KeepsFace DEF TakeUp, Marks
  <2>3. CASE RowOf(j) # {} /\ ~ person.told
    BY <1>2, <2>3, MissesFace DEF TakeUp
  <2> QED  BY <2>1, <2>2, <2>3
<1>3. ASSUME NEW j \in Jobs, Drawn0(j) PROVE BoardInv'
  <2>1. jobs[j].at = "draw" /\ MayRun(j) /\ First(j)
    BY <1>3 DEF Drawn0, LoopIsFree, MayRun, BoardKept
  <2>2. CASE RowOf(j) = {}
    <3>1. board' = Status(j, "failed")
      BY <1>3, <2>2 DEF Drawn0, Status
    <3> QED  BY <1>3, <2>1, <2>2, <3>1, MissesFace DEF Drawn0
  <2>3. CASE RowOf(j) # {}
    BY <1>3, <2>1, <2>3, KeepsFace DEF Drawn0, Marks
  <2> QED  BY <2>2, <2>3
<1>4. ASSUME NEW j \in Jobs, NotDrawn(j) PROVE BoardInv'
  <2>1. jobs[j].at = "draw" /\ MayRun(j)
    BY <1>4 DEF NotDrawn, LoopIsFree, MayRun
  <2> QED  BY <1>4, <2>1, MissesFace DEF NotDrawn
<1>5. ASSUME NEW j \in Jobs, SelectDrawn(j) PROVE BoardInv'
  BY <1>5, SelectsWhatIsReady
<1>6. CASE FindRefs
  BY <1>6, OperatorTells DEF FindRefs
<1>7. ASSUME NEW words \in BOOLEAN, TellLooks(words) PROVE BoardInv'
  BY <1>7, OperatorTells DEF TellLooks
<1>8. CASE DeletePerson
  BY <1>8, OperatorDeletes
<1>9. CASE CreatePerson
  BY <1>9, OperatorCreates
<1>10. CASE LoadPerson
  <2>1. person.id # 0 /\ screen' = [id |-> person.id, refs |-> person.refs, of |-> Statuses]
    BY <1>10 DEF LoadPerson
  <2>2. person.id \in Nat /\ person.refs \in BOOLEAN /\ BoardTypeOK
    BY DEF BoardInv, BoardTypeOK
  <2>3. screen' \in [id: Nat, refs: BOOLEAN, of: [Face -> Marks \cup {NoCandidate}]]
    BY <2>1, <2>2, StatusesAreMarks
  <2> QED  BY <1>10, <2>1, <2>3, PageLooks DEF LoadPerson
<1>11. CASE PollBoard
  <2>1. screen.id = person.id /\ screen' = [screen EXCEPT !.of = Statuses]
    BY <1>11 DEF PollBoard
  <2>2. screen \in [id: Nat, refs: BOOLEAN, of: [Face -> Marks \cup {NoCandidate}]] /\ BoardTypeOK
    BY DEF BoardInv, BoardTypeOK
  <2>3. /\ screen' \in [id: Nat, refs: BOOLEAN, of: [Face -> Marks \cup {NoCandidate}]]
        /\ screen'.id = person.id /\ screen'.refs = screen.refs /\ screen'.of = Statuses
    BY <2>1, <2>2, StatusesAreMarks
  <2>4. person.id # 0 /\ (screen.refs => person.refs)
    BY <2>1, <2>2 DEF BoardInv, PersonInv
  <2> QED  BY <1>11, <2>3, <2>4, PageLooks DEF PollBoard
<1>12. CASE BoardKilled
  BY <1>12, KillLeavesTheBoard
<1>13. CASE UNCHANGED boardVars
  <2>1. UNCHANGED <<person, paths, board, pictures, jobs, screen, births, kills>>
    BY <1>13 DEF boardVars
  <2>2. TasksInv' /\ WorkInv' /\ JobsOK' /\ Jobs' = Jobs
        /\ \A j \in Jobs : jobs'[j] = jobs[j] /\ Hand(j)' = Hand(j)
    BY <2>1, WorkStays
  <2> QED  BY <2>1, <2>2
          DEF BoardInv, BoardTypeOK, PersonInv, RowsInv, PageInv
<1> QED
  BY <1>1, <1>2, <1>3, <1>4, <1>5, <1>6, <1>7, <1>8, <1>9, <1>10, <1>11, <1>12, <1>13
  DEF BoardNext

LEMMA BoardShows == BoardInv => BoardIsTrue
<1> SUFFICES ASSUME BoardInv PROVE BoardIsTrue
  OBVIOUS
<1> USE DEF BoardInv
<1>1. RowsAreServed
  <2>1. \A r, q \in board : r.face = q.face => r = q
    BY DEF RowsInv
  <2>2. \A r \in board : r.of = person.id /\ r.job \in Jobs
    BY DEF RowsInv
  <2>3. ASSUME kills = 0, NEW r \in board, Underway(r) PROVE \E j \in Jobs : AtWorkOn(j, r)
    BY <2>2, <2>3 DEF WorkInv, TasksInv, AtWorkOn, Left
  <2>4. \A r \in board : r.status = "ready" =>
          pictures[r.face] = r.job /\ (kills = 0 /\ ~ Selecting(r) => r.face \in paths)
    BY DEF WorkInv
  <2> QED  BY <2>1, <2>2, <2>3, <2>4 DEF RowsAreServed
<1>2. FinalizeIsTaken
  <2> SUFFICES ASSUME Finalizable, screen.id = person.id, kills = 0,
                      \A j \in Jobs : jobs[j].at # "ready"
               PROVE  Finalized
    BY DEF FinalizeIsTaken
  <2>1. Face \subseteq paths
    BY DEF PageInv, Finalizable
  <2>2. paths \subseteq Face
    BY DEF BoardTypeOK
  <2>3. person.id # 0
    BY DEF PersonInv, BoardTypeOK
  <2> QED  BY <2>1, <2>2, <2>3 DEF Finalized
<1> QED  BY <1>1, <1>2 DEF BoardIsTrue, PersonInv

-----------------------------------------------------------------------------
(* The works side by side: a behaviour shows one of them, the state of the   *)
(* others stays as it began.                                                 *)

PlatesInv == ShelfInv /\ DepthInv
SetsInv == StagingInv /\ RelitInv

LEMMA PlatesGoOn ==
  ASSUME ShelfKept, NamesKept, PlatesInv, [LibraryNext]_allVars
  PROVE  PlatesInv'
<1>1. ShelfInv'
  <2>1. [ShelfNext]_shelfVars
    BY DEF LibraryNext, PlatesNext, allVars, shelfVars
  <2> QED  BY <2>1, ShelfStep DEF PlatesInv
<1>2. DepthInv'
  <2>1. [DepthNext]_depthVars
    BY DEF LibraryNext, PlatesNext, allVars, depthVars
  <2> QED  BY <2>1, DepthStep DEF PlatesInv, ShelfInv
<1> QED  BY <1>1, <1>2 DEF PlatesInv

LEMMA SetsGoOn ==
  ASSUME StagingKept, LightKept, OneStandingSet, SetsInv, [LibraryNext]_allVars
  PROVE  SetsInv'
<1>1. StagingInv'
  <2>1. [StagingNext]_stagingVars
    BY DEF LibraryNext, CardsNext, allVars
  <2> QED  BY <2>1, StagingStep DEF SetsInv
<1>2. RelitInv'
  <2>1. [CardsNext]_<<stagingVars, relitVars>>
    BY DEF LibraryNext, CardsNext, allVars
  <2> QED  BY <2>1, RelitStep DEF SetsInv
<1> QED  BY <1>1, <1>2 DEF SetsInv

\* A plate is offered with an image that passed, and with no verdict but those
\* on that image: for any number of plates, whatever is drawn again, rejected,
\* judged or has failed, as long as one process at a time tends a plate and no
\* seeder is killed between the file and the entry.
THEOREM PlatesAreOfferedAsJudged == ShelfKept => (LibrarySpec => []OfferedAsJudged)
<1> SUFFICES ASSUME ShelfKept PROVE LibrarySpec => []OfferedAsJudged
  OBVIOUS
<1>1. LibraryInit => ShelfInv
  BY ShelfBegins DEF LibraryInit, PlatesInit
<1>2. ShelfInv /\ [LibraryNext]_allVars => ShelfInv'
  <2>1. [LibraryNext]_allVars => [ShelfNext]_shelfVars
    BY DEF LibraryNext, PlatesNext, allVars, shelfVars
  <2> QED  BY <2>1, ShelfStep
<1>3. ShelfInv => OfferedAsJudged
  BY ShelfShows
<1> QED  BY <1>1, <1>2, <1>3, PTL DEF LibrarySpec

\* A staged card set goes live whole and with its own texts, and a rejected
\* text goes away: for any number of sets and keys, whatever interrupts the
\* scripts.
THEOREM StagingGoesLiveWhole ==
  StagingKept /\ OneStandingSet => (LibrarySpec => []StagingIsAllOrNothing)
<1> SUFFICES ASSUME StagingKept, OneStandingSet
             PROVE  LibrarySpec => []StagingIsAllOrNothing
  OBVIOUS
<1>1. LibraryInit => StagingInv
  BY StagingBegins DEF LibraryInit, CardsInit
<1>2. StagingInv /\ [LibraryNext]_allVars => StagingInv'
  <2>1. [LibraryNext]_allVars => [StagingNext]_stagingVars
    BY DEF LibraryNext, CardsNext, allVars
  <2> QED  BY <2>1, StagingStep
<1>3. StagingInv => StagingIsAllOrNothing
  BY StagingShows
<1> QED  BY <1>1, <1>2, <1>3, PTL DEF LibrarySpec

\* No run takes a card away from a character: for any cast and any number of runs
\* that fill the same rows, draw, fail and roll back, in any order.
THEOREM NoRunEverTakesCardsAway == LibrarySpec => NoRunTakesCardsAway
<1>1. LibraryInit => CastsInv
  BY CastBegins DEF LibraryInit
<1>2. [LibraryNext]_allVars => [Next]_vars
  BY DEF LibraryNext, allVars
<1>3. CastsInv /\ [LibraryNext]_allVars => CastsInv'
  BY <1>2, CastStep
<1>4. CastsInv /\ [Next]_vars
        => [edits' = 0 => \A k \in Keys : Shown(k) \subseteq Shown(k)']_vars
  <2> SUFFICES ASSUME CastsInv, Next, edits' = 0
               PROVE  \A k \in Keys : Shown(k) \subseteq Shown(k)'
    OBVIOUS
  <2>1. CASE PageNext
    <3>1. edits' = edits + 1
      BY <2>1 DEF PageNext, PageCreate, PageDescribe, PageDelete, PageDraw, Request
    <3> QED  BY <3>1 DEF CastsInv
  <2>2. CASE Crash
    BY <2>2, CrashStep DEF Crash, CastsInv, KeepsShown
  <2>3. ASSUME NEW r \in Runs, Check(r) \/ Approve(r) \/ Works(r)
        PROVE  \A k \in Keys : Shown(k) \subseteq Shown(k)'
    <3>1. edits' = edits
      BY <2>3 DEF Works, Check, Approve, Create, Search, Describe, Publish, Generate,
                  Generated, Ask, Save, Plan, Adopt, ReadBack, Settle, Film
    <3> QED  BY <2>3, <3>1, RunSteps DEF CastsInv, KeepsShown
  <2> QED  BY <2>1, <2>2, <2>3 DEF Next
<1> QED  BY <1>1, <1>2, <1>3, <1>4, PTL DEF LibrarySpec, NoRunTakesCardsAway

\* And nobody is forgotten: while nobody edits at the character page and the server
\* stays up, for any cast and any number of runs that share its rows, a row without
\* angles is being filled, and every character a run goes on without is on screen,
\* told of by a run that tried it, or still being drawn (NobodyIsForgotten).
THEOREM NobodyIsEverForgotten == LibrarySpec => []NobodyIsForgotten
<1>1. LibraryInit => CastsInv /\ ServedInv
  BY CastBegins, ServedBegins DEF LibraryInit
<1>2. [LibraryNext]_allVars => [Next]_vars
  BY DEF LibraryNext, allVars
<1>3. CastsInv /\ ServedInv /\ [LibraryNext]_allVars => (CastsInv /\ ServedInv)'
  BY <1>2, CastStep, ServedStep
<1>4. CastsInv /\ ServedInv => NobodyIsForgotten
  BY ServedShows
<1> QED  BY <1>1, <1>3, <1>4, PTL DEF LibrarySpec

\* What is served was made for what it is served as: for any cast and any number
\* of runs, plates, sets and processes, whatever they do to one another's rows,
\* whatever fails and wherever the server restarts, a card shows the character
\* its key names and the person its reference shows, or a warning of its own says
\* that it does not, a plate that is offered was judged fit as it is, a sprite is of the card it stands for, a depth map of the image
\* it is asked for.
THEOREM NothingServedIsOfAnother ==
  StagingKept /\ LightKept /\ OneStandingSet /\ ShelfKept /\ NamesKept /\ GraphKept
    => (LibrarySpec => []NothingIsOfAnother)
<1> SUFFICES ASSUME StagingKept, LightKept, OneStandingSet, ShelfKept, NamesKept, GraphKept
             PROVE  LibrarySpec => []NothingIsOfAnother
  OBVIOUS
<1> DEFINE LibraryInv == CastsInv /\ SetsInv /\ PlatesInv /\ DrawInv
<1>1. LibraryInit => LibraryInv
  BY CastBegins, StagingBegins, RelitBegins, ShelfBegins, DepthBegins, DrawBegins
  DEF LibraryInit, CardsInit, PlatesInit, SetsInv, PlatesInv
<1>2. LibraryInv /\ [LibraryNext]_allVars => LibraryInv'
  <2>1. [LibraryNext]_allVars => [Next]_vars
    BY DEF LibraryNext, allVars
  <2>2. [LibraryNext]_allVars => DrawNext \/ UNCHANGED drawVars
    BY DEF LibraryNext, allVars
  <2> QED  BY <2>1, <2>2, CastStep, SetsGoOn, PlatesGoOn, DrawStep
<1>3. LibraryInv => NothingIsOfAnother
  BY CastShows, RelitShows, DrawShows, ShelfShows
  DEF NothingIsOfAnother, SetsInv, PlatesInv, DepthInv
<1> QED  BY <1>1, <1>2, <1>3, PTL DEF LibrarySpec

\* The rows, the files and the page of a character's candidates agree, whatever is
\* asked for, drawn, refused, deleted and created again, and wherever the server is
\* killed: for any number of angles, of batches and of requests, as long as the page
\* asks for a batch only when it knows of references or a failure, pictures are drawn
\* in the order they were asked for, and nobody deletes the character in the moment
\* its picture is being selected.
THEOREM CandidatesAreServed == BoardKept => (LibrarySpec => []BoardIsTrue)
<1> SUFFICES ASSUME BoardKept PROVE LibrarySpec => []BoardIsTrue
  OBVIOUS
<1>1. LibraryInit => BoardInv
  BY BoardBegins DEF LibraryInit
<1>2. BoardInv /\ [LibraryNext]_allVars => BoardInv'
  <2>1. [LibraryNext]_allVars => [BoardNext]_boardVars
    BY DEF LibraryNext, allVars, boardVars
  <2> QED  BY <2>1, BoardStep
<1>3. BoardInv => BoardIsTrue
  BY BoardShows
<1> QED  BY <1>1, <1>2, <1>3, PTL DEF LibrarySpec
=============================================================================
