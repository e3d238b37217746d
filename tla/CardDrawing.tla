----------------------------- MODULE CardDrawing -----------------------------
(* How one card of a key is drawn.  generate_cards_from_descriptor asks for  *)
(* a set, front first and the others after its likeness; a candidate or an   *)
(* angle of the entity is drawn after a reference image, a special pose      *)
(* after the standing front and, if it can be had, a pose guide.  The        *)
(* provider falls back from the reference to the text alone and from the     *)
(* guided graph to the plain one, and says so in attributes: the picture     *)
(* it returns does not show it.  Each order has the key to itself; what two  *)
(* at once do to the rows is CardProvisioning's and CandidateBoard's.        *)
EXTENDS Naturals

CONSTANTS
  Others,      \* the angles beside the front
  DrawFaults,  \* "guide", "reference", "render", "crowd", "empty", "read", "kill";
               \* "graph": the guided graph's file goes after it was looked for
  MaxOrders

Angles0 == {"front"} \cup Others
Slots == Angles0 \cup {"hint"}
ASSUME OthersKnown == "front" \notin Others /\ "hint" \notin Others
ASSUME OrdersBounded == MaxOrders \in Nat

VARIABLES
  looks,    \* visual_descriptor: "none", "given", "read" (the front's likeness added)
  deck,     \* the files of this epoch and of the one staged
  listed,   \* the approved entries of the manifest, and the guide they record
  columns,  \* the angles whose angle_*_path is set
  step,     \* where the order under way is
  order,    \* its arguments and locals
  bench,    \* the picture in hand, and what the provider says of it
  filed,    \* the warnings: [code, slot, order]
  people,   \* the persons drawn so far; the first is the reference's
  orders

drawVars == <<looks, deck, listed, columns, step, order, bench, filed, people, orders>>

Nobody1 == 0     \* nobody in particular: drawn from the text alone
Sitter == 1      \* who the reference or the anchor shows
Dirs == {"live", "staged"}

\* A card: who it shows and was to show, its separated figures before the cleanup,
\* was a guide asked for, is it in the pose; the order that drew it.
NoCard1 == [who |-> 0, meant |-> 0, figures |-> 0, guide |-> FALSE, guided |-> FALSE, order |-> 0]
Blank(s, who, guide) ==
  [slot |-> s, meant |-> who, guide |-> guide,
   fell |-> FALSE, applied |-> FALSE, guided |-> FALSE, figures |-> 1, who |-> 0]
NoOrder == [kind |-> "none", dir |-> "live", anchored |-> FALSE, todo |-> {}, drawn |-> {}]

DrawInit ==
  /\ looks = "none" /\ deck = [d \in Dirs |-> [s \in Slots |-> NoCard1]]
  /\ listed = [s \in Slots |-> "none"] /\ columns = {}
  /\ step = "idle" /\ order = NoOrder /\ bench = Blank("front", Nobody1, FALSE)
  /\ filed = {} /\ people = Sitter /\ orders = 0

Row1(code, s, n) == [code |-> code, slot |-> s, order |-> n]
File(code) == filed' = filed \cup {Row1(code, bench.slot, orders)}
deckVars == <<deck, listed, columns>>

-----------------------------------------------------------------------------
(* The orders. *)

Begin(o) ==
  /\ step = "idle" /\ orders < MaxOrders /\ orders' = orders + 1
  /\ step' = "next" /\ order' = o
  /\ UNCHANGED <<deckVars, bench, filed, people>>

\* A blank description leaves the stored one alone.
BeginSet(dir, anchored) ==
  /\ Begin([NoOrder EXCEPT !.kind = "set", !.dir = dir, !.anchored = anchored, !.todo = Angles0])
  /\ looks' \in {looks, "given"}

\* One angle after the reference: generate_candidates_from_reference itself.
BeginAngle(a) ==
  /\ Begin([NoOrder EXCEPT !.kind = "angle", !.anchored = TRUE, !.todo = {a}])
  /\ UNCHANGED looks

\* generate_special_pose_card up to the provider.  A guide that cannot be had, or
\* not on this graph, is told of here.
LiveFront == deck["live"]["front"]
BeginHint(guide) ==
  LET ask == "front" \in columns /\ looks # "none"
      code == IF "front" \notin columns THEN "special_pose_generation_failed"
              ELSE IF looks = "none" THEN "character_descriptor_missing"
              ELSE "special_pose_guide_unapplied" IN
  /\ step = "idle" /\ orders < MaxOrders /\ orders' = orders + 1
  /\ filed' = IF ask /\ guide # "unusable" THEN filed
              ELSE filed \cup {Row1(code, "hint", orders')}
  /\ IF ask THEN /\ step' = "upload" /\ order' = [NoOrder EXCEPT !.kind = "hint"]
                 /\ bench' = Blank("hint", LiveFront.who, guide = "usable")
            ELSE UNCHANGED <<step, order, bench>>
  /\ UNCHANGED <<looks, deckVars, people>>

\* The next angle: the front first; without it or an anchor the others are left.
Due(s) == s \in order.todo /\ ("front" \in order.todo => s = "front")
Likeness(s) ==
  IF s # "front" /\ "front" \in order.drawn THEN deck[order.dir]["front"].who
  ELSE IF order.anchored THEN Sitter ELSE Nobody1
Without(s) == order' = [order EXCEPT !.todo = @ \ {s}]

Ask0(s) ==
  /\ step = "next" /\ Due(s) /\ Without(s)
  /\ IF s # "front" /\ ~order.anchored /\ "front" \notin order.drawn
     THEN UNCHANGED <<step, bench, filed>>
     ELSE /\ bench' = Blank(s, Likeness(s), FALSE)
          /\ IF looks = "none"
             THEN UNCHANGED step /\ filed' = filed \cup {Row1("character_descriptor_missing", s, orders)}
             ELSE step' = "upload" /\ UNCHANGED filed
  /\ UNCHANGED <<looks, deckVars, people, orders>>

\* The live columns are repointed once, at the end.
Close ==
  /\ step = "next" /\ order.todo = {}
  /\ columns' = IF order.dir = "live" THEN columns \cup order.drawn ELSE columns
  /\ step' = "idle" /\ order' = NoOrder
  /\ UNCHANGED <<looks, deck, listed, bench, filed, people, orders>>

-----------------------------------------------------------------------------
(* ComfyUICharacterProvider.generate. *)

\* _load_workflow: is it the guided graph that is loaded?
Graphs(applied) == {applied} \cup (IF "graph" \in DrawFaults THEN {FALSE} ELSE {})

\* The guide is uploaded before the graph is chosen; without it the plain graph.
\* last_pose_guide_applied tells of the upload alone.
Upload ==
  /\ step = "upload"
  /\ \E applied \in {bench.guide} \cup (IF "guide" \in DrawFaults THEN {FALSE} ELSE {}) :
     \E guided \in Graphs(applied) :
       bench' = [bench EXCEPT !.applied = applied, !.guided = guided]
  /\ step' = IF bench.meant = Nobody1 THEN "text" ELSE "likeness"
  /\ UNCHANGED <<looks, deckVars, order, filed, people, orders>>

\* The separated figures are counted before the cleanup leaves the largest.
Counts == IF "crowd" \in DrawFaults THEN {0, 1, 2} ELSE {1}

\* With the reference: its upload, the render and the cleanup may all fail.
DrawLikeness ==
  /\ step = "likeness"
  /\ \/ /\ \E n \in Counts : bench' = [bench EXCEPT !.figures = n, !.who = bench.meant]
        /\ step' = "judge"
     \/ /\ "reference" \in DrawFaults
        /\ bench' = [bench EXCEPT !.fell = TRUE] /\ step' = "text"
  /\ UNCHANGED <<looks, deckVars, order, filed, people, orders>>

\* _remove_i2i_input: the adapter is bypassed, the reference dropped, the guide
\* stays.  Who is drawn without them is somebody new.
Stranger == people + 1

DrawText ==
  /\ step = "text"
  /\ \/ /\ people' = Stranger /\ step' = "judge"
        /\ \E n \in Counts : bench' = [bench EXCEPT !.figures = n, !.who = people']
     \/ "render" \in DrawFaults /\ step' = "miss" /\ UNCHANGED <<bench, people>>
  /\ UNCHANGED <<looks, deckVars, order, filed, orders>>

-----------------------------------------------------------------------------
(* What the caller makes of it. *)

Picture ==
  [who |-> bench.who, meant |-> bench.meant, figures |-> bench.figures,
   guide |-> bench.guide, guided |-> bench.guided, order |-> orders]

\* Mutant: last_i2i_fallback is not looked at.
SaidOfGuides ==
  filed \cup (IF bench.guide /\ ~bench.applied
              THEN {Row1("special_pose_guide_unapplied", bench.slot, orders)} ELSE {})

\* The provider's attributes become rows, whether the card is kept or refused.
Said ==
  filed \cup (IF bench.fell THEN {Row1("character_card_i2i_fallback", bench.slot, orders)} ELSE {})
    \cup (IF bench.guide /\ ~bench.applied
          THEN {Row1("special_pose_guide_unapplied", bench.slot, orders)} ELSE {})

\* The file, its entry, the card's row; a staged card has its file only.  The
\* entry records the guide that was asked for.
Keep ==
  /\ step = "judge" /\ bench.figures = 1
  /\ deck' = [deck EXCEPT ![order.dir][bench.slot] = Picture]
  /\ listed' = IF order.dir = "staged" THEN listed
               ELSE [listed EXCEPT ![bench.slot] = IF bench.guide THEN "guide" ELSE "plain"]
  /\ order' = [order EXCEPT !.drawn = @ \cup {bench.slot}]
  /\ step' = CASE order.kind = "hint" -> "idle"
               [] order.kind = "set" /\ bench.slot = "front" /\ ~order.anchored -> "read"
               [] OTHER -> "next"
  /\ filed' = Said
  /\ UNCHANGED <<looks, columns, bench, people, orders>>

\* _reject_multi_figure: no figure or several, which the cleanup has hidden.
Refuse ==
  /\ step = "judge" /\ bench.figures # 1 /\ step' = "miss"
  /\ filed' = Said \cup (IF order.kind = "hint" THEN {}
                         ELSE {Row1("character_card_multi_figure", bench.slot, orders)})
  /\ UNCHANGED <<looks, deckVars, order, bench, people, orders>>

\* Nothing opaque is left to scale: raised past the fallback, before any row.
Empty ==
  /\ step = "judge" /\ "empty" \in DrawFaults /\ step' = "miss"
  /\ UNCHANGED <<looks, deckVars, order, bench, filed, people, orders>>

\* An angle is left out, a special pose is told of.
Miss ==
  /\ step = "miss"
  /\ IF order.kind = "hint" THEN step' = "idle" /\ File("special_pose_generation_failed")
     ELSE step' = "next" /\ UNCHANGED filed
  /\ UNCHANGED <<looks, deckVars, order, bench, people, orders>>

\* enrich_descriptor_from_references on the new front, added to what was given.
ReadLooks ==
  /\ step = "read" /\ step' = "next"
  /\ \/ looks' = "read" /\ UNCHANGED filed
     \/ "read" \in DrawFaults /\ File("vision_enrichment_failed") /\ UNCHANGED looks
  /\ UNCHANGED <<deckVars, order, bench, people, orders>>

DrawKilled ==
  /\ step # "idle" /\ "kill" \in DrawFaults
  /\ step' = "idle" /\ order' = NoOrder
  /\ UNCHANGED <<looks, deckVars, bench, filed, people, orders>>

DrawNext ==
  \/ \E dir \in Dirs, anchored \in BOOLEAN : BeginSet(dir, anchored)
  \/ \E a \in Angles0 : BeginAngle(a) \/ Ask0(a)
  \/ \E guide \in {"none", "usable", "unusable"} : BeginHint(guide)
  \/ Close \/ Upload \/ DrawLikeness \/ DrawText
  \/ Keep \/ Refuse \/ Empty \/ Miss \/ ReadLooks \/ DrawKilled
DrawSpec == DrawInit /\ [][DrawNext]_drawVars

-----------------------------------------------------------------------------
(* A kept card holds one figure; it shows whom its reference shows and has   *)
(* the pose of the guide it was asked for, or a row of its order says that    *)
(* it does not, and only a front is drawn of nobody in particular.            *)
ToldOf(code, s, c) == Row1(code, s, c.order) \in filed
CardIsTrue(s, c) ==
  /\ c.figures = 1
  /\ c.who = c.meant \/ (c.meant = Nobody1 /\ s = "front")
       \/ ToldOf("character_card_i2i_fallback", s, c)
  /\ c.guide => c.guided \/ ToldOf("special_pose_guide_unapplied", s, c)

(* The angles one order has drawn show the person of its front.              *)
SetIsOnePerson(d) ==
  \A s \in Others :
    LET f == deck[d]["front"]  c == deck[d][s] IN
    c.order # 0 /\ c.order = f.order =>
      c.who = f.who \/ ToldOf("character_card_i2i_fallback", s, c)

(* Whatever falls back on the way, nobody takes a card for what it is not:   *)
(* the cards are true, a set shows one person, and what a row of the table    *)
(* points at has an approved entry.                                           *)
CardsAreOfTheirModels ==
  /\ \A d \in Dirs, s \in Slots : deck[d][s].order # 0 => CardIsTrue(s, deck[d][s])
  /\ \A d \in Dirs : SetIsOnePerson(d)
  /\ \A s \in columns : listed[s] # "none"
=============================================================================
