--------------------------- MODULE CastResolution ---------------------------
(* From the cast of the shots to the cards that are drawn (resolve_cast_cards *)
(* of character_service): which shots still need a view of a key, one call    *)
(* per key, all at once, for which view each shot shows, then the library     *)
(* again for the card; and what video_node reports of it (_cast_warnings).    *)
(* The library is the operator's, who may change it while the calls run.      *)
EXTENDS Naturals, Sequences, SequencesExt, FiniteSets

CONSTANTS
  Castings,     \* what the shots may ask for: of each the members, [key, pose, hint]
  Stocks,       \* what the library may hold: [rows: the views of each key, posed: cards]
  MaxMeanwhile  \* changes of the library while the calls run

Preference == <<"front", "three_quarter", "side", "back">>
View == ToSet(Preference)
Malformed == ""
NoHint == "none"

\* A shot asks for a key once (_cast_union); a hint's name is none of the poses'.
ASSUME MeanwhileBounded == MaxMeanwhile \in Nat
ASSUME CastingsKnown ==
  \A list \in Castings :
    /\ list \in Seq(Seq([key : STRING, pose : STRING, hint : STRING]))
    /\ \A s \in DOMAIN list : \A i, j \in DOMAIN list[s] :
         /\ list[s][i].key = list[s][j].key /\ list[s][i].key # Malformed => i = j
         /\ list[s][i].hint # "standing"
ASSUME StocksKnown ==
  \A stock \in Stocks : stock.rows \in [DOMAIN stock.rows -> SUBSET View]

VARIABLES
  casting,   \* what is asked; <<>>, nothing yet
  standing,  \* the characters: of each key the views whose angle_*_path is set
  posed,     \* character_cards that are approved: <<key, pose, view>>
  wanted,    \* catalogues: of each key the shots that need a view
  viewed,     \* the views each call was told of
  picked,    \* of each key that is settled, the view of each shot; <<>>: no pick
  dealt,     \* the cards of each shot, in the order of its cast; <<>> until then
  meanwhile

castVars == <<casting, standing, posed, wanted, viewed, picked, dealt, meanwhile>>

CastInit ==
  /\ casting = << >> /\ standing = << >> /\ posed = {} /\ wanted = << >> /\ viewed = << >>
  /\ picked = << >> /\ dealt = << >> /\ meanwhile = 0

Members(list, s) == ToSet(list[s])
Keys(list) == {m.key : m \in UNION {Members(list, s) : s \in DOMAIN list}} \ {Malformed}

\* _approved_hint_card: a hint that has a card needs no view.
Hinted(m, stack) == m.hint # NoHint /\ <<m.key, m.hint, "front">> \in stack

\* _first_available_angle; there is one.
FirstOf(views) == Preference[Min({i \in DOMAIN Preference : Preference[i] \in views})]
HasViews(library, k) == k \in DOMAIN library /\ library[k] # {}

-----------------------------------------------------------------------------
\* The catalogue loop, and the start of every call.
Catalogue(list, stack, k) ==
  {s \in DOMAIN list : \E m \in Members(list, s) : m.key = k /\ ~Hinted(m, stack)}
AskForViews ==
  /\ casting = << >>
  /\ \E list \in Castings, stock \in Stocks :
       /\ casting' = list /\ standing' = stock.rows /\ posed' = stock.posed
       /\ wanted' = [k \in {j \in Keys(list) : Catalogue(list, stock.posed, j) # {}} |->
                       Catalogue(list, stock.posed, k)]
       /\ viewed' = stock.rows
  /\ UNCHANGED <<picked, dealt, meanwhile>>

Asking == casting # << >> /\ dealt = << >>
Unsettled == DOMAIN wanted \ DOMAIN picked
Settle(k, views) ==
  /\ picked' = [j \in DOMAIN picked \cup {k} |-> IF j = k THEN views ELSE picked[j]]
  /\ UNCHANGED <<casting, standing, posed, wanted, viewed, dealt, meanwhile>>

Pick(view, fallback) == [view |-> view, fallback |-> fallback]

\* No row, or no view: no call is made.
NothingToPick(k) == ~HasViews(viewed, k) /\ Settle(k, << >>)

\* A failed call, a truncated answer, one that is no JSON or no list.
PickFallback(k) ==
  /\ HasViews(viewed, k)
  /\ Settle(k, [s \in wanted[k] |-> Pick(FirstOf(viewed[k]), TRUE)])

\* An answer: a view for some of the shots, or something else.
Honoured(k, said) ==
  IF said \in viewed[k] THEN Pick(said, FALSE) ELSE Pick(FirstOf(viewed[k]), TRUE)
PickViews(k) ==
  /\ HasViews(viewed, k)
  /\ \E said \in [wanted[k] -> View \cup {"unsaid"}] :
       Settle(k, [s \in wanted[k] |-> Honoured(k, said[s])])

\* What the selector does not catch; gather keeps it from the other keys.
SelectorRaises(k) == HasViews(viewed, k) /\ Settle(k, << >>)

-----------------------------------------------------------------------------
(* The character page, while the calls run.                                  *)
Meanwhile ==
  /\ Asking /\ Unsettled # {} /\ meanwhile < MaxMeanwhile /\ meanwhile' = meanwhile + 1
  /\ UNCHANGED <<casting, wanted, viewed, picked, dealt>>

DeleteCharacter(k) ==
  /\ Meanwhile /\ k \in DOMAIN standing
  /\ standing' = [j \in DOMAIN standing \ {k} |-> standing[j]]
  /\ posed' = {card \in posed : card[1] # k}

SelectView(k, view) ==
  /\ Meanwhile /\ k \in DOMAIN standing /\ view \notin standing[k]
  /\ standing' = [standing EXCEPT ![k] = @ \cup {view}] /\ UNCHANGED posed

ApproveCard(m) ==
  /\ Meanwhile /\ m.hint # NoHint /\ ~Hinted(m, posed)
  /\ posed' = posed \cup {<<m.key, m.hint, "front">>} /\ UNCHANGED standing

-----------------------------------------------------------------------------
\* No pick, and a pick that says nothing of the shot, are the same.
PickOf(k, s) ==
  IF k \in DOMAIN picked /\ s \in DOMAIN picked[k] THEN picked[k][s]
  ELSE Pick(IF standing[k] = {} THEN "front" ELSE FirstOf(standing[k]), FALSE)

\* _resolve_card_path: the pose, or the standing card of the same view.
PoseOf(m, view) == IF m.pose # "standing" /\ <<m.key, m.pose, view>> \in posed THEN m.pose ELSE "standing"

CardMade(m, pose, view, why) == [key |-> m.key, pose |-> pose, view |-> view, why |-> why]
\* Mutant: a hint for which there is no card is passed over in silence.
WhyNotHintless(m, pick, pose) ==
  (IF pick.fallback THEN {"angle"} ELSE {}) \cup (IF pose # m.pose THEN {"asset"} ELSE {})
WhyNot(m, pick, pose) ==
  (IF pick.fallback THEN {"angle"} ELSE {}) \cup (IF pose # m.pose THEN {"asset"} ELSE {})
    \cup (IF m.hint # NoHint THEN {"pose_hint"} ELSE {})

\* The body of the resolution loop: a card or none.
CardOf(m, s) ==
  IF m.key = Malformed THEN << >>
  ELSE IF Hinted(m, posed) THEN <<CardMade(m, m.hint, "front", {})>>
  ELSE IF m.key \notin DOMAIN standing THEN << >>
  ELSE LET pick == PickOf(m.key, s)
           pose == PoseOf(m, pick.view)
       IN IF pose = "standing" /\ pick.view \notin standing[m.key] THEN << >>
          ELSE <<CardMade(m, pose, pick.view, WhyNot(m, pick, pose))>>

ResolveShots ==
  /\ Asking /\ Unsettled = {}
  /\ dealt' = [s \in DOMAIN casting |-> FlattenSeq([i \in DOMAIN casting[s] |-> CardOf(casting[s][i], s)])]
  /\ UNCHANGED <<casting, standing, posed, wanted, viewed, picked, meanwhile>>

\* _cast_warnings: a row for who is missing, and one for what is not as asked.
ToldOf(s) ==
  {<<"cast_card_missing", m.key, {}>> :
     m \in {n \in Members(casting, s) : \A i \in DOMAIN dealt[s] : dealt[s][i].key # n.key}}
  \cup {<<"cast_card_fallback", card.key, card.why>> : card \in {c \in ToSet(dealt[s]) : c.why # {}}}

CastNext ==
  \/ AskForViews \/ ResolveShots
  \/ \E k \in Unsettled : NothingToPick(k) \/ PickFallback(k) \/ PickViews(k) \/ SelectorRaises(k)
  \/ \E k \in DOMAIN standing : DeleteCharacter(k) \/ \E view \in View : SelectView(k, view)
  \/ \E s \in DOMAIN casting : \E m \in Members(casting, s) : ApproveCard(m)
CastSpec == CastInit /\ [][CastNext]_castVars
-----------------------------------------------------------------------------
(* Who is in a shot is on the screen once or reported as missing, and what    *)
(* is drawn is in the library.  A card without a reason is what was asked: in *)
(* its pose, and in the view that was picked for the shot, unless nothing was *)
(* picked for that key at all; so a key whose call went wrong takes no other  *)
(* key's picks along.  Whoever has a view in a library that stands still is   *)
(* not left out, and what is left out in one that changes had lost its row.   *)
InLibrary(card) ==
  IF card.pose = "standing" THEN card.key \in DOMAIN standing /\ card.view \in standing[card.key]
  ELSE <<card.key, card.pose, card.view>> \in posed
OfMember(s, m) == {i \in DOMAIN dealt[s] : dealt[s][i].key = m.key}
AsAsked(card, m, s) ==
  /\ card.pose = (IF m.hint # NoHint THEN m.hint ELSE m.pose)
  /\ \/ m.hint # NoHint
     \/ m.key \in DOMAIN picked /\ (picked[m.key] = << >> \/ picked[m.key][s] = Pick(card.view, FALSE))
CastIsDealt ==
  \A s \in DOMAIN dealt :
    /\ \A i \in DOMAIN dealt[s] : InLibrary(dealt[s][i])
    /\ \A m \in Members(casting, s) :
         LET told == {row \in ToldOf(s) : row[2] = m.key} IN
         \/ /\ OfMember(s, m) = {}
            /\ Cardinality(told) = 1 /\ \A row \in told : row[1] = "cast_card_missing"
            /\ m.key # Malformed => ~HasViews(standing, m.key)
         \/ /\ Cardinality(OfMember(s, m)) = 1 /\ Cardinality(told) <= 1
            /\ told = {} => \A i \in OfMember(s, m) : AsAsked(dealt[s][i], m, s)
=============================================================================
