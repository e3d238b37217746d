---------------------------- MODULE RelitSprites ----------------------------
(* The relit sprites of the cards that CardStaging replaces.  A render       *)
(* resolves a card, and later, in precompute_relights, asks for the epoch,   *)
(* looks for a sprite of that epoch and has one rendered if there is none.   *)
(* What it stores it stores under the epoch it asked for.                    *)
EXTENDS CardStaging

CONSTANTS
  Filmed,        \* the sets with a card in a shot that has a plate
  LightFaults,   \* "render", "torn store"; "promoted": while a card is in hand
  MaxRelights

ASSUME RelightsBounded == Filmed \subseteq Sets /\ MaxRelights \in Nat

VARIABLES
  relit,      \* per set: the epoch of its entry, the front under it, is it verified
  lighting,   \* per set: where its render stands, the card's directory, the epoch
  relights

relitVars == <<relit, lighting, relights>>

NoSprite == [of |-> NoCard, since |-> 0, whole |-> FALSE]
Unlit == [at |-> "idle", from |-> 0, since |-> 0]

LightingInit ==
  /\ relit = [s \in Filmed |-> NoSprite] /\ lighting = [s \in Filmed |-> Unlit]
  /\ relights = 0

\* The front in the directory a path points into; 0 for the card of before.
FrontIn(s, e) == IF e = 0 THEN 0 ELSE files[s][e].front

\* resolve_cast_cards, long before the sprites are asked for.
Resolve(s) ==
  /\ lighting[s].at = "idle" /\ relights < MaxRelights
  /\ lighting' = [lighting EXCEPT ![s] = [at |-> "resolved", from |-> shown[s], since |-> 0]]
  /\ relights' = relights + 1
  /\ UNCHANGED relit

\* _verified_card_asset: the entry's file has the entry's digest.
Vouched(s) == entry[s].at = 0 \/ entry[s].of = files[s][entry[s].at]

\* RelightCache.get_or_compute.
Hit(s, e) == relit[s].whole /\ relit[s].since = e

Look(s) ==
  /\ lighting[s].at = "resolved"
  /\ lighting[s].from # shown[s] => "promoted" \in LightFaults
  /\ lighting' =
       IF ~Vouched(s) \/ Hit(s, epoch) THEN [lighting EXCEPT ![s] = Unlit]
       ELSE [lighting EXCEPT ![s].at = "asked", ![s].since = epoch]
  /\ UNCHANGED <<relit, relights>>

\* The file is replaced first, then its entry: a crash between them leaves an
\* entry of another digest, or none of that path.
Store(s) ==
  LET new == [of |-> FrontIn(s, lighting[s].from), since |-> lighting[s].since,
              whole |-> TRUE] IN
  /\ lighting[s].at = "asked"
  /\ lighting' = [lighting EXCEPT ![s] = Unlit]
  /\ \/ relit' = [relit EXCEPT ![s] = new]
     \/ "render" \in LightFaults /\ UNCHANGED relit
     \/ /\ "torn store" \in LightFaults
        /\ relit' = [relit EXCEPT ![s].whole = @ /\ relit[s].since # new.since]
  /\ UNCHANGED relights

LightingNext == \E s \in Filmed : Resolve(s) \/ Look(s) \/ Store(s)

CardsInit == StagingInit /\ LightingInit
CardsNext ==
  \/ StagingNext /\ UNCHANGED relitVars
  \/ LightingNext /\ UNCHANGED stagingVars

(* "A cached entry from a stale style_epoch counts as a miss": outside a     *)
(* promotion a sprite that would be served is one of the card that is        *)
(* served, though renders go on while cards are replaced.                    *)
SpritesAreOfTheirCards ==
  Approves("idle") => \A s \in Filmed : Hit(s, epoch) => relit[s].of = FrontOf(s)
=============================================================================
