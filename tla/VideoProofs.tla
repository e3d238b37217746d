----------------------------- MODULE VideoProofs -----------------------------
(***************************************************************************)
(* Theorems about five parts of VideoNode: the cards a cast comes to       *)
(* (CastResolution, from CastInv), who is seen in a shot and what is       *)
(* recorded of its frame (VideoStage, from FiguresInv), what is in the     *)
(* film (FilmAssembly, from FilmInv), the filter graphs by which it is     *)
(* made (FrameGraph, from GraphInv) and what moves behind the figures      *)
(* (MotionLadder, from MotionInv): for any shots, casts, scripts and       *)
(* clips, any number of passes and changes between them, under every fault.*)
(***************************************************************************)
EXTENDS VideoNode, FiniteSetTheorems, SequenceTheorems, WellFoundedInduction, TLAPS

-----------------------------------------------------------------------------
(* What is filed of what was found. *)

LEMMA SmallerSubset ==
  ASSUME NEW S, IsFiniteSet(S), NEW n \in Nat, n <= Cardinality(S)
  PROVE  \E few \in SUBSET S : Cardinality(few) = n
<1>1. Cardinality(S) \in Nat /\ ExistsBijection(1 .. Cardinality(S), S)
  BY FS_CardinalityType
<1>2. PICK f \in Bijection(1 .. Cardinality(S), S) : TRUE
  BY <1>1 DEF ExistsBijection
<1>3. f \in [1 .. Cardinality(S) -> S] /\ \A i, j \in 1 .. Cardinality(S) : f[i] = f[j] => i = j
  BY <1>2 DEF Bijection, Injection, Surjection, IsInjective
<1> DEFINE few == {f[i] : i \in 1 .. n}
           g == [i \in 1 .. n |-> f[i]]
<1>4. few \in SUBSET S
  BY <1>1, <1>3
<1>5. g \in [1 .. n -> few] /\ (\A i, j \in 1 .. n : g[i] = g[j] => i = j)
      /\ \A x \in few : \E i \in 1 .. n : g[i] = x
  BY <1>1, <1>3
<1>6. g \in Bijection(1 .. n, few)
  BY <1>5 DEF Bijection, Injection, Surjection, IsInjective
<1>7. Cardinality(few) = n
  BY <1>6, FS_CountingElements DEF ExistsBijection
<1> QED  BY <1>4, <1>7

\* Every row found is filed, itself or in the count; nothing else is.
LEMMA FiledIsFound ==
  ASSUME IsFiniteSet(found)
  PROVE  /\ \A row \in found : row \in Filed \/ <<row[1], 0>> \in Filed
         /\ \A row \in Filed : row \in found \/ row = <<row[1], 0>>
<1> DEFINE named(code) == {row \in found : row[1] = code}
<1>1. ASSUME NEW code
      PROVE  IF Cardinality(named(code)) <= MaxSamples THEN Capped(code, found) = named(code)
             ELSE <<code, 0>> \in Capped(code, found) /\ Capped(code, found) \subseteq {<<code, 0>>} \cup found
  <2>1. IsFiniteSet(named(code))
    BY FS_Subset
  <2>2. Cardinality(named(code)) \in Nat /\ MaxSamples \in Nat
    BY <2>1, FS_CardinalityType, SamplesKnown
  <2>3. CASE ~(Cardinality(named(code)) <= MaxSamples)
    <3> DEFINE few == CHOOSE few \in SUBSET named(code) : Cardinality(few) = MaxSamples
    <3>1. \E x \in SUBSET named(code) : Cardinality(x) = MaxSamples
      BY <2>1, <2>2, <2>3, SmallerSubset
    <3>2. few \in SUBSET named(code)
      BY <3>1
    <3>3. Capped(code, found) = {<<code, 0>>} \cup few
      BY <2>3 DEF Capped
    <3> QED  BY <2>3, <3>2, <3>3
  <2>4. CASE Cardinality(named(code)) <= MaxSamples
    BY <2>4 DEF Capped
  <2> QED  BY <2>3, <2>4
<1>2. ASSUME NEW row \in found PROVE row \in Filed \/ <<row[1], 0>> \in Filed
  <2>1. row \in Capped(row[1], found) \/ <<row[1], 0>> \in Capped(row[1], found)
    BY <1>1
  <2> QED  BY <2>1 DEF Filed
<1>3. ASSUME NEW row \in Filed PROVE row \in found \/ row = <<row[1], 0>>
  <2>1. PICK code : row \in Capped(code, found)
    BY DEF Filed
  <2>2. row \in found \/ row = <<code, 0>>
    BY <1>1, <2>1
  <2> QED  BY <2>2
<1> QED  BY <1>2, <1>3

LEMMA CastRowsAreFinite ==
  ASSUME NEW hits PROVE IsFiniteSet(CastRows(hits))
<1> DEFINE casts == {Cast[s] : s \in Shot}
           keys == UNION casts
           named == {<<"missing", at2[1], at2[2]>> : at2 \in Shot \X keys}
           f == [s \in Shot |-> Cast[s]]
           g == [at2 \in Shot \X keys |-> <<"missing", at2[1], at2[2]>>]
<1>1. IsFiniteSet(Shot)
  BY CastKnown, FS_Interval DEF Shot
<1>2. f \in Surjection(Shot, casts)
  BY DEF Surjection
<1>3. IsFiniteSet(casts)
  BY <1>1, <1>2, FS_Surjection
<1>4. IsFiniteSet(keys)
  BY <1>3, CastKnown, FS_UNION
<1>5. IsFiniteSet(Shot \X keys)
  BY <1>1, <1>4, FS_Product
<1>6. g \in Surjection(Shot \X keys, named)
  BY DEF Surjection
<1>7. IsFiniteSet(named)
  BY <1>5, <1>6, FS_Surjection
<1>8. CastRows(hits) \subseteq named
  <2>1. SUFFICES ASSUME NEW s \in Shot, NEW k \in Cast[s] PROVE <<"missing", s, k>> \in named
    BY DEF CastRows
  <2>2. <<s, k>> \in Shot \X keys
    BY CastKnown
  <2> QED  BY <2>2
<1> QED  BY <1>7, <1>8, FS_Subset

-----------------------------------------------------------------------------
(* The state. *)

Footage == [plate : Int, cast : SUBSET STRING, place : Int]

FiguresTypeOK ==
  /\ enabled \in BOOLEAN /\ graph \in Nat
  /\ plate \in [Shot -> Nat] /\ place \in [Shot -> Int]
  /\ path \in [Shot -> Footage] /\ saved \in [Shot -> Footage]
  /\ block \in [Shot -> [digest : Footage, graph : Int, cast : SUBSET STRING]]
  /\ step \in {"idle", "begun", "resolved", "sweep", "stamp", "compose", "shipped"}
  /\ at \in 1 .. Shots + 1
  /\ cards \in [Shot -> SUBSET STRING] /\ \A s \in Shot : cards[s] \subseteq Cast[s]
  /\ overlaid \subseteq {s \in Shot : cards[s] # {}}
  /\ IsFiniteSet(found)
  /\ unsaid \subseteq Shot /\ retract \in BOOLEAN

\* Before the cast is resolved a pass has found nothing.
Fresh ==
  step \in {"idle", "begun"} =>
    cards = Nothing /\ overlaid = {} /\ found = {} /\ unsaid = {} /\ ~retract
FromTheFirst == step \in {"idle", "begun", "resolved"} => at = 1

\* Whoever is not in a frame has a row by name, or is in the count.
IsRow(s, k, filed) == filed \cap {<<"missing", s, k>>, <<"missing", 0>>} # {}
SavedIsTold ==
  \A s \in Shot : saved[s] # Plate =>
    \A k \in Cast[s] \ saved[s].cast : IsRow(s, k, rows)
PathIsTold ==
  \A s \in Shot : path[s] # Plate =>
    \A k \in Cast[s] \ path[s].cast : IsRow(s, k, rows) \/ <<"missing", s, k>> \in found
PathIsSaved == Idle => path = saved

\* Once it is resolved, whoever has no card is among what was found.
CastIsTold ==
  step \notin {"idle", "begun"} =>
    \A s \in Shot : \A k \in Cast[s] \ cards[s] : <<"missing", s, k>> \in found
UnsaidIsFound == \A s \in Shot : s \in unsaid <=> <<"unsaid", s>> \in found

\* The shots a sweep took, and those it passed.
TakenIsDrawn ==
  step \notin {"idle", "begun"} =>
    \A s \in Shot : SweptHere(s) =>
      /\ Recomposed(s) /\ (s \in unsaid \/ block[s].digest = path[s])
      /\ step \notin {"resolved"}
      /\ step \in {"compose", "shipped"} => retract
PassedIsLeft ==
  /\ step \in {"sweep", "stamp"} =>
       \A s \in overlaid : s < at /\ Recomposed(s) => ~(cards[s] \subseteq Looks)
  /\ step \in {"compose", "shipped"} =>
       \A s \in overlaid : Recomposed(s) =>
         ~enabled \/ <<"preflight">> \in found \/ ~(cards[s] \subseteq Looks)
FrameIsThere ==
  step = "stamp" =>
    at \in Shot /\ cards[at] # {} /\ [shot |-> at, digest |-> Digest(at), graph |-> graph] \in frames

FiguresInv ==
  /\ FiguresTypeOK
  /\ Fresh /\ FromTheFirst /\ SavedIsTold /\ PathIsTold /\ PathIsSaved
  /\ CastIsTold /\ UnsaidIsFound /\ TakenIsDrawn /\ PassedIsLeft /\ FrameIsThere
  /\ SeenOnceOrTold /\ AttributionIsTrue

LEMMA FiguresConstants ==
  /\ Plate \in Footage /\ [s \in Shot |-> Plate] \in [Shot -> Footage]
  /\ NoBlock \in [digest : Footage, graph : Int, cast : SUBSET STRING]
  /\ [s \in Shot |-> NoBlock] \in [Shot -> [digest : Footage, graph : Int, cast : SUBSET STRING]]
  /\ Nothing \in [Shot -> SUBSET STRING] /\ \A s \in Shot : Nothing[s] = {}
  /\ 1 \in 1 .. Shots + 1 /\ \A s \in Shot : s \in 1 .. Shots + 1 /\ s + 1 \in 1 .. Shots + 1
<1>1. Plate \in Footage
  BY DEF Plate, Footage
<1>2. NoBlock \in [digest : Footage, graph : Int, cast : SUBSET STRING]
  BY <1>1 DEF NoBlock, NoGraph
<1>3. Nothing \in [Shot -> SUBSET STRING] /\ \A s \in Shot : Nothing[s] = {}
  BY DEF Nothing
<1> QED  BY <1>1, <1>2, <1>3, CastKnown DEF Shot

LEMMA FiguresBegin == ASSUME FiguresInit PROVE FiguresInv
<1>1. IsFiniteSet({})
  BY FS_EmptySet
<1>2. FiguresTypeOK
  <2>1. plate \in [Shot -> Nat] /\ place \in [Shot -> Int] /\ path \in [Shot -> Footage] /\ saved \in [Shot -> Footage]
    BY FiguresConstants DEF FiguresInit
  <2>2. enabled \in BOOLEAN /\ graph \in Nat /\ retract \in BOOLEAN /\ IsFiniteSet(found)
    BY <1>1 DEF FiguresInit
  <2> QED  BY <2>1, <2>2, FiguresConstants DEF FiguresInit, FiguresTypeOK
<1>3. Fresh /\ FromTheFirst /\ SavedIsTold /\ PathIsTold /\ PathIsSaved
  BY DEF FiguresInit, Fresh, FromTheFirst, SavedIsTold, PathIsTold, PathIsSaved
<1>4. CastIsTold /\ UnsaidIsFound /\ TakenIsDrawn /\ PassedIsLeft /\ FrameIsThere
  BY DEF FiguresInit, CastIsTold, UnsaidIsFound, TakenIsDrawn, PassedIsLeft, FrameIsThere
<1>5. SeenOnceOrTold /\ AttributionIsTrue
  BY DEF FiguresInit, SeenOnceOrTold, AttributionIsTrue, AbsenceIsTold, TwiceOnlyIfLeftAlone,
     LostAttributionIsTold, BlocksAreTrue, Shipped
<1> QED  BY <1>2, <1>3, <1>4, <1>5 DEF FiguresInv

\* stamp, of the frame new.digest of the shot s, and the next shot.
LEMMA StampKeeps ==
  ASSUME FiguresInv, step \in {"sweep", "stamp"},
         NEW s \in Shot, s = at, cards[s] # {},
         NEW new \in [digest : Footage, graph : Int, cast : SUBSET STRING], NEW overwrite \in BOOLEAN,
         new.digest # Plate,
         new.graph # NoGraph => \E frame \in Drawn(s, new.digest) : frame.graph = new.graph,
         new.cast \in {{}, new.digest.cast},
         \A k \in Cast[s] \ new.digest.cast : IsRow(s, k, rows) \/ <<"missing", s, k>> \in found,
         Stamp(s, new, overwrite), step' = "sweep", at' = at + 1,
         UNCHANGED <<settings, plate, frames, saved, rows, cards, retract, rounds>>
  PROVE  FiguresInv'
<1> USE DEF FiguresInv
<1>1. path' = [path EXCEPT ![s] = new.digest] /\ overlaid' = overlaid \ {s}
  BY DEF Stamp, Took
<1>2. \/ /\ block' = [block EXCEPT ![s] = IF Keeps(s, new, overwrite) THEN block[s] ELSE new]
         /\ unsaid' = unsaid /\ found' = found
      \/ block' = block /\ unsaid' = unsaid \cup {s} /\ found' = found \cup {<<"unsaid", s>>}
  BY DEF Stamp, Took, FiguresTypeOK
<1>3. /\ block' \in [Shot -> [digest : Footage, graph : Int, cast : SUBSET STRING]]
      /\ block'[s] \in {block[s], new} /\ \A t \in Shot \ {s} : block'[t] = block[t]
      /\ s \in unsaid' \/ block'[s].digest = new.digest
  BY <1>2 DEF FiguresTypeOK, Keeps
<1>4. /\ found \subseteq found' /\ IsFiniteSet(found') /\ unsaid' \subseteq Shot /\ unsaid \subseteq unsaid'
      /\ UnsaidIsFound'
  <2>1. CASE unsaid' = unsaid /\ found' = found
    BY <2>1 DEF FiguresTypeOK, UnsaidIsFound
  <2>2. CASE unsaid' = unsaid \cup {s} /\ found' = found \cup {<<"unsaid", s>>}
    <3>1. IsFiniteSet(found')
      BY <2>2, FS_AddElement DEF FiguresTypeOK
    <3>2. ASSUME NEW u \in Shot PROVE u \in unsaid' <=> <<"unsaid", u>> \in found'
      <4>1. <<"unsaid", u>> = <<"unsaid", s>> <=> u = s
        OBVIOUS
      <4> QED  BY <2>2, <4>1 DEF UnsaidIsFound
    <3> QED  BY <2>2, <3>1, <3>2 DEF FiguresTypeOK, UnsaidIsFound
  <2> QED  BY <1>2, <2>1, <2>2
<1>5. /\ path' \in [Shot -> Footage] /\ path'[s] = new.digest /\ \A t \in Shot \ {s} : path'[t] = path[t]
  BY <1>1 DEF FiguresTypeOK
<1>6. FiguresTypeOK'
  BY <1>1, <1>3, <1>4, <1>5, FiguresConstants DEF FiguresTypeOK, settings
<1>7. Fresh' /\ FromTheFirst' /\ PathIsSaved' /\ SavedIsTold' /\ FrameIsThere'
  BY DEF Fresh, FromTheFirst, PathIsSaved, SavedIsTold, FrameIsThere, Idle
<1>8. PathIsTold'
  BY <1>4, <1>5 DEF PathIsTold, IsRow
<1>9. CastIsTold'
  BY <1>4 DEF CastIsTold
<1>10. TakenIsDrawn'
  BY <1>1, <1>3, <1>4, <1>5 DEF TakenIsDrawn, SweptHere, Recomposed
<1>11. PassedIsLeft'
  <2>1. \A t \in Shot : t < at + 1 => t < at \/ t = s
    BY CastKnown DEF FiguresTypeOK, Shot
  <2>2. \A t \in overlaid' : t \in Shot \ {s} /\ t \in overlaid
    BY <1>1 DEF FiguresTypeOK
  <2> QED  BY <1>5, <2>1, <2>2 DEF PassedIsLeft, Recomposed
<1>12. BlocksAreTrue'
  <2>1. \A t \in Shot : block[t] # NoBlock =>
          /\ block[t].graph # NoGraph => \E frame \in Drawn(t, block[t].digest) : frame.graph = block[t].graph
          /\ block[t].cast \in {{}, block[t].digest.cast}
    BY DEF AttributionIsTrue, BlocksAreTrue
  <2>2. \A t \in Shot : \A digest : Drawn(t, digest)' = Drawn(t, digest)
    BY DEF Drawn
  <2>3. \A t \in Shot : block'[t] # NoBlock =>
          /\ block'[t].graph # NoGraph => \E frame \in Drawn(t, block'[t].digest) : frame.graph = block'[t].graph
          /\ block'[t].cast \in {{}, block'[t].digest.cast}
    BY <1>3, <2>1
  <2> QED  BY <2>2, <2>3 DEF BlocksAreTrue, Drawn
<1>13. SeenOnceOrTold' /\ LostAttributionIsTold'
  BY DEF SeenOnceOrTold, AbsenceIsTold, TwiceOnlyIfLeftAlone, LostAttributionIsTold, Shipped
<1> QED  BY <1>4, <1>6, <1>7, <1>8, <1>9, <1>10, <1>11, <1>12, <1>13 DEF AttributionIsTrue

\* What is told stays told when the pass files its rows.
LEMMA MergedIsTold ==
  ASSUME IsFiniteSet(found)
  PROVE  \A s, k : IsRow(s, k, rows) \/ <<"missing", s, k>> \in found => IsRow(s, k, Merged(rows))
<1>1. \A row \in rows : row[1] = "missing" => row \in Merged(rows)
  BY DEF Merged, Kept
<1>2. \A row \in found : row \in Merged(rows) \/ <<row[1], 0>> \in Merged(rows)
  BY FiledIsFound DEF Merged
<1>3. ASSUME NEW s, NEW k, <<"missing", s, k>> \in found PROVE IsRow(s, k, Merged(rows))
  <2>1. <<"missing", s, k>>[1] = "missing"
    OBVIOUS
  <2> QED  BY <1>2, <1>3, <2>1 DEF IsRow
<1>4. ASSUME NEW s, NEW k, IsRow(s, k, rows) PROVE IsRow(s, k, Merged(rows))
  <2>1. <<"missing", s, k>>[1] = "missing" /\ <<"missing", 0>>[1] = "missing"
    OBVIOUS
  <2> QED  BY <1>1, <1>4, <2>1 DEF IsRow
<1> QED  BY <1>3, <1>4

LEMMA ShipKeeps == ASSUME FiguresInv, Ship PROVE FiguresInv'
<1> USE DEF FiguresInv
<1>1. FiguresTypeOK' /\ Fresh' /\ FromTheFirst' /\ PathIsSaved' /\ FrameIsThere'
  BY DEF Ship, FiguresTypeOK, Fresh, FromTheFirst, PathIsSaved, FrameIsThere, settings,
    files, pass
<1>2. IsFiniteSet(found) /\ \A s, k : IsRow(s, k, rows) \/ <<"missing", s, k>> \in found => IsRow(s, k, Merged(rows))
  BY MergedIsTold DEF FiguresTypeOK
<1>3. \A s \in Shot : path[s] # Plate => \A k \in Cast[s] \ path[s].cast : IsRow(s, k, rows')
  BY <1>2 DEF Ship, PathIsTold
<1>4. SavedIsTold' /\ PathIsTold'
  BY <1>3 DEF Ship, SavedIsTold, PathIsTold, IsRow
<1>5. CastIsTold' /\ UnsaidIsFound' /\ TakenIsDrawn' /\ PassedIsLeft'
  BY DEF Ship, CastIsTold, UnsaidIsFound, TakenIsDrawn, PassedIsLeft, settings, files, pass,
     SweptHere, Recomposed
<1>6. BlocksAreTrue'
  BY DEF Ship, AttributionIsTrue, BlocksAreTrue, Drawn, files
<1>7. AbsenceIsTold'
  <2>1. SUFFICES ASSUME NEW s \in Shot, NEW k \in Cast[s]
        PROVE  \/ k \in InFrame(s)' \cup InOverlay(s)'
               \/ rows' \cap {<<"missing", s, k>>, <<"missing", 0>>, <<"unresolved">>} # {}
    BY DEF AbsenceIsTold
  <2>2. CASE k \notin cards[s]
    <3>1. <<"missing", s, k>> \in found
      BY <2>2 DEF Ship, CastIsTold
    <3>2. IsRow(s, k, rows')
      BY <1>2, <3>1 DEF Ship
    <3> QED  BY <3>2 DEF IsRow
  <2>3. CASE k \in cards[s] /\ s \in overlaid
    BY <2>3 DEF Ship, InOverlay, pass
  <2>4. CASE k \in cards[s] /\ s \notin overlaid
    <3>1. path[s] # Plate
      BY <2>4 DEF TakenIsDrawn, SweptHere, Recomposed, Ship
    <3> QED  BY <1>3, <3>1 DEF Ship, InFrame, Recomposed, IsRow
  <2> QED  BY <2>2, <2>3, <2>4
<1>8. TwiceOnlyIfLeftAlone'
  BY DEF Ship, TwiceOnlyIfLeftAlone, PassedIsLeft, InFrame, InOverlay, Recomposed, settings,
    pass
<1>9. LostAttributionIsTold'
  <2>1. SUFFICES ASSUME NEW s \in Shot, SweptHere(s)', Recomposed(s)'
        PROVE  /\ (block[s].digest # path[s])' => rows' \cap {<<"unsaid", s>>, <<"unsaid", 0>>} # {}
               /\ <<"unsaid", s>> \in rows' => s \in unsaid'
               /\ s \notin unsaid' => (block[s].digest = path[s])'
    BY DEF LostAttributionIsTold
  <2>2. SweptHere(s) /\ block' = block /\ path' = path /\ unsaid' = unsaid /\ step = "compose" /\ rows' = Merged(rows)
    BY <2>1 DEF Ship, SweptHere, pass, files
  <2>3. retract /\ (s \in unsaid \/ block[s].digest = path[s])
    BY <2>2 DEF TakenIsDrawn
  <2>4. <<"unsaid", s>>[1] = "unsaid" /\ <<"unsaid", s>>[2] = s /\ <<"unsaid", s>> # <<"unsaid", 0>>
    BY CastKnown DEF Shot
  <2>5. s \in unsaid => <<"unsaid", s>> \in rows' \/ <<"unsaid", 0>> \in rows'
    BY <1>2, <2>2, <2>4, FiledIsFound DEF UnsaidIsFound, Merged
  <2>6. <<"unsaid", s>> \in rows' => s \in unsaid
    <3>1. <<"unsaid", s>> \in Kept(rows) => s \in unsaid
      BY <2>3, <2>4 DEF Kept
    <3>2. <<"unsaid", s>> \in Filed => s \in unsaid
      BY <1>2, <2>4, FiledIsFound DEF UnsaidIsFound
    <3> QED  BY <2>2, <3>1, <3>2 DEF Merged
  <2> QED  BY <2>2, <2>3, <2>5, <2>6
<1> QED  BY <1>1, <1>4, <1>5, <1>6, <1>7, <1>8, <1>9 DEF SeenOnceOrTold, AttributionIsTrue

LEMMA FailKeeps == ASSUME FiguresInv, Fail PROVE FiguresInv'
<1> USE DEF FiguresInv
<1>1. FiguresTypeOK'
  BY FiguresConstants, FS_EmptySet DEF Fail, FiguresTypeOK, settings, files, Over
<1>2. IsFiniteSet(found) /\ \A s, k : IsRow(s, k, rows) \/ <<"missing", s, k>> \in found => IsRow(s, k, Merged(rows))
  BY MergedIsTold DEF FiguresTypeOK
<1>3. \A s \in Shot : path[s] # Plate => \A k \in Cast[s] \ path[s].cast : IsRow(s, k, rows')
  BY <1>2 DEF Fail, PathIsTold
<1>4. SavedIsTold' /\ PathIsTold'
  BY <1>3 DEF Fail, SavedIsTold, PathIsTold, IsRow
<1>5. Fresh' /\ FromTheFirst' /\ PathIsSaved' /\ CastIsTold' /\ UnsaidIsFound'
  BY DEF Fail, Over, Fresh, FromTheFirst, PathIsSaved, CastIsTold, UnsaidIsFound
<1>6. TakenIsDrawn' /\ PassedIsLeft' /\ FrameIsThere'
  BY DEF Fail, Over, TakenIsDrawn, PassedIsLeft, FrameIsThere
<1>7. SeenOnceOrTold' /\ AttributionIsTrue'
  BY DEF Fail, SeenOnceOrTold, AttributionIsTrue, AbsenceIsTold, TwiceOnlyIfLeftAlone,
     LostAttributionIsTold, BlocksAreTrue, Shipped, files, Drawn
<1> QED  BY <1>1, <1>4, <1>5, <1>6, <1>7

LEMMA FiguresStep == ASSUME FiguresInv, [FiguresNext]_figuresVars PROVE FiguresInv'
<1> USE DEF FiguresInv
<1>1. CASE Redo
  <2>0. IsFiniteSet(found')
    BY <1>1, FS_EmptySet, FS_AddElement, FS_Union, FS_Singleton, CastRowsAreFinite DEF Redo,
      FiguresTypeOK, Over, Idle, settings, files, pass
  <2>1. FiguresTypeOK'
    <3>1. PICK fresh \in {0, 1} : plate' = [s \in Shot |-> plate[s] + fresh]
      BY <1>1 DEF Redo
    <3>2. plate' \in [Shot -> Nat]
      BY <3>1 DEF FiguresTypeOK
    <3> QED  BY <1>1, <2>0, <3>2, FiguresConstants DEF Redo, FiguresTypeOK, Over, settings
  <2>2. Fresh' /\ FromTheFirst' /\ PathIsSaved' /\ SavedIsTold' /\ PathIsTold'
    BY <1>1 DEF Redo, Fresh, FromTheFirst, PathIsSaved, SavedIsTold, PathIsTold,
      FiguresTypeOK, Over, Idle, settings, files, pass, Idle, IsRow
  <2>3. CastIsTold' /\ UnsaidIsFound'
    BY <1>1 DEF Redo, Fresh, CastIsTold, UnsaidIsFound, FiguresTypeOK, Over, Idle, settings,
      files, pass
  <2>4. TakenIsDrawn' /\ PassedIsLeft' /\ FrameIsThere'
    BY <1>1, CastKnown DEF Redo, Fresh, FromTheFirst, TakenIsDrawn, PassedIsLeft,
      FrameIsThere, FiguresTypeOK, Over, Idle, settings, files, pass, SweptHere, Recomposed,
      Digest, Shot
  <2>5. SeenOnceOrTold' /\ AttributionIsTrue'
    BY <1>1 DEF Redo, SeenOnceOrTold, AttributionIsTrue, AbsenceIsTold, TwiceOnlyIfLeftAlone,
      LostAttributionIsTold, BlocksAreTrue, Shipped, FiguresTypeOK, Over, Idle, settings,
      files, pass, Drawn
  <2> QED  BY <2>1, <2>2, <2>3, <2>4, <2>5
<1>2. CASE Redraft
  <2>0. IsFiniteSet(found')
    BY <1>2, FS_EmptySet, FS_AddElement, FS_Union, FS_Singleton, CastRowsAreFinite
      DEF Redraft, FiguresTypeOK, Over, Idle, settings, files, pass
  <2>1. FiguresTypeOK'
    <3>1. PICK s \in Shot : place' = [place EXCEPT ![s] = 1 - @]
      BY <1>2 DEF Redraft
    <3>2. place' \in [Shot -> Int]
      BY <3>1 DEF FiguresTypeOK
    <3> QED  BY <1>2, <2>0, <3>2, FiguresConstants DEF Redraft, FiguresTypeOK, Over, files
  <2>2. Fresh' /\ FromTheFirst' /\ PathIsSaved' /\ SavedIsTold' /\ PathIsTold'
    BY <1>2 DEF Redraft, Fresh, FromTheFirst, PathIsSaved, SavedIsTold, PathIsTold,
      FiguresTypeOK, Over, Idle, settings, files, pass, Idle, IsRow
  <2>3. CastIsTold' /\ UnsaidIsFound'
    BY <1>2 DEF Redraft, Fresh, CastIsTold, UnsaidIsFound, FiguresTypeOK, Over, Idle,
      settings, files, pass
  <2>4. TakenIsDrawn' /\ PassedIsLeft' /\ FrameIsThere'
    BY <1>2, CastKnown DEF Redraft, Fresh, FromTheFirst, TakenIsDrawn, PassedIsLeft,
      FrameIsThere, FiguresTypeOK, Over, Idle, settings, files, pass, SweptHere, Recomposed,
      Digest, Shot
  <2>5. SeenOnceOrTold' /\ AttributionIsTrue'
    BY <1>2 DEF Redraft, SeenOnceOrTold, AttributionIsTrue, AbsenceIsTold,
      TwiceOnlyIfLeftAlone, LostAttributionIsTold, BlocksAreTrue, Shipped, FiguresTypeOK,
      Over, Idle, settings, files, pass, Drawn
  <2> QED  BY <2>1, <2>2, <2>3, <2>4, <2>5
<1>3. CASE NewGraph
  <2>0. IsFiniteSet(found')
    BY <1>3, FS_EmptySet, FS_AddElement, FS_Union, FS_Singleton, CastRowsAreFinite
      DEF NewGraph, FiguresTypeOK, Over, Idle, settings, files, pass
  <2>1. FiguresTypeOK'
    <3>1. graph' \in Nat
      BY <1>3 DEF NewGraph, FiguresTypeOK
    <3> QED  BY <1>3, <2>0, <3>1, FiguresConstants DEF NewGraph, FiguresTypeOK, Over, files
  <2>2. Fresh' /\ FromTheFirst' /\ PathIsSaved' /\ SavedIsTold' /\ PathIsTold'
    BY <1>3 DEF NewGraph, Fresh, FromTheFirst, PathIsSaved, SavedIsTold, PathIsTold,
      FiguresTypeOK, Over, Idle, settings, files, pass, Idle, IsRow
  <2>3. CastIsTold' /\ UnsaidIsFound'
    BY <1>3 DEF NewGraph, Fresh, CastIsTold, UnsaidIsFound, FiguresTypeOK, Over, Idle,
      settings, files, pass
  <2>4. TakenIsDrawn' /\ PassedIsLeft' /\ FrameIsThere'
    BY <1>3, CastKnown DEF NewGraph, Fresh, FromTheFirst, TakenIsDrawn, PassedIsLeft,
      FrameIsThere, FiguresTypeOK, Over, Idle, settings, files, pass, SweptHere, Recomposed,
      Digest, Shot
  <2>5. SeenOnceOrTold' /\ AttributionIsTrue'
    BY <1>3 DEF NewGraph, SeenOnceOrTold, AttributionIsTrue, AbsenceIsTold,
      TwiceOnlyIfLeftAlone, LostAttributionIsTold, BlocksAreTrue, Shipped, FiguresTypeOK,
      Over, Idle, settings, files, pass, Drawn
  <2> QED  BY <2>1, <2>2, <2>3, <2>4, <2>5
<1>4. CASE SwitchOff
  <2>0. IsFiniteSet(found')
    BY <1>4, FS_EmptySet, FS_AddElement, FS_Union, FS_Singleton, CastRowsAreFinite
      DEF SwitchOff, FiguresTypeOK, Over, Idle, settings, files, pass
  <2>1. FiguresTypeOK'
    BY <1>4, <2>0, FiguresConstants DEF SwitchOff, FiguresTypeOK, Over, Idle, settings,
      files, pass
  <2>2. Fresh' /\ FromTheFirst' /\ PathIsSaved' /\ SavedIsTold' /\ PathIsTold'
    BY <1>4 DEF SwitchOff, Fresh, FromTheFirst, PathIsSaved, SavedIsTold, PathIsTold,
      FiguresTypeOK, Over, Idle, settings, files, pass, Idle, IsRow
  <2>3. CastIsTold' /\ UnsaidIsFound'
    BY <1>4 DEF SwitchOff, Fresh, CastIsTold, UnsaidIsFound, FiguresTypeOK, Over, Idle,
      settings, files, pass
  <2>4. TakenIsDrawn' /\ PassedIsLeft' /\ FrameIsThere'
    BY <1>4, CastKnown DEF SwitchOff, Fresh, FromTheFirst, TakenIsDrawn, PassedIsLeft,
      FrameIsThere, FiguresTypeOK, Over, Idle, settings, files, pass, SweptHere, Recomposed,
      Digest, Shot
  <2>5. SeenOnceOrTold' /\ AttributionIsTrue'
    BY <1>4 DEF SwitchOff, SeenOnceOrTold, AttributionIsTrue, AbsenceIsTold,
      TwiceOnlyIfLeftAlone, LostAttributionIsTold, BlocksAreTrue, Shipped, FiguresTypeOK,
      Over, Idle, settings, files, pass, Drawn
  <2> QED  BY <2>1, <2>2, <2>3, <2>4, <2>5
<1>5. CASE Begin
  <2>0. IsFiniteSet(found')
    BY <1>5, FS_EmptySet, FS_AddElement, FS_Union, FS_Singleton, CastRowsAreFinite DEF Begin,
      FiguresTypeOK, Over, Idle, settings, files, pass
  <2>1. FiguresTypeOK'
    BY <1>5, <2>0, FiguresConstants DEF Begin, FiguresTypeOK, Over, Idle, settings, files, pass
  <2>2. Fresh' /\ FromTheFirst' /\ PathIsSaved' /\ SavedIsTold' /\ PathIsTold'
    BY <1>5 DEF Begin, Fresh, FromTheFirst, PathIsSaved, SavedIsTold, PathIsTold,
      FiguresTypeOK, Over, Idle, settings, files, pass, Idle, IsRow
  <2>3. CastIsTold' /\ UnsaidIsFound'
    BY <1>5 DEF Begin, Fresh, CastIsTold, UnsaidIsFound, FiguresTypeOK, Over, Idle, settings,
      files, pass
  <2>4. TakenIsDrawn' /\ PassedIsLeft' /\ FrameIsThere'
    BY <1>5, CastKnown DEF Begin, Fresh, FromTheFirst, TakenIsDrawn, PassedIsLeft,
      FrameIsThere, FiguresTypeOK, Over, Idle, settings, files, pass, SweptHere, Recomposed,
      Digest, Shot
  <2>5. SeenOnceOrTold' /\ AttributionIsTrue'
    BY <1>5 DEF Begin, SeenOnceOrTold, AttributionIsTrue, AbsenceIsTold,
      TwiceOnlyIfLeftAlone, LostAttributionIsTold, BlocksAreTrue, Shipped, FiguresTypeOK,
      Over, Idle, settings, files, pass, Drawn
  <2> QED  BY <2>1, <2>2, <2>3, <2>4, <2>5
<1>6. CASE Resolve
  <2>0. IsFiniteSet(found')
    BY <1>6, FS_EmptySet, FS_AddElement, FS_Union, FS_Singleton, CastRowsAreFinite
      DEF Resolve, FiguresTypeOK, settings, files, pass
  <2>1. FiguresTypeOK'
    <3>1. PICK hits \in [Shot -> SUBSET UNION {Cast[s] : s \in Shot}] :
            /\ \A s \in Shot : hits[s] \subseteq Cast[s]
            /\ cards' = hits /\ overlaid' = {s \in Shot : hits[s] # {}}
      BY <1>6 DEF Resolve
    <3>2. cards' \in [Shot -> SUBSET STRING] /\ \A s \in Shot : cards'[s] \subseteq Cast[s]
      BY <3>1, CastKnown
    <3>3. overlaid' \subseteq {s \in Shot : cards'[s] # {}}
      BY <3>1
    <3> QED  BY <1>6, <2>0, <3>2, <3>3 DEF Resolve, FiguresTypeOK, settings, files
  <2>2. Fresh' /\ FromTheFirst' /\ PathIsSaved' /\ SavedIsTold' /\ PathIsTold'
    BY <1>6 DEF Resolve, Fresh, FromTheFirst, PathIsSaved, SavedIsTold, PathIsTold,
      FiguresTypeOK, settings, files, pass, Idle, IsRow
  <2>3. CastIsTold' /\ UnsaidIsFound'
    BY <1>6 DEF Resolve, Fresh, CastIsTold, UnsaidIsFound, FiguresTypeOK, settings, files,
      pass, CastRows, Nothing
  <2>4. TakenIsDrawn' /\ PassedIsLeft' /\ FrameIsThere'
    BY <1>6, CastKnown DEF Resolve, Fresh, FromTheFirst, TakenIsDrawn, PassedIsLeft,
      FrameIsThere, FiguresTypeOK, settings, files, pass, SweptHere, Recomposed, Digest,
      Shot, Nothing
  <2>5. SeenOnceOrTold' /\ AttributionIsTrue'
    BY <1>6 DEF Resolve, SeenOnceOrTold, AttributionIsTrue, AbsenceIsTold,
      TwiceOnlyIfLeftAlone, LostAttributionIsTold, BlocksAreTrue, Shipped, FiguresTypeOK,
      settings, files, pass, Drawn
  <2> QED  BY <2>1, <2>2, <2>3, <2>4, <2>5
<1>7. CASE ResolverRaises
  <2>0. IsFiniteSet(found')
    BY <1>7, FS_EmptySet, FS_AddElement, FS_Union, FS_Singleton, CastRowsAreFinite
      DEF ResolverRaises, FiguresTypeOK, settings, files, pass
  <2>1. FiguresTypeOK'
    BY <1>7, <2>0, FiguresConstants DEF ResolverRaises, FiguresTypeOK, settings, files, pass
  <2>2. Fresh' /\ FromTheFirst' /\ PathIsSaved' /\ SavedIsTold' /\ PathIsTold'
    BY <1>7 DEF ResolverRaises, Fresh, FromTheFirst, PathIsSaved, SavedIsTold, PathIsTold,
      FiguresTypeOK, settings, files, pass, Idle, IsRow
  <2>3. CastIsTold' /\ UnsaidIsFound'
    BY <1>7 DEF ResolverRaises, Fresh, CastIsTold, UnsaidIsFound, FiguresTypeOK, settings,
      files, pass, CastRows, Nothing
  <2>4. TakenIsDrawn' /\ PassedIsLeft' /\ FrameIsThere'
    BY <1>7, CastKnown DEF ResolverRaises, Fresh, FromTheFirst, TakenIsDrawn, PassedIsLeft,
      FrameIsThere, FiguresTypeOK, settings, files, pass, SweptHere, Recomposed, Digest,
      Shot, Nothing
  <2>5. SeenOnceOrTold' /\ AttributionIsTrue'
    BY <1>7 DEF ResolverRaises, SeenOnceOrTold, AttributionIsTrue, AbsenceIsTold,
      TwiceOnlyIfLeftAlone, LostAttributionIsTold, BlocksAreTrue, Shipped, FiguresTypeOK,
      settings, files, pass, Drawn
  <2> QED  BY <2>1, <2>2, <2>3, <2>4, <2>5
<1>8. CASE NoSweep
  <2>0. IsFiniteSet(found')
    BY <1>8, FS_EmptySet, FS_AddElement, FS_Union, FS_Singleton, CastRowsAreFinite
      DEF NoSweep, FiguresTypeOK, settings, files, pass
  <2>1. FiguresTypeOK'
    BY <1>8, <2>0, FiguresConstants DEF NoSweep, FiguresTypeOK, settings, files, pass
  <2>2. Fresh' /\ FromTheFirst' /\ PathIsSaved' /\ SavedIsTold' /\ PathIsTold'
    BY <1>8 DEF NoSweep, Fresh, FromTheFirst, PathIsSaved, SavedIsTold, PathIsTold,
      FiguresTypeOK, settings, files, pass, Idle, IsRow
  <2>3. CastIsTold' /\ UnsaidIsFound'
    BY <1>8 DEF NoSweep, Fresh, CastIsTold, UnsaidIsFound, FiguresTypeOK, settings, files, pass
  <2>4. TakenIsDrawn' /\ PassedIsLeft' /\ FrameIsThere'
    BY <1>8, CastKnown DEF NoSweep, Fresh, FromTheFirst, TakenIsDrawn, PassedIsLeft,
      FrameIsThere, FiguresTypeOK, settings, files, pass, SweptHere, Recomposed, Digest, Shot
  <2>5. SeenOnceOrTold' /\ AttributionIsTrue'
    BY <1>8 DEF NoSweep, SeenOnceOrTold, AttributionIsTrue, AbsenceIsTold,
      TwiceOnlyIfLeftAlone, LostAttributionIsTold, BlocksAreTrue, Shipped, FiguresTypeOK,
      settings, files, pass, Drawn
  <2> QED  BY <2>1, <2>2, <2>3, <2>4, <2>5
<1>9. CASE Refused
  <2>0. IsFiniteSet(found')
    BY <1>9, FS_EmptySet, FS_AddElement, FS_Union, FS_Singleton, CastRowsAreFinite
      DEF Refused, FiguresTypeOK, settings, files, pass
  <2>1. FiguresTypeOK'
    BY <1>9, <2>0, FiguresConstants DEF Refused, FiguresTypeOK, settings, files, pass
  <2>2. Fresh' /\ FromTheFirst' /\ PathIsSaved' /\ SavedIsTold' /\ PathIsTold'
    BY <1>9 DEF Refused, Fresh, FromTheFirst, PathIsSaved, SavedIsTold, PathIsTold,
      FiguresTypeOK, settings, files, pass, Idle, IsRow
  <2>3. CastIsTold' /\ UnsaidIsFound'
    BY <1>9 DEF Refused, Fresh, CastIsTold, UnsaidIsFound, FiguresTypeOK, settings, files, pass
  <2>4. TakenIsDrawn' /\ PassedIsLeft' /\ FrameIsThere'
    BY <1>9, CastKnown DEF Refused, Fresh, FromTheFirst, TakenIsDrawn, PassedIsLeft,
      FrameIsThere, FiguresTypeOK, settings, files, pass, SweptHere, Recomposed, Digest, Shot
  <2>5. SeenOnceOrTold' /\ AttributionIsTrue'
    BY <1>9 DEF Refused, SeenOnceOrTold, AttributionIsTrue, AbsenceIsTold,
      TwiceOnlyIfLeftAlone, LostAttributionIsTold, BlocksAreTrue, Shipped, FiguresTypeOK,
      settings, files, pass, Drawn
  <2> QED  BY <2>1, <2>2, <2>3, <2>4, <2>5
<1>10. CASE RecomposeRaises
  <2>0. IsFiniteSet(found')
    BY <1>10, FS_EmptySet, FS_AddElement, FS_Union, FS_Singleton, CastRowsAreFinite
      DEF RecomposeRaises, FiguresTypeOK, settings, files, pass
  <2>1. FiguresTypeOK'
    BY <1>10, <2>0, FiguresConstants DEF RecomposeRaises, FiguresTypeOK, settings, files, pass
  <2>2. Fresh' /\ FromTheFirst' /\ PathIsSaved' /\ SavedIsTold' /\ PathIsTold'
    BY <1>10 DEF RecomposeRaises, Fresh, FromTheFirst, PathIsSaved, SavedIsTold, PathIsTold,
      FiguresTypeOK, settings, files, pass, Idle, IsRow
  <2>3. CastIsTold' /\ UnsaidIsFound'
    BY <1>10 DEF RecomposeRaises, Fresh, CastIsTold, UnsaidIsFound, FiguresTypeOK, settings,
      files, pass
  <2>4. TakenIsDrawn' /\ PassedIsLeft' /\ FrameIsThere'
    BY <1>10, CastKnown DEF RecomposeRaises, Fresh, FromTheFirst, TakenIsDrawn, PassedIsLeft,
      FrameIsThere, FiguresTypeOK, settings, files, pass, SweptHere, Recomposed, Digest, Shot
  <2>5. SeenOnceOrTold' /\ AttributionIsTrue'
    BY <1>10 DEF RecomposeRaises, SeenOnceOrTold, AttributionIsTrue, AbsenceIsTold,
      TwiceOnlyIfLeftAlone, LostAttributionIsTold, BlocksAreTrue, Shipped, FiguresTypeOK,
      settings, files, pass, Drawn
  <2> QED  BY <2>1, <2>2, <2>3, <2>4, <2>5
<1>11. CASE StartSweep
  <2>0. IsFiniteSet(found')
    BY <1>11, FS_EmptySet, FS_AddElement, FS_Union, FS_Singleton, CastRowsAreFinite
      DEF StartSweep, FiguresTypeOK, settings, files, pass
  <2>1. FiguresTypeOK'
    BY <1>11, <2>0, FiguresConstants DEF StartSweep, FiguresTypeOK, settings, files, pass
  <2>2. Fresh' /\ FromTheFirst' /\ PathIsSaved' /\ SavedIsTold' /\ PathIsTold'
    BY <1>11 DEF StartSweep, Fresh, FromTheFirst, PathIsSaved, SavedIsTold, PathIsTold,
      FiguresTypeOK, settings, files, pass, Idle, IsRow
  <2>3. CastIsTold' /\ UnsaidIsFound'
    BY <1>11 DEF StartSweep, Fresh, CastIsTold, UnsaidIsFound, FiguresTypeOK, settings,
      files, pass
  <2>4. TakenIsDrawn' /\ PassedIsLeft' /\ FrameIsThere'
    BY <1>11, CastKnown DEF StartSweep, Fresh, FromTheFirst, TakenIsDrawn, PassedIsLeft,
      FrameIsThere, FiguresTypeOK, settings, files, pass, SweptHere, Recomposed, Digest, Shot
  <2>5. SeenOnceOrTold' /\ AttributionIsTrue'
    BY <1>11 DEF StartSweep, SeenOnceOrTold, AttributionIsTrue, AbsenceIsTold,
      TwiceOnlyIfLeftAlone, LostAttributionIsTold, BlocksAreTrue, Shipped, FiguresTypeOK,
      settings, files, pass, Drawn
  <2> QED  BY <2>1, <2>2, <2>3, <2>4, <2>5
<1>12. CASE PassBy
  <2>0. IsFiniteSet(found')
    BY <1>12, FS_EmptySet, FS_AddElement, FS_Union, FS_Singleton, CastRowsAreFinite
      DEF PassBy, FiguresTypeOK, Uncast, Sweeping, settings, files, pass
  <2>1. FiguresTypeOK'
    BY <1>12, <2>0, FiguresConstants DEF PassBy, FiguresTypeOK, Uncast, Sweeping, settings,
      files, pass
  <2>2. Fresh' /\ FromTheFirst' /\ PathIsSaved' /\ SavedIsTold' /\ PathIsTold'
    BY <1>12 DEF PassBy, Fresh, FromTheFirst, PathIsSaved, SavedIsTold, PathIsTold,
      FiguresTypeOK, Uncast, Sweeping, settings, files, pass, Idle, IsRow
  <2>3. CastIsTold' /\ UnsaidIsFound'
    BY <1>12 DEF PassBy, Fresh, CastIsTold, UnsaidIsFound, FiguresTypeOK, Uncast, Sweeping,
      settings, files, pass
  <2>6. \A s \in Shot : s < at + 1 => s < at \/ s = at
    BY CastKnown DEF FiguresTypeOK, Shot
  <2>4. TakenIsDrawn' /\ PassedIsLeft' /\ FrameIsThere'
    BY <1>12, <2>6 DEF PassBy, TakenIsDrawn, PassedIsLeft, FrameIsThere, FiguresTypeOK,
      Uncast, Sweeping, settings, files, pass, SweptHere, Recomposed
  <2>5. SeenOnceOrTold' /\ AttributionIsTrue'
    BY <1>12 DEF PassBy, SeenOnceOrTold, AttributionIsTrue, AbsenceIsTold,
      TwiceOnlyIfLeftAlone, LostAttributionIsTold, BlocksAreTrue, Shipped, FiguresTypeOK,
      Uncast, Sweeping, settings, files, pass, Drawn
  <2> QED  BY <2>1, <2>2, <2>3, <2>4, <2>5
<1>13. CASE Degrade
  <2>0. IsFiniteSet(found')
    BY <1>13, FS_EmptySet, FS_AddElement, FS_Union, FS_Singleton, CastRowsAreFinite
      DEF Degrade, FiguresTypeOK, Sweeping, Unfit, settings, files, pass
  <2>1. FiguresTypeOK'
    BY <1>13, <2>0, FiguresConstants DEF Degrade, FiguresTypeOK, Sweeping, Unfit, settings,
      files, pass
  <2>2. Fresh' /\ FromTheFirst' /\ PathIsSaved' /\ SavedIsTold' /\ PathIsTold'
    BY <1>13 DEF Degrade, Fresh, FromTheFirst, PathIsSaved, SavedIsTold, PathIsTold,
      FiguresTypeOK, Sweeping, Unfit, settings, files, pass, Idle, IsRow
  <2>3. CastIsTold' /\ UnsaidIsFound'
    BY <1>13 DEF Degrade, Fresh, CastIsTold, UnsaidIsFound, FiguresTypeOK, Sweeping, Unfit,
      settings, files, pass
  <2>6. \A s \in Shot : s < at + 1 => s < at \/ s = at
    BY CastKnown DEF FiguresTypeOK, Shot
  <2>4. TakenIsDrawn' /\ PassedIsLeft' /\ FrameIsThere'
    BY <1>13, <2>6 DEF Degrade, TakenIsDrawn, PassedIsLeft, FrameIsThere, FiguresTypeOK,
      Sweeping, Unfit, settings, files, pass, SweptHere, Recomposed
  <2>5. SeenOnceOrTold' /\ AttributionIsTrue'
    BY <1>13 DEF Degrade, SeenOnceOrTold, AttributionIsTrue, AbsenceIsTold,
      TwiceOnlyIfLeftAlone, LostAttributionIsTold, BlocksAreTrue, Shipped, FiguresTypeOK,
      Sweeping, Unfit, settings, files, pass, Drawn
  <2> QED  BY <2>1, <2>2, <2>3, <2>4, <2>5
<1>14. CASE Draw
  <2>0. IsFiniteSet(found')
    BY <1>14, FS_EmptySet, FS_AddElement, FS_Union, FS_Singleton, CastRowsAreFinite DEF Draw,
      FiguresTypeOK, Fit, Sweeping, Unfit, settings, files, pass
  <2>1. FiguresTypeOK'
    BY <1>14, <2>0, FiguresConstants DEF Draw, FiguresTypeOK, Fit, Sweeping, Unfit, settings,
      files, pass
  <2>2. Fresh' /\ FromTheFirst' /\ PathIsSaved' /\ SavedIsTold' /\ PathIsTold'
    BY <1>14 DEF Draw, Fresh, FromTheFirst, PathIsSaved, SavedIsTold, PathIsTold,
      FiguresTypeOK, Fit, Sweeping, Unfit, settings, files, pass, Idle, IsRow
  <2>3. CastIsTold' /\ UnsaidIsFound'
    BY <1>14 DEF Draw, Fresh, CastIsTold, UnsaidIsFound, FiguresTypeOK, Fit, Sweeping, Unfit,
      settings, files, pass
  <2>4. TakenIsDrawn' /\ PassedIsLeft' /\ FrameIsThere'
    BY <1>14, CastKnown DEF Draw, Fresh, FromTheFirst, TakenIsDrawn, PassedIsLeft,
      FrameIsThere, FiguresTypeOK, Fit, Sweeping, Unfit, settings, files, pass, SweptHere,
      Recomposed, Digest, Shot
  <2>5. SeenOnceOrTold' /\ AttributionIsTrue'
    BY <1>14 DEF Draw, SeenOnceOrTold, AttributionIsTrue, AbsenceIsTold,
      TwiceOnlyIfLeftAlone, LostAttributionIsTold, BlocksAreTrue, Shipped, FiguresTypeOK,
      Fit, Sweeping, Unfit, settings, files, pass, Drawn
  <2> QED  BY <2>1, <2>2, <2>3, <2>4, <2>5
<1>15. CASE EndSweep
  <2>0. IsFiniteSet(found')
    BY <1>15, FS_EmptySet, FS_AddElement, FS_Union, FS_Singleton, CastRowsAreFinite
      DEF EndSweep, FiguresTypeOK, settings, files, pass
  <2>1. FiguresTypeOK'
    BY <1>15, <2>0, FiguresConstants DEF EndSweep, FiguresTypeOK, settings, files, pass
  <2>2. Fresh' /\ FromTheFirst' /\ PathIsSaved' /\ SavedIsTold' /\ PathIsTold'
    BY <1>15 DEF EndSweep, Fresh, FromTheFirst, PathIsSaved, SavedIsTold, PathIsTold,
      FiguresTypeOK, settings, files, pass, Idle, IsRow
  <2>3. CastIsTold' /\ UnsaidIsFound'
    BY <1>15 DEF EndSweep, Fresh, CastIsTold, UnsaidIsFound, FiguresTypeOK, settings, files,
      pass
  <2>4. TakenIsDrawn' /\ PassedIsLeft' /\ FrameIsThere'
    BY <1>15, CastKnown DEF EndSweep, Fresh, FromTheFirst, TakenIsDrawn, PassedIsLeft,
      FrameIsThere, FiguresTypeOK, settings, files, pass, SweptHere, Recomposed, Digest, Shot
  <2>5. SeenOnceOrTold' /\ AttributionIsTrue'
    BY <1>15 DEF EndSweep, SeenOnceOrTold, AttributionIsTrue, AbsenceIsTold,
      TwiceOnlyIfLeftAlone, LostAttributionIsTold, BlocksAreTrue, Shipped, FiguresTypeOK,
      settings, files, pass, Drawn
  <2> QED  BY <2>1, <2>2, <2>3, <2>4, <2>5
<1>16. CASE Crash
  <2>0. IsFiniteSet(found')
    BY <1>16, FS_EmptySet, FS_AddElement, FS_Union, FS_Singleton, CastRowsAreFinite
      DEF Crash, FiguresTypeOK, Over, Idle, settings, files, pass
  <2>1. FiguresTypeOK'
    BY <1>16, <2>0, FiguresConstants DEF Crash, FiguresTypeOK, Over, Idle, settings, files, pass
  <2>2. Fresh' /\ FromTheFirst' /\ PathIsSaved' /\ SavedIsTold' /\ PathIsTold'
    BY <1>16 DEF Crash, Fresh, FromTheFirst, PathIsSaved, SavedIsTold, PathIsTold,
      FiguresTypeOK, Over, Idle, settings, files, pass, Idle, IsRow
  <2>3. CastIsTold' /\ UnsaidIsFound'
    BY <1>16 DEF Crash, Fresh, CastIsTold, UnsaidIsFound, FiguresTypeOK, Over, Idle,
      settings, files, pass
  <2>4. TakenIsDrawn' /\ PassedIsLeft' /\ FrameIsThere'
    BY <1>16, CastKnown DEF Crash, Fresh, FromTheFirst, TakenIsDrawn, PassedIsLeft,
      FrameIsThere, FiguresTypeOK, Over, Idle, settings, files, pass, SweptHere, Recomposed,
      Digest, Shot
  <2>5. SeenOnceOrTold' /\ AttributionIsTrue'
    BY <1>16 DEF Crash, SeenOnceOrTold, AttributionIsTrue, AbsenceIsTold,
      TwiceOnlyIfLeftAlone, LostAttributionIsTold, BlocksAreTrue, Shipped, FiguresTypeOK,
      Over, Idle, settings, files, pass, Drawn
  <2> QED  BY <2>1, <2>2, <2>3, <2>4, <2>5
<1>17. CASE StampDrawn
  <2>1. /\ step = "stamp" /\ at \in Shot /\ cards[at] # {}
        /\ [shot |-> at, digest |-> Digest(at), graph |-> graph] \in frames
    BY <1>17 DEF StampDrawn, FrameIsThere
  <2> DEFINE digest == Digest(at)
             new == [digest |-> digest, graph |-> graph, cast |-> digest.cast]
  <2>2. digest \in Footage /\ digest # Plate /\ digest.cast = cards[at]
    BY <2>1 DEF Digest, Footage, Plate, FiguresTypeOK
  <2>3. \E frame \in Drawn(at, digest) : frame.graph = graph
    BY <2>1 DEF Drawn
  <2>4. /\ Stamp(at, new, TRUE) /\ step' = "sweep" /\ at' = at + 1
        /\ UNCHANGED <<settings, plate, frames, saved, rows, cards, retract, rounds>>
    BY <1>17 DEF StampDrawn
  <2>5. \A k \in Cast[at] \ digest.cast : <<"missing", at, k>> \in found
    BY <2>1, <2>2 DEF CastIsTold
  <2> HIDE DEF digest
  <2>6. /\ new \in [digest : Footage, graph : Int, cast : SUBSET STRING]
        /\ new.digest = digest /\ new.graph = graph /\ new.cast = digest.cast
    BY <2>2 DEF Footage, FiguresTypeOK
  <2> HIDE DEF new
  <2> QED  BY <2>1, <2>2, <2>3, <2>4, <2>5, <2>6, StampKeeps
<1>18. CASE FromCache
  <2>1. step = "sweep" /\ at \in Shot /\ cards[at] # {}
    BY <1>18 DEF FromCache, Fit, Sweeping
  <2> DEFINE digest == Digest(at)
             new == [digest |-> digest, graph |-> NoGraph, cast |-> digest.cast]
  <2>2. digest \in Footage /\ digest # Plate /\ digest.cast = cards[at]
    BY <2>1 DEF Digest, Footage, Plate, FiguresTypeOK
  <2>3. /\ Stamp(at, new, FALSE) /\ step' = "sweep" /\ at' = at + 1
        /\ UNCHANGED <<settings, plate, frames, saved, rows, cards, retract, rounds>>
    BY <1>18, <2>1 DEF FromCache
  <2>4. \A k \in Cast[at] \ digest.cast : <<"missing", at, k>> \in found
    BY <2>1, <2>2 DEF CastIsTold
  <2> HIDE DEF digest
  <2>5. /\ new \in [digest : Footage, graph : Int, cast : SUBSET STRING]
        /\ new.digest = digest /\ new.graph = NoGraph /\ new.cast = digest.cast
    BY <2>2 DEF Footage, NoGraph
  <2> HIDE DEF new
  <2> QED  BY <2>1, <2>2, <2>3, <2>4, <2>5, StampKeeps
<1>19. CASE Reenter
  <2>1. step = "sweep" /\ at \in Shot /\ cards[at] # {} /\ path[at] # Plate
    BY <1>19 DEF Reenter, Fit, Sweeping, Recomposed
  <2> DEFINE new == [digest |-> path[at], graph |-> NoGraph, cast |-> {}]
  <2>2. /\ Stamp(at, new, FALSE) /\ step' = "sweep" /\ at' = at + 1
        /\ UNCHANGED <<settings, plate, frames, saved, rows, cards, retract, rounds>>
    BY <1>19, <2>1 DEF Reenter
  <2>3. \A k \in Cast[at] \ path[at].cast : IsRow(at, k, rows) \/ <<"missing", at, k>> \in found
    BY <2>1 DEF PathIsTold
  <2>4. /\ new \in [digest : Footage, graph : Int, cast : SUBSET STRING]
        /\ new.digest = path[at] /\ new.graph = NoGraph /\ new.cast = {}
    BY <2>1 DEF FiguresTypeOK, NoGraph
  <2> HIDE DEF new
  <2> QED  BY <2>1, <2>2, <2>3, <2>4, StampKeeps
<1>20. CASE UNCHANGED figuresVars
  <2>1. FiguresTypeOK' /\ Fresh' /\ FromTheFirst' /\ PathIsSaved' /\ SavedIsTold' /\ PathIsTold'
    BY <1>20 DEF figuresVars, settings, files, pass, FiguresTypeOK, Fresh, FromTheFirst,
       PathIsSaved, SavedIsTold, PathIsTold, Idle, IsRow
  <2>2. CastIsTold' /\ UnsaidIsFound' /\ TakenIsDrawn' /\ PassedIsLeft' /\ FrameIsThere'
    BY <1>20 DEF figuresVars, settings, files, pass, CastIsTold, UnsaidIsFound, TakenIsDrawn,
       PassedIsLeft, FrameIsThere, SweptHere, Recomposed, Digest
  <2>3. SeenOnceOrTold' /\ AttributionIsTrue'
    BY <1>20 DEF figuresVars, settings, files, pass, SeenOnceOrTold, AttributionIsTrue,
       AbsenceIsTold, TwiceOnlyIfLeftAlone, LostAttributionIsTold, BlocksAreTrue, Shipped,
       InFrame, InOverlay, SweptHere, Recomposed, Drawn
  <2> QED  BY <2>1, <2>2, <2>3
<1> QED  BY <1>1, <1>2, <1>3, <1>4, <1>5, <1>6, <1>7, <1>8, <1>9, <1>10, <1>11, <1>12, <1>13,
  <1>14, <1>15, <1>16, <1>17, <1>18, <1>19, <1>20, ShipKeeps, FailKeeps DEF FiguresNext

-----------------------------------------------------------------------------
(* The film: FilmAssembly. *)

Works == {"scene", "credit", "splice", "join"}
Working == bench.do # "rest"

FilmTypeOK ==
  /\ script \in Scripts \cup {<<>>}
  /\ Working => script \in Scripts
  /\ knobs \in [cards : BOOLEAN, sound : BOOLEAN, noise : BOOLEAN, credit : BOOLEAN]
  /\ bench \in [do : Works \cup {"rest"}, n : Nat, credit : BOOLEAN]
  /\ Working => bench.n \in 1 .. Final /\ ~shown
  /\ bench.do \in {"credit", "join"} => bench.n = Final
  /\ takes \in Nat /\ shown \in BOOLEAN

\* A piece that a take has made lies under its name.
Lies(file, piece) == file \in DOMAIN shelf /\ shelf[file] = piece

ShotsOf(n) == [i \in 1 .. Len(script[n].plan) |-> ShotClip(n, i)]
SceneDone(n) == Lies(<<"seg", n>>, Piece("scene", n, ShotsOf(n), Hits(n)))
ScenesDone ==
  /\ bench.do = "scene" => \A n \in 1 .. bench.n - 1 : SceneDone(n)
  /\ bench.do \in {"credit", "splice", "join"} => \A n \in 1 .. Final : SceneDone(n)

CutIsBegun ==
  IF bench.do = "scene"
  THEN /\ \E most \in 0 .. Len(Plan) : cut = [i \in 1 .. most |-> ShotClip(bench.n, i)]
       /\ OnePass => cut = <<>>
  ELSE cut = <<>>

CreditDone ==
  /\ bench.do \in {"rest", "scene", "credit"} => ~bench.credit
  /\ bench.do = "credit" => knobs.credit
  /\ bench.credit => knobs.credit /\ Lies(<<"credit", 0>>, Piece("credit", Final, <<>>, knobs.sound))

\* A hold, whoever left it, is one; this take's are of the scene that follows.
Hold(k) == shelf[<<"hold", k>>]
HoldsHold ==
  \A k \in Nat : <<"hold", k>> \in DOMAIN shelf =>
    /\ Hold(k).kind = "hold" /\ ~Hold(k).hit /\ Hold(k).take \in 0 .. takes
    /\ IF k = 0 THEN Hold(k).mood = Silence
       ELSE Working /\ Hold(k).take = takes => Hold(k).mood = Mood(k + 1)

\* The boundaries that are made, and the reel up to the scene in hand.
DarkFile(n) == IF HasCards THEN <<"card", n>> ELSE HoldFile(n)
DarkDone(n) ==
  IF HasCards THEN Lies(<<"card", n>>, Piece("card", n + 1, <<>>, knobs.sound))
  ELSE HoldFile(n) \in DOMAIN shelf
Reels == [file : {"seg", "card", "hold", "credit"} \X Nat, in : BOOLEAN, out : BOOLEAN]
SplicedTo(n, dark) ==
  /\ \A m \in 1 .. n : reel[2 * m - 1] = SceneSegment(m)
  /\ \A m \in 1 .. dark : reel[2 * m] = Segment(DarkFile(m), FALSE, FALSE) /\ DarkDone(m)
ReelIsSpliced ==
  /\ reel \in Seq(Reels)
  /\ bench.do \in {"scene", "credit"} => reel = <<>>
  /\ bench.do = "splice" => Len(reel) = 2 * (bench.n - 1) /\ SplicedTo(bench.n - 1, bench.n - 1)
  /\ bench.do = "join" =>
       /\ Len(reel) = 2 * Final - (IF bench.credit THEN 0 ELSE 1) /\ SplicedTo(Final, Final - 1)
       /\ bench.credit => reel[2 * Final] = Segment(<<"credit", 0>>, FALSE, FALSE)

FilmInv ==
  /\ FilmTypeOK
  /\ ScenesDone /\ CutIsBegun /\ CreditDone /\ HoldsHold /\ ReelIsSpliced
  /\ FilmIsWhole

LEMMA ScriptFacts ==
  ASSUME script \in Scripts
  PROVE  /\ Final \in Nat \ {0}
         /\ \A n \in 1 .. Final : script[n].plan \in Seq(STRING) /\ Len(script[n].plan) \in Nat \ {0}
<1>1. script \in Seq([mood : STRING, plan : Seq(STRING)]) /\ script # <<>>
      /\ \A n \in DOMAIN script : script[n].plan # <<>>
  BY ScriptsAreScripts
<1>2. Final \in Nat \ {0} /\ DOMAIN script = 1 .. Final
  BY <1>1, EmptySeq, LenProperties DEF Final
<1>3. ASSUME NEW n \in 1 .. Final
      PROVE script[n].plan \in Seq(STRING) /\ Len(script[n].plan) \in Nat \ {0}
  <2>1. script[n] \in [mood : STRING, plan : Seq(STRING)]
    BY <1>1, <1>2, ElementOfSeq DEF Final
  <2>2. script[n].plan \in Seq(STRING) /\ script[n].plan # <<>>
    BY <1>1, <1>2, <2>1
  <2> QED  BY <2>2, EmptySeq
<1> QED  BY <1>2, <1>3

\* The clips of a scene as a sequence.
LEMMA ShotsAreASeq ==
  ASSUME NEW n, NEW most \in Nat
  PROVE  LET shots == [i \in 1 .. most |-> ShotClip(n, i)]
         IN  /\ shots \in Seq({ShotClip(n, i) : i \in Nat}) /\ Len(shots) = most
             /\ Append(shots, ShotClip(n, most + 1)) = [i \in 1 .. most + 1 |-> ShotClip(n, i)]
<1> DEFINE Clip(i) == ShotClip(n, i)
           clips == {Clip(i) : i \in Nat}
           shots == [i \in 1 .. most |-> Clip(i)]
           more == [i \in 1 .. most + 1 |-> Clip(i)]
<1>1. shots \in Seq(clips) /\ Len(shots) = most
  <2>1. shots \in [1 .. most -> clips]
    OBVIOUS
  <2>2. shots \in Seq(clips)
    BY <2>1, SeqDef
  <2> QED  BY <2>1, <2>2, LenProperties
<1>2. Clip(most + 1) \in clips
  OBVIOUS
<1>3. more \in Seq(clips) /\ Len(more) = most + 1
  <2>1. more \in [1 .. most + 1 -> clips]
    OBVIOUS
  <2>2. more \in Seq(clips)
    BY <2>1, SeqDef
  <2> QED  BY <2>1, <2>2, LenProperties
<1> DEFINE longer == Append(shots, Clip(most + 1))
<1>4. /\ longer \in Seq(clips) /\ Len(longer) = most + 1
      /\ \A i \in 1 .. most + 1 : longer[i] = IF i <= most THEN shots[i] ELSE Clip(most + 1)
  BY <1>1, <1>2, AppendProperties
<1>5. \A i \in 1 .. most + 1 : longer[i] = more[i]
  BY <1>4
<1>6. longer = more
  BY <1>3, <1>4, <1>5, SeqEqual
<1> QED  BY <1>1, <1>6

-----------------------------------------------------------------------------
(* What a step leaves on the shelf. *)

LEMMA SceneStays ==
  ASSUME UNCHANGED <<script, knobs, takes>>, NEW n, SceneDone(n),
         <<"seg", n>> \in DOMAIN shelf', shelf'[<<"seg", n>>] = shelf[<<"seg", n>>]
  PROVE  SceneDone(n)'
  BY DEF SceneDone, Lies, Piece, ShotsOf, ShotClip, Shakes, Hits, HasCards, Mood, Final

LEMMA DarkStays ==
  ASSUME UNCHANGED <<script, knobs, takes>>, NEW n, DarkDone(n),
         DarkFile(n) \in DOMAIN shelf', shelf'[DarkFile(n)] = shelf[DarkFile(n)]
  PROVE  DarkDone(n)'
  BY DEF DarkDone, DarkFile, Lies, Piece, HoldFile, HasCards, Mood, Final

LEMMA HoldsStay ==
  ASSUME HoldsHold, takes \in Nat, UNCHANGED <<script, knobs, takes>>, Working' => Working,
         \A k \in Nat : <<"hold", k>> \in DOMAIN shelf' =>
           <<"hold", k>> \in DOMAIN shelf /\ shelf'[<<"hold", k>>] = shelf[<<"hold", k>>]
  PROVE  HoldsHold'
<1> SUFFICES ASSUME NEW k \in Nat, <<"hold", k>> \in DOMAIN shelf'
    PROVE  /\ Hold(k)'.kind = "hold" /\ ~Hold(k)'.hit /\ Hold(k)'.take \in 0 .. takes
           /\ IF k = 0 THEN Hold(k)'.mood = Silence
              ELSE Working' /\ Hold(k)'.take = takes => Hold(k)'.mood = Mood(k + 1)'
  BY DEF HoldsHold
<1>1. Hold(k)' = Hold(k) /\ Mood(k + 1)' = Mood(k + 1)
  BY DEF Hold, Mood
<1> QED  BY <1>1 DEF HoldsHold

\* At the table with the same script and settings.
Going == UNCHANGED <<script, knobs, film, shown, credited, takes>>

LEMMA AtWork ==
  ASSUME FilmInv, Working
  PROVE  /\ script \in Scripts /\ Final \in Nat \ {0} /\ bench.n \in 1 .. Final /\ ~shown
         /\ \A n \in 1 .. Final : script[n].plan \in Seq(STRING) /\ Len(script[n].plan) \in Nat \ {0}
<1>1. FilmTypeOK
  BY DEF FilmInv
<1>2. script \in Scripts /\ bench.n \in 1 .. Final /\ ~shown
  BY <1>1, Zenon DEF FilmTypeOK
<1> QED  BY <1>2, ScriptFacts

LEMMA RenderedKeeps ==
  ASSUME FilmInv, bench.do = "scene", NEW n, n = bench.n, Rendered(ShotsOf(n)) PROVE FilmInv'
<1> USE DEF FilmInv
<1>1. script \in Scripts /\ Final \in Nat \ {0} /\ n \in 1 .. Final /\ ~bench.credit /\ ~shown
  BY AtWork DEF CreditDone, Working
<1> DEFINE file == <<"seg", n>>
           piece == Piece("scene", n, ShotsOf(n), Hits(n))
<1>2. /\ DOMAIN shelf' = DOMAIN shelf \cup {file} /\ shelf'[file] = piece
      /\ \A f \in DOMAIN shelf \ {file} : shelf'[f] = shelf[f]
  <2>1. shelf' = Shelved(file, piece)
    BY DEF Rendered
  <2> HIDE DEF file, piece
  <2> QED  BY <2>1 DEF Shelved
<1>3. /\ bench' \in [do : Works \cup {"rest"}, n : Nat, credit : BOOLEAN] /\ ~bench'.credit
      /\ \/ bench'.do = "scene" /\ n < Final /\ bench'.n = n + 1
         \/ bench'.do = "credit" /\ n = Final /\ bench'.n = n /\ knobs.credit
         \/ bench'.do = "splice" /\ n = Final /\ bench'.n = 1
  <2>1. bench \in [do : Works \cup {"rest"}, n : Nat, credit : BOOLEAN] /\ n \in Nat /\ n + 1 \in Nat
    BY <1>1 DEF FilmTypeOK
  <2>2. \/ n < Final /\ bench' = [bench EXCEPT !.n = n + 1]
        \/ n = Final /\ knobs.credit /\ bench' = [bench EXCEPT !.do = "credit"]
        \/ n = Final /\ bench' = [bench EXCEPT !.do = "splice", !.n = 1]
    BY <1>1, <2>1 DEF Rendered
  <2>3. CASE bench' = [bench EXCEPT !.n = n + 1] /\ n < Final
    BY <1>1, <2>1, <2>3
  <2>4. CASE bench' = [bench EXCEPT !.do = "credit"] /\ n = Final /\ knobs.credit
    BY <1>1, <2>1, <2>4 DEF Works
  <2>5. CASE bench' = [bench EXCEPT !.do = "splice", !.n = 1] /\ n = Final
    BY <1>1, <2>1, <2>5 DEF Works
  <2> QED  BY <2>2, <2>3, <2>4, <2>5
<1>4. Final' = Final /\ Going /\ reel' = reel /\ cut' = <<>>
  BY DEF Rendered, Final, Going
<1>5. FilmTypeOK'
  BY <1>1, <1>3, <1>4 DEF FilmTypeOK, Working, Going
<1>6. ScenesDone'
  <2>1. SceneDone(n)'
    <3>1. Piece("scene", n, ShotsOf(n), Hits(n))' = piece
      BY <1>4 DEF Going, Piece, ShotsOf, ShotClip, Shakes, Hits, HasCards, Mood, Final
    <3> QED  BY <1>2, <3>1 DEF SceneDone, Lies
  <2>2. ASSUME NEW m \in 1 .. n - 1 PROVE SceneDone(m)'
    <3>1. SceneDone(m) /\ m # n
      BY <1>1 DEF ScenesDone
    <3>2. <<"seg", m>> \in DOMAIN shelf \ {file}
      BY <3>1 DEF SceneDone, Lies
    <3> QED  BY <1>2, <1>4, <3>1, <3>2, SceneStays DEF Going
  <2>3. ASSUME NEW m \in 1 .. n PROVE SceneDone(m)'
    <3>1. m = n \/ m \in 1 .. n - 1
      BY <1>1
    <3> QED  BY <2>1, <2>2, <3>1
  <2>4. bench'.do = "scene" => bench'.n - 1 = n
    BY <1>1, <1>3
  <2> QED  BY <1>3, <1>4, <2>3, <2>4 DEF ScenesDone
<1>7. CutIsBegun'
  <2>1. cut' = [i \in 1 .. 0 |-> ShotClip(bench.n, i)']
    BY <1>4
  <2>2. bench'.do = "scene" => Len(Plan)' \in Nat
    <3>1. bench'.do = "scene" => Plan' = script[n + 1].plan /\ n + 1 \in 1 .. Final
      BY <1>1, <1>3, <1>4 DEF Plan, Going
    <3> QED  BY <1>1, <3>1, ScriptFacts
  <2> QED  BY <1>4, <2>1, <2>2 DEF CutIsBegun
<1>8. CreditDone' /\ HoldsHold'
  <2>1. \A k \in Nat : <<"hold", k>> # file
    OBVIOUS
  <2>2. takes \in Nat /\ Working
    BY DEF FilmTypeOK, Working
  <2>3. HoldsHold'
    BY <1>2, <1>4, <2>1, <2>2, HoldsStay DEF Going
  <2> QED  BY <1>3, <1>4, <2>3 DEF CreditDone, Going
<1>9. ReelIsSpliced'
  <2>1. reel' = <<>> /\ reel' \in Seq(Reels)'
    BY <1>4, EmptySeq DEF ReelIsSpliced, Reels
  <2>2. bench'.do = "splice" => bench'.n - 1 = 0 /\ Len(reel') = 2 * (bench'.n - 1)
    <3>1. Len(reel') = 0
      BY <2>1
    <3> QED  BY <1>3, <3>1
  <2>3. bench'.do = "splice" => SplicedTo(bench.n - 1, bench.n - 1)'
    <3>1. 1 .. 0 = {}
      OBVIOUS
    <3>2. bench'.n - 1 = 0 => SplicedTo(bench.n - 1, bench.n - 1)'
      BY <3>1 DEF SplicedTo
    <3> QED  BY <2>2, <3>2
  <2>4. bench'.do # "join"
    BY <1>3
  <2> QED  BY <2>1, <2>2, <2>3, <2>4 DEF ReelIsSpliced
<1>10. FilmIsWhole'
  BY <1>1, <1>4 DEF FilmIsWhole, Going
<1> QED  BY <1>5, <1>6, <1>7, <1>8, <1>9, <1>10

-----------------------------------------------------------------------------
(* The steps outside the scenes. *)

LEMMA FilmBegins == FilmInit => FilmInv
<1> SUFFICES ASSUME FilmInit PROVE FilmInv
  OBVIOUS
<1>1. /\ script = <<>> /\ cut = <<>> /\ shelf = <<>> /\ reel = <<>> /\ ~shown /\ takes = 0
      /\ knobs = [cards |-> FALSE, sound |-> FALSE, noise |-> FALSE, credit |-> FALSE]
      /\ bench = NoWork /\ bench.do = "rest" /\ ~bench.credit
  BY DEF FilmInit, NoWork
<1>2. FilmTypeOK
  <2>1. bench \in [do : Works \cup {"rest"}, n : Nat, credit : BOOLEAN]
    BY <1>1 DEF NoWork
  <2>2. knobs \in [cards : BOOLEAN, sound : BOOLEAN, noise : BOOLEAN, credit : BOOLEAN]
    BY <1>1
  <2>3. shown = FALSE
    BY DEF FilmInit
  <2> QED  BY <1>1, <2>1, <2>2, <2>3 DEF FilmTypeOK, Working
<1>3. ScenesDone /\ CutIsBegun /\ CreditDone
  BY <1>1 DEF ScenesDone, CutIsBegun, CreditDone
<1>4. HoldsHold
  BY <1>1 DEF HoldsHold
<1>5. ReelIsSpliced
  BY <1>1, EmptySeq DEF ReelIsSpliced
<1> QED  BY <1>1, <1>2, <1>3, <1>4, <1>5 DEF FilmInv, FilmIsWhole

\* A run at rest keeps no more than its holds.
LEMMA RestKeeps ==
  ASSUME FilmTypeOK', bench'.do = "rest", ~bench'.credit, cut' = <<>>, reel' \in Seq(Reels)',
         ~shown', HoldsHold'
  PROVE  FilmInv'
<1>1. ScenesDone' /\ CutIsBegun' /\ CreditDone' /\ ReelIsSpliced' /\ FilmIsWhole'
  BY DEF ScenesDone, CutIsBegun, CreditDone, ReelIsSpliced, FilmIsWhole
<1> QED  BY <1>1 DEF FilmInv

LEMMA RewriteKeeps == ASSUME FilmInv, Rewrite PROVE FilmInv'
<1> USE DEF FilmInv
<1>1. /\ bench.do = "rest" /\ bench' = bench /\ script' \in Scripts /\ ~shown'
      /\ UNCHANGED <<knobs, cut, shelf, reel, takes>>
  BY DEF Rewrite, At
<1>2. cut = <<>> /\ ~bench.credit /\ reel \in Seq(Reels)
  BY <1>1 DEF CutIsBegun, CreditDone, ReelIsSpliced
<1>3. FilmTypeOK'
  BY <1>1 DEF FilmTypeOK, Working, Rewrite
<1>4. HoldsHold'
  BY <1>1 DEF HoldsHold, Hold, Working
<1>5. Seq(Reels)' = Seq(Reels)
  BY DEF Reels
<1> QED  BY <1>1, <1>2, <1>3, <1>4, <1>5, RestKeeps

LEMMA TakeKeeps == ASSUME FilmInv, Take PROVE FilmInv'
<1> USE DEF FilmInv
<1>1. /\ bench.do = "rest" /\ script # <<>> /\ script \in Scripts /\ script' = script /\ ~shown'
      /\ takes \in Nat /\ takes' = takes + 1 /\ knobs' \in Knobs
      /\ cut = <<>> /\ cut' = <<>> /\ shelf' = shelf /\ reel' = <<>>
  BY Zenon DEF Take, At, FilmTypeOK, CutIsBegun
<1>2. Final \in Nat \ {0} /\ Final' = Final
  BY <1>1, ScriptFacts DEF Final
<1>3. /\ bench' \in [do : Works \cup {"rest"}, n : Nat, credit : BOOLEAN] /\ ~bench'.credit
      /\ bench'.do = "rest" \/ (bench'.do = "scene" /\ bench'.n = 1)
  <2>1. bench' = NoWork \/ bench' = [NoWork EXCEPT !.do = "scene", !.n = 1]
    BY Zenon DEF Take
  <2>2. CASE bench' = NoWork
    BY <2>2 DEF NoWork
  <2>3. CASE bench' = [NoWork EXCEPT !.do = "scene", !.n = 1]
    BY <2>3 DEF NoWork, Works
  <2> QED  BY <2>1, <2>2, <2>3
<1>4. FilmTypeOK'
  <2>1. shown' = FALSE /\ takes' \in Nat
    BY <1>1 DEF Take
  <2>2. knobs' \in [cards : BOOLEAN, sound : BOOLEAN, noise : BOOLEAN, credit : BOOLEAN]
    BY <1>1, KnobsAreKnobs
  <2>3. Working' => bench'.n \in 1 .. Final' /\ bench'.do = "scene"
    BY <1>2, <1>3 DEF Working
  <2>4. bench'.do \notin {"credit", "join"}
    BY <1>3
  <2> QED  BY <1>1, <1>3, <2>1, <2>2, <2>3, <2>4 DEF FilmTypeOK, Working
<1>5. ASSUME NEW k \in Nat, <<"hold", k>> \in DOMAIN shelf'
      PROVE  /\ Hold(k)'.kind = "hold" /\ ~Hold(k)'.hit /\ Hold(k)'.take \in 0 .. takes'
             /\ IF k = 0 THEN Hold(k)'.mood = Silence
                ELSE Working' /\ Hold(k)'.take = takes' => Hold(k)'.mood = Mood(k + 1)'
  <2>1. Hold(k)' = Hold(k) /\ <<"hold", k>> \in DOMAIN shelf
    BY <1>1, <1>5 DEF Hold
  <2>2. /\ Hold(k).kind = "hold" /\ ~Hold(k).hit /\ Hold(k).take \in 0 .. takes
        /\ k = 0 => Hold(k).mood = Silence
    BY <2>1 DEF HoldsHold
  <2>3. Hold(k).take \in 0 .. takes' /\ Hold(k).take # takes'
    BY <1>1, <2>2
  <2> QED  BY <2>1, <2>2, <2>3
<1>6. HoldsHold'
  BY <1>5 DEF HoldsHold
<1>7. ScenesDone' /\ CutIsBegun' /\ CreditDone' /\ ReelIsSpliced' /\ FilmIsWhole'
  <2>1. bench'.do = "scene" => 1 .. bench'.n - 1 = {}
    BY <1>3
  <2>2. ScenesDone'
    BY <1>3, <2>1 DEF ScenesDone
  <2>3. cut' = [i \in 1 .. 0 |-> ShotClip(bench.n, i)']
    BY <1>1
  <2>4. bench'.do = "scene" => Len(Plan)' \in Nat
    BY <1>1, <1>2, <1>3, ScriptFacts DEF Plan
  <2>5. CutIsBegun'
    BY <1>1, <2>3, <2>4 DEF CutIsBegun
  <2>6. reel' \in Seq(Reels)'
    BY <1>1, EmptySeq
  <2> QED  BY <1>1, <1>3, <2>2, <2>5, <2>6 DEF CreditDone, ReelIsSpliced, FilmIsWhole
<1> QED  BY <1>4, <1>6, <1>7

LEMMA StoppedKeeps == ASSUME FilmInv, Stopped PROVE FilmInv'
<1> USE DEF FilmInv
<1>1. /\ Working /\ ~shown /\ shown' = shown /\ bench' = NoWork /\ cut' = <<>> /\ reel' = <<>>
      /\ UNCHANGED <<script, knobs, takes>> /\ takes \in Nat
      /\ bench'.do = "rest" /\ ~bench'.credit /\ ~Working'
  BY AtWork DEF Stopped, At, Working, NoWork, FilmTypeOK
<1>2. \A k \in Nat : <<"hold", k>> \notin InHand
  BY <1>1 DEF InHand, At
<1>3. ASSUME NEW k \in Nat, <<"hold", k>> \in DOMAIN shelf'
      PROVE  <<"hold", k>> \in DOMAIN shelf /\ shelf'[<<"hold", k>>] = shelf[<<"hold", k>>]
  <2>1. CASE shelf' = shelf
    BY <1>3, <2>1
  <2>2. CASE \E file \in InHand : shelf' = Shelved(file, Torn)
    <3>1. PICK file \in InHand : shelf' = Shelved(file, Torn)
      BY <2>2
    <3>2. file # <<"hold", k>>
      BY <1>2
    <3> QED  BY <1>3, <3>1, <3>2 DEF Shelved
  <2> QED  BY <2>1, <2>2 DEF Stopped
<1>4. HoldsHold'
  BY <1>1, <1>3, HoldsStay
<1>5. FilmTypeOK'
  BY <1>1 DEF FilmTypeOK, NoWork, Working
<1>6. reel' \in Seq(Reels)'
  BY <1>1, EmptySeq
<1> QED  BY <1>1, <1>4, <1>5, <1>6, RestKeeps

-----------------------------------------------------------------------------
(* The scenes. *)

LEMMA CutKeeps == ASSUME FilmInv, Cut, NEW n, n = bench.n PROVE FilmInv'
<1> USE DEF FilmInv
<1>1. /\ bench.do = "scene" /\ ~OnePass /\ Len(cut) < Len(Plan)
      /\ cut' = Append(cut, ShotClip(n, Len(cut) + 1))
      /\ UNCHANGED <<script, knobs, bench, shelf, reel, film, shown, credited, takes>>
  BY DEF Cut, At
<1>2. n \in 1 .. Final /\ Plan = script[n].plan /\ Len(Plan) \in Nat \ {0}
  BY <1>1, AtWork DEF Working, Plan
<1>3. CutIsBegun'
  <2>1. PICK most \in 0 .. Len(Plan) : cut = [i \in 1 .. most |-> ShotClip(n, i)]
    BY <1>1 DEF CutIsBegun
  <2>2. most \in Nat /\ most + 1 \in Nat
    BY <1>2
  <2>3. Len(cut) = most /\ cut' = [i \in 1 .. most + 1 |-> ShotClip(n, i)]
    BY <1>1, <2>1, <2>2, ShotsAreASeq
  <2>4. most + 1 \in 0 .. Len(Plan)
    BY <1>1, <1>2, <2>2, <2>3
  <2>5. \A i : ShotClip(n, i)' = ShotClip(n, i)
    BY <1>1 DEF ShotClip, Shakes, Hits, HasCards, Final
  <2>6. cut' = [i \in 1 .. most + 1 |-> ShotClip(bench.n, i)']
    BY <1>1, <2>3, <2>5
  <2>7. Plan' = Plan /\ OnePass' = OnePass
    BY <1>1 DEF Plan, OnePass
  <2> QED  BY <1>1, <2>4, <2>6, <2>7 DEF CutIsBegun
<1>4. FilmTypeOK'
  BY <1>1 DEF FilmTypeOK, Working, Final
<1>5. \A m : SceneDone(m) => SceneDone(m)'
  BY <1>1 DEF SceneDone, Lies, Piece, ShotsOf, ShotClip, Shakes, Hits, HasCards, Mood, Final
<1>6. ScenesDone'
  BY <1>1, <1>5 DEF ScenesDone, Final
<1>7. CreditDone'
  BY <1>1 DEF CreditDone, Lies, Piece, Mood, Final
<1>8. HoldsHold'
  BY <1>1 DEF HoldsHold, Hold, Working, Mood
<1>9. ReelIsSpliced'
  BY <1>1 DEF ReelIsSpliced, Reels
<1>10. FilmIsWhole'
  BY <1>1, AtWork DEF FilmIsWhole, Working
<1> QED  BY <1>3, <1>4, <1>6, <1>7, <1>8, <1>9, <1>10

LEMMA RenderFastKeeps == ASSUME FilmInv, RenderFast, NEW n, n = bench.n PROVE FilmInv'
<1>1. bench.do = "scene" /\ Len(script[n].plan) = 1 /\ Rendered(<<ShotClip(n, 1)>>)
  BY DEF RenderFast, At, OnePass, Plan
<1>2. <<ShotClip(n, 1)>> = ShotsOf(n)
  <2> DEFINE Clip(i) == ShotClip(n, i)
  <2> HIDE DEF Clip
  <2>1. <<Clip(1)>> = [i \in 1 .. 1 |-> Clip(i)]
    OBVIOUS
  <2> QED  BY <1>1, <2>1 DEF ShotsOf, Clip
<1>3. Rendered(ShotsOf(n))
  BY <1>1, <1>2
<1> QED  BY <1>1, <1>3, RenderedKeeps

LEMMA AssembleCutsKeeps == ASSUME FilmInv, AssembleCuts, NEW n, n = bench.n PROVE FilmInv'
<1>1. bench.do = "scene" /\ Len(cut) = Len(script[n].plan) /\ Rendered(cut)
  BY DEF AssembleCuts, At, Plan
<1>2. Len(script[n].plan) \in Nat
  BY <1>1, AtWork DEF Working
<1>3. PICK most \in 0 .. Len(script[n].plan) : cut = [i \in 1 .. most |-> ShotClip(n, i)]
  BY <1>1 DEF FilmInv, CutIsBegun, Plan
<1>4. most = Len(script[n].plan)
  BY <1>1, <1>2, <1>3, ShotsAreASeq
<1>5. Rendered(ShotsOf(n))
  BY <1>1, <1>3, <1>4 DEF ShotsOf
<1> QED  BY <1>1, <1>5, RenderedKeeps

-----------------------------------------------------------------------------
(* The credit. *)

\* What a step from the credit to the boundaries leaves.
LEMMA ToTheSplice ==
  ASSUME FilmInv, bench.do = "credit", bench'.do = "splice", bench'.n = 1, bench'.credit \in BOOLEAN,
         UNCHANGED <<script, knobs, cut, reel, film, shown, credited, takes>>,
         bench' \in [do : Works \cup {"rest"}, n : Nat, credit : BOOLEAN],
         \A n \in Nat : <<"seg", n>> \in DOMAIN shelf =>
           <<"seg", n>> \in DOMAIN shelf' /\ shelf'[<<"seg", n>>] = shelf[<<"seg", n>>],
         \A k \in Nat : <<"hold", k>> \in DOMAIN shelf' =>
           <<"hold", k>> \in DOMAIN shelf /\ shelf'[<<"hold", k>>] = shelf[<<"hold", k>>]
  PROVE  FilmTypeOK' /\ ScenesDone' /\ CutIsBegun' /\ HoldsHold' /\ ReelIsSpliced' /\ FilmIsWhole'
<1> USE DEF FilmInv
<1>1. script \in Scripts /\ Final \in Nat \ {0} /\ ~shown /\ Working /\ Final' = Final /\ takes \in Nat
  BY AtWork DEF Working, Final, FilmTypeOK
<1>2. FilmTypeOK'
  BY <1>1 DEF FilmTypeOK, Working
<1>3. ScenesDone'
  <2>1. ASSUME NEW n \in 1 .. Final PROVE SceneDone(n)'
    <3>1. SceneDone(n) /\ n \in Nat
      BY <1>1 DEF ScenesDone
    <3>2. <<"seg", n>> \in DOMAIN shelf
      BY <3>1 DEF SceneDone, Lies
    <3> QED  BY <3>1, <3>2, SceneStays
  <2> QED  BY <1>1, <2>1 DEF ScenesDone
<1>4. CutIsBegun'
  BY DEF CutIsBegun
<1>5. HoldsHold'
  BY <1>1, HoldsStay
<1>6. ReelIsSpliced'
  <2>1. reel' = <<>> /\ reel' \in Seq(Reels)'
    BY EmptySeq DEF ReelIsSpliced, Reels
  <2>2. Len(reel') = 0 /\ 2 * (bench'.n - 1) = 0 /\ bench'.n - 1 = 0
    BY <2>1
  <2>3. 1 .. 0 = {}
    OBVIOUS
  <2>4. bench'.n - 1 = 0 => SplicedTo(bench.n - 1, bench.n - 1)'
    BY <2>3 DEF SplicedTo
  <2> QED  BY <2>1, <2>2, <2>4 DEF ReelIsSpliced
<1>7. FilmIsWhole'
  BY <1>1 DEF FilmIsWhole
<1> QED  BY <1>2, <1>3, <1>4, <1>5, <1>6, <1>7

LEMMA CreditKeeps == ASSUME FilmInv, Credit PROVE FilmInv'
<1> DEFINE file == <<"credit", 0>>
           piece == Piece("credit", Final, <<>>, knobs.sound)
<1>1. /\ bench.do = "credit" /\ bench' = [do |-> "splice", n |-> 1, credit |-> TRUE]
      /\ UNCHANGED <<script, knobs, cut, reel, film, shown, credited, takes>>
  BY DEF Credit, At
<1>2. DOMAIN shelf' = DOMAIN shelf \cup {file} /\ shelf'[file] = piece
      /\ \A f \in DOMAIN shelf \ {file} : shelf'[f] = shelf[f]
  <2>1. shelf' = Shelved(file, piece)
    BY DEF Credit
  <2> HIDE DEF file, piece
  <2> QED  BY <2>1 DEF Shelved
<1>3. /\ bench'.do = "splice" /\ bench'.n = 1 /\ bench'.credit
      /\ bench' \in [do : Works \cup {"rest"}, n : Nat, credit : BOOLEAN]
  BY <1>1 DEF Works
<1>4. \A n \in Nat : <<"seg", n>> # file /\ <<"hold", n>> # file
  OBVIOUS
<1>5. /\ \A n \in Nat : <<"seg", n>> \in DOMAIN shelf =>
           <<"seg", n>> \in DOMAIN shelf' /\ shelf'[<<"seg", n>>] = shelf[<<"seg", n>>]
      /\ \A k \in Nat : <<"hold", k>> \in DOMAIN shelf' =>
           <<"hold", k>> \in DOMAIN shelf /\ shelf'[<<"hold", k>>] = shelf[<<"hold", k>>]
  <2> HIDE DEF file, piece
  <2> QED  BY <1>2, <1>4
<1>6. FilmTypeOK' /\ ScenesDone' /\ CutIsBegun' /\ HoldsHold' /\ ReelIsSpliced' /\ FilmIsWhole'
  BY <1>1, <1>3, <1>5, ToTheSplice
<1>7. CreditDone'
  <2>1. knobs'.credit
    BY <1>1 DEF FilmInv, CreditDone
  <2>2. Piece("credit", Final, <<>>, knobs.sound)' = piece
    BY <1>1 DEF Piece, Mood, Final
  <2> QED  BY <1>2, <1>3, <2>1, <2>2 DEF CreditDone, Lies
<1> QED  BY <1>6, <1>7 DEF FilmInv

LEMMA CreditFailsKeeps == ASSUME FilmInv, CreditFails PROVE FilmInv'
<1> DEFINE file == <<"card", 0>>
<1>1. /\ bench.do = "credit" /\ bench' = [do |-> "splice", n |-> 1, credit |-> FALSE]
      /\ UNCHANGED <<script, knobs, cut, reel, film, shown, credited, takes>>
      /\ shelf' = shelf \/ shelf' = Shelved(file, Torn)
  BY DEF CreditFails, At
<1>2. /\ bench'.do = "splice" /\ bench'.n = 1 /\ ~bench'.credit
      /\ bench' \in [do : Works \cup {"rest"}, n : Nat, credit : BOOLEAN]
  BY <1>1 DEF Works
<1>3. \A n \in Nat : <<"seg", n>> # file /\ <<"hold", n>> # file
  OBVIOUS
<1>4. /\ \A n \in Nat : <<"seg", n>> \in DOMAIN shelf =>
           <<"seg", n>> \in DOMAIN shelf' /\ shelf'[<<"seg", n>>] = shelf[<<"seg", n>>]
      /\ \A k \in Nat : <<"hold", k>> \in DOMAIN shelf' =>
           <<"hold", k>> \in DOMAIN shelf /\ shelf'[<<"hold", k>>] = shelf[<<"hold", k>>]
  <2> HIDE DEF file
  <2>1. CASE shelf' = shelf
    BY <2>1
  <2>2. CASE shelf' = Shelved(file, Torn)
    BY <1>3, <2>2 DEF Shelved
  <2> QED  BY <1>1, <2>1, <2>2
<1>5. FilmTypeOK' /\ ScenesDone' /\ CutIsBegun' /\ HoldsHold' /\ ReelIsSpliced' /\ FilmIsWhole'
  BY <1>1, <1>2, <1>4, ToTheSplice
<1>6. CreditDone'
  BY <1>2 DEF CreditDone
<1> QED  BY <1>5, <1>6 DEF FilmInv

-----------------------------------------------------------------------------
(* The boundaries. *)

LEMMA SegmentsAreReels ==
  ASSUME FilmInv, NEW n \in Nat
  PROVE  SceneSegment(n) \in Reels /\ Segment(DarkFile(n), FALSE, FALSE) \in Reels
<1>1. bench.credit \in BOOLEAN
  BY DEF FilmInv, FilmTypeOK
<1>2. (n < Final \/ bench.credit) \in BOOLEAN /\ (n > 1) \in BOOLEAN
  BY <1>1
<1>3. SceneSegment(n) \in Reels
  BY <1>2 DEF SceneSegment, Segment, Reels
<1>4. DarkFile(n) \in {"seg", "card", "hold", "credit"} \X Nat
  BY DEF DarkFile, HoldFile
<1> QED  BY <1>3, <1>4 DEF Segment, Reels

LEMMA TwoMore ==
  ASSUME NEW n \in Nat \ {0}, NEW l, l = 2 * (n - 1)
  PROVE  /\ l + 2 = 2 * n /\ 2 * n - 1 \in 1 .. l + 2 /\ 2 * n \in 1 .. l + 2
         /\ (2 * n - 1) - l = 1 /\ (2 * n) - l = 2 /\ ~(2 * n - 1 <= l) /\ ~(2 * n <= l)
  OBVIOUS

LEMMA BoundaryKeeps ==
  ASSUME FilmInv, bench.do = "splice", NEW n, n = bench.n, n < Final,
         reel' = reel \o <<SceneSegment(n), Segment(DarkFile(n), FALSE, FALSE)>>,
         bench' = [bench EXCEPT !.n = n + 1],
         UNCHANGED <<script, knobs, cut, film, shown, credited, takes>>,
         DarkDone(n)', HoldsHold', DarkFile(n)[1] \in {"card", "hold"},
         \A f \in DOMAIN shelf : f \in DOMAIN shelf' /\ (f # DarkFile(n) => shelf'[f] = shelf[f])
  PROVE  FilmInv'
<1> USE DEF FilmInv
<1>1. /\ script \in Scripts /\ Final \in Nat \ {0} /\ ~shown /\ Working /\ Final' = Final
      /\ takes \in Nat /\ n \in 1 .. Final - 1 /\ bench \in [do : Works \cup {"rest"}, n : Nat, credit : BOOLEAN]
  BY AtWork DEF Working, Final, FilmTypeOK
<1>2. /\ bench' \in [do : Works \cup {"rest"}, n : Nat, credit : BOOLEAN]
      /\ bench'.do = "splice" /\ bench'.n = n + 1 /\ bench'.credit = bench.credit
  BY <1>1
<1>3. FilmTypeOK'
  BY <1>1, <1>2 DEF FilmTypeOK, Working
<1>4. ScenesDone'
  <2>1. ASSUME NEW m \in 1 .. Final PROVE SceneDone(m)'
    <3>1. SceneDone(m) /\ <<"seg", m>> # DarkFile(n)
      BY <1>1 DEF ScenesDone
    <3>2. <<"seg", m>> \in DOMAIN shelf
      BY <3>1 DEF SceneDone, Lies
    <3> QED  BY <3>1, <3>2, SceneStays
  <2> QED  BY <1>1, <1>2, <2>1 DEF ScenesDone
<1>5. CutIsBegun'
  BY <1>2 DEF CutIsBegun
<1>6. CreditDone'
  <2>1. CASE ~bench.credit
    BY <1>2, <2>1 DEF CreditDone
  <2>2. CASE bench.credit
    <3>1. knobs.credit /\ Lies(<<"credit", 0>>, Piece("credit", Final, <<>>, knobs.sound))
      BY <2>2 DEF CreditDone
    <3>2. <<"credit", 0>> # DarkFile(n) /\ <<"credit", 0>> \in DOMAIN shelf
      BY <3>1 DEF Lies
    <3>3. Piece("credit", Final, <<>>, knobs.sound)' = Piece("credit", Final, <<>>, knobs.sound)
      BY DEF Piece, Mood, Final
    <3> QED  BY <1>2, <3>1, <3>2, <3>3 DEF CreditDone, Lies
  <2> QED  BY <2>1, <2>2
<1>7. ReelIsSpliced'
  <2> DEFINE scene == SceneSegment(n)
             dark == Segment(DarkFile(n), FALSE, FALSE)
             longer == reel \o <<scene, dark>>
  <2>1. reel \in Seq(Reels) /\ Len(reel) = 2 * (n - 1) /\ SplicedTo(n - 1, n - 1)
    BY DEF ReelIsSpliced
  <2>2. <<scene, dark>> \in Seq(Reels) /\ Len(<<scene, dark>>) = 2
        /\ <<scene, dark>>[1] = scene /\ <<scene, dark>>[2] = dark
    <3>1. scene \in Reels /\ dark \in Reels
      BY <1>1, SegmentsAreReels
    <3> HIDE DEF scene, dark
    <3> QED  BY <3>1
  <2>3. /\ longer \in Seq(Reels) /\ Len(longer) = Len(reel) + 2
        /\ \A i \in 1 .. Len(reel) + 2 :
             longer[i] = IF i <= Len(reel) THEN reel[i] ELSE <<scene, dark>>[i - Len(reel)]
    <3> HIDE DEF scene, dark
    <3> QED  BY <2>1, <2>2, ConcatProperties
  <2>4. reel' = longer
    OBVIOUS
  <2> HIDE DEF longer
  <2>5. Len(longer) = 2 * n /\ longer[2 * n - 1] = scene /\ longer[2 * n] = dark
        /\ \A i \in 1 .. 2 * (n - 1) : longer[i] = reel[i]
    <3> HIDE DEF scene, dark
    <3>1. PICK l : l = Len(reel)
      OBVIOUS
    <3>2. n \in Nat \ {0} /\ l = 2 * (n - 1)
      BY <1>1, <2>1, <3>1
    <3>3. /\ l + 2 = 2 * n /\ 2 * n - 1 \in 1 .. l + 2 /\ 2 * n \in 1 .. l + 2
          /\ (2 * n - 1) - l = 1 /\ (2 * n) - l = 2 /\ ~(2 * n - 1 <= l) /\ ~(2 * n <= l)
      BY <3>2, TwoMore, Zenon
    <3>4. longer[2 * n - 1] = <<scene, dark>>[1] /\ longer[2 * n] = <<scene, dark>>[2]
      BY <2>3, <3>1, <3>3
    <3>5. \A i \in 1 .. l : i \in 1 .. l + 2 /\ i <= l
      BY <3>2
    <3>6. \A i \in 1 .. l : longer[i] = reel[i]
      BY <2>3, <3>1, <3>5
    <3> QED  BY <2>2, <2>3, <3>1, <3>2, <3>3, <3>4, <3>6
  <2>6. ASSUME NEW m \in 1 .. n PROVE reel'[2 * m - 1] = SceneSegment(m)'
    <3>1. SceneSegment(m)' = SceneSegment(m)
      BY <1>1, <1>2 DEF SceneSegment, Segment
    <3>2. CASE m = n
      BY <2>4, <2>5, <3>1, <3>2
    <3>3. CASE m \in 1 .. n - 1
      <4>1. reel[2 * m - 1] = SceneSegment(m)
        BY <2>1, <3>3 DEF SplicedTo
      <4>2. 2 * m - 1 \in 1 .. 2 * (n - 1)
        BY <1>1, <3>3
      <4>3. longer[2 * m - 1] = reel[2 * m - 1]
        BY <2>5, <4>2
      <4> QED  BY <2>4, <3>1, <4>1, <4>3
    <3>4. m = n \/ m \in 1 .. n - 1
      BY <1>1
    <3> QED  BY <3>2, <3>3, <3>4
  <2>7. ASSUME NEW m \in 1 .. n
        PROVE reel'[2 * m] = Segment(DarkFile(m), FALSE, FALSE)' /\ DarkDone(m)'
    <3>1. DarkFile(m)' = DarkFile(m) /\ Segment(DarkFile(m), FALSE, FALSE)' = Segment(DarkFile(m), FALSE, FALSE)
      BY <1>1 DEF DarkFile, HoldFile, HasCards, Segment
    <3>2. CASE m = n
      BY <2>4, <2>5, <3>1, <3>2
    <3>3. CASE m \in 1 .. n - 1
      <4>1. reel[2 * m] = Segment(DarkFile(m), FALSE, FALSE) /\ DarkDone(m)
        BY <2>1, <3>3 DEF SplicedTo
      <4>2. 2 * m \in 1 .. 2 * (n - 1)
        BY <1>1, <3>3
      <4>3. DarkFile(m) \in DOMAIN shelf
        BY <4>1 DEF DarkDone, DarkFile, Lies
      <4>6. reel'[2 * m] = reel[2 * m]
        BY <2>4, <2>5, <4>2
      <4>4. CASE HasCards
        <5>1. DarkFile(m) # DarkFile(n)
          BY <1>1, <3>3, <4>4 DEF DarkFile
        <5>2. DarkDone(m)'
          <6>1. DarkFile(m) \in DOMAIN shelf' /\ shelf'[DarkFile(m)] = shelf[DarkFile(m)]
            BY <4>3, <5>1
          <6> QED  BY <4>1, <6>1, DarkStays
        <5> QED  BY <3>1, <4>1, <4>6, <5>2
      <4>5. CASE ~HasCards
        <5>1. HasCards' = HasCards /\ HoldFile(m)' = DarkFile(m)
          BY <1>1, <4>5 DEF HasCards, HoldFile, DarkFile
        <5>2. DarkDone(m)'
          BY <4>3, <4>5, <5>1 DEF DarkDone
        <5> QED  BY <3>1, <4>1, <4>6, <5>2
      <4> QED  BY <4>4, <4>5
    <3>4. m = n \/ m \in 1 .. n - 1
      BY <1>1
    <3> QED  BY <3>2, <3>3, <3>4
  <2>8. bench'.n - 1 = n
    BY <1>1, <1>2
  <2>9. SplicedTo(bench.n - 1, bench.n - 1)'
    BY <2>6, <2>7, <2>8 DEF SplicedTo
  <2>10. reel' \in Seq(Reels)' /\ Len(reel') = 2 * (bench'.n - 1)
    BY <2>3, <2>4, <2>5, <2>8 DEF Reels
  <2> QED  BY <1>2, <2>9, <2>10 DEF ReelIsSpliced
<1>8. FilmIsWhole'
  BY <1>1 DEF FilmIsWhole
<1> QED  BY <1>3, <1>4, <1>5, <1>6, <1>7, <1>8

LEMMA CardBetweenKeeps == ASSUME FilmInv, CardBetween, NEW n, n = bench.n PROVE FilmInv'
<1> DEFINE file == <<"card", n>>
           piece == Piece("card", n + 1, <<>>, knobs.sound)
<1>1. /\ HasCards /\ bench.do = "splice" /\ n < Final
      /\ shelf' = Shelved(file, piece)
      /\ reel' = reel \o <<SceneSegment(n), Segment(file, FALSE, FALSE)>>
      /\ bench' = [bench EXCEPT !.n = n + 1]
      /\ UNCHANGED <<script, knobs, cut, film, shown, credited, takes>>
  BY DEF CardBetween, Boundary, At
<1>2. file = DarkFile(n) /\ file[1] = "card"
  BY <1>1 DEF DarkFile
<1>3. /\ DOMAIN shelf' = DOMAIN shelf \cup {file} /\ shelf'[file] = piece
      /\ \A f \in DOMAIN shelf \ {file} : shelf'[f] = shelf[f]
  <2> HIDE DEF file, piece
  <2> QED  BY <1>1 DEF Shelved
<1>4. DarkDone(n)'
  <2>1. HasCards' /\ Piece("card", n + 1, <<>>, knobs.sound)' = piece
    BY <1>1 DEF HasCards, Piece, Mood, Final
  <2> QED  BY <1>3, <2>1 DEF DarkDone, Lies
<1>5. HoldsHold'
  <2>1. \A k \in Nat : <<"hold", k>> # file
    OBVIOUS
  <2>2. HoldsHold /\ takes \in Nat /\ Working
    BY <1>1 DEF FilmInv, FilmTypeOK, Working
  <2> HIDE DEF file, piece
  <2> QED  BY <1>1, <1>3, <2>1, <2>2, HoldsStay
<1> QED  BY <1>1, <1>2, <1>3, <1>4, <1>5, BoundaryKeeps

LEMMA HoldBetweenKeeps == ASSUME FilmInv, HoldBetween, NEW n, n = bench.n PROVE FilmInv'
<1> USE DEF FilmInv
<1> DEFINE k == IF knobs.sound THEN n ELSE 0
           file == <<"hold", k>>
           new == Piece("hold", n + 1, <<>>, FALSE)
           piece == IF file \in DOMAIN shelf THEN shelf[file] ELSE new
<1>1. /\ ~HasCards /\ bench.do = "splice" /\ n < Final
      /\ shelf' = Shelved(file, piece)
      /\ reel' = reel \o <<SceneSegment(n), Segment(file, FALSE, FALSE)>>
      /\ bench' = [bench EXCEPT !.n = n + 1]
      /\ UNCHANGED <<script, knobs, cut, film, shown, credited, takes>>
  BY DEF HoldBetween, Boundary, At, HoldFile
<1>2. file = DarkFile(n) /\ file[1] = "hold" /\ file = HoldFile(n)
  BY <1>1 DEF DarkFile, HoldFile
<1>3. /\ DOMAIN shelf' = DOMAIN shelf \cup {file} /\ shelf'[file] = piece
      /\ \A f \in DOMAIN shelf \ {file} : shelf'[f] = shelf[f]
  <2> HIDE DEF file, piece
  <2> QED  BY <1>1 DEF Shelved
<1>4. DarkDone(n)'
  <2>1. ~HasCards' /\ HoldFile(n)' = file
    BY <1>1, <1>2 DEF HasCards, HoldFile, Final
  <2> QED  BY <1>3, <2>1 DEF DarkDone
<1>5. /\ takes \in Nat /\ Working /\ n \in Nat \ {0} /\ knobs.sound \in BOOLEAN /\ takes' = takes
  BY <1>1, AtWork DEF FilmTypeOK, Working
<1>6. /\ new.kind = "hold" /\ ~new.hit /\ new.take = takes /\ new.mood = Mood(n + 1)
      /\ ~knobs.sound => new.mood = Silence
  BY DEF Piece, Mood
<1>7. ASSUME NEW j \in Nat, <<"hold", j>> \in DOMAIN shelf'
      PROVE  /\ Hold(j)'.kind = "hold" /\ ~Hold(j)'.hit /\ Hold(j)'.take \in 0 .. takes'
             /\ IF j = 0 THEN Hold(j)'.mood = Silence
                ELSE Working' /\ Hold(j)'.take = takes' => Hold(j)'.mood = Mood(j + 1)'
  <2>1. Mood(j + 1)' = Mood(j + 1) /\ Hold(j)' = shelf'[<<"hold", j>>]
    BY <1>1 DEF Mood, Hold
  <2>2. CASE <<"hold", j>> \in DOMAIN shelf
    <3>1. Hold(j)' = Hold(j)
      BY <1>3, <2>1, <2>2 DEF Hold
    <3>2. /\ Hold(j).kind = "hold" /\ ~Hold(j).hit /\ Hold(j).take \in 0 .. takes
          /\ IF j = 0 THEN Hold(j).mood = Silence
             ELSE Working /\ Hold(j).take = takes => Hold(j).mood = Mood(j + 1)
      BY <2>2 DEF HoldsHold
    <3> QED  BY <1>5, <2>1, <3>1, <3>2
  <2>3. CASE <<"hold", j>> \notin DOMAIN shelf
    <3>1. <<"hold", j>> = file
      <4> HIDE DEF file
      <4> QED  BY <1>3, <1>7, <2>3
    <3>2. j = k /\ Hold(j)' = new
      BY <1>3, <2>1, <2>3, <3>1
    <3> HIDE DEF new
    <3> QED  BY <1>5, <1>6, <2>1, <3>2
  <2> QED  BY <2>2, <2>3
<1>8. HoldsHold'
  BY <1>7 DEF HoldsHold
<1>9. \A f \in DOMAIN shelf : f \in DOMAIN shelf' /\ (f # DarkFile(n) => shelf'[f] = shelf[f])
  <2> HIDE DEF file, piece
  <2> QED  BY <1>2, <1>3
<1> HIDE DEF file, piece
<1>10. reel' = reel \o <<SceneSegment(n), Segment(DarkFile(n), FALSE, FALSE)>> /\ DarkFile(n)[1] \in {"card", "hold"}
  BY <1>1, <1>2
<1> QED  BY <1>1, <1>4, <1>8, <1>9, <1>10, BoundaryKeeps

-----------------------------------------------------------------------------
(* The end of the reel, and the join. *)

LEMMA SpliceKeeps == ASSUME FilmInv, Splice PROVE FilmInv'
<1> USE DEF FilmInv
<1> DEFINE last == SceneSegment(Final)
           end == Segment(<<"credit", 0>>, FALSE, FALSE)
           tail == IF bench.credit THEN <<end>> ELSE <<>>
           most == Append(reel, last)
<1>1. /\ bench.do = "splice" /\ bench.n = Final
      /\ reel' = most \o tail /\ bench' = [bench EXCEPT !.do = "join"]
      /\ UNCHANGED <<script, knobs, cut, shelf, film, shown, credited, takes>>
  BY DEF Splice, At
<1>2. /\ script \in Scripts /\ Final \in Nat \ {0} /\ ~shown /\ Working /\ Final' = Final
      /\ takes \in Nat /\ bench \in [do : Works \cup {"rest"}, n : Nat, credit : BOOLEAN]
  BY <1>1, AtWork DEF Working, Final, FilmTypeOK
<1>3. /\ bench' \in [do : Works \cup {"rest"}, n : Nat, credit : BOOLEAN]
      /\ bench'.do = "join" /\ bench'.n = Final /\ bench'.credit = bench.credit
  BY <1>1, <1>2 DEF Works
<1>4. FilmTypeOK'
  BY <1>1, <1>2, <1>3 DEF FilmTypeOK, Working
<1>5. ScenesDone'
  <2>1. \A n : SceneDone(n) => SceneDone(n)'
    BY <1>1 DEF SceneDone, Lies, Piece, ShotsOf, ShotClip, Shakes, Hits, HasCards, Mood, Final
  <2> QED  BY <1>1, <1>2, <1>3, <2>1 DEF ScenesDone
<1>6. CutIsBegun' /\ CreditDone'
  BY <1>1, <1>3 DEF CutIsBegun, CreditDone, Lies, Piece, Mood, Final
<1>7. HoldsHold'
  BY <1>1, <1>2, HoldsStay
<1>8. ReelIsSpliced'
  <2>1. reel \in Seq(Reels) /\ Len(reel) = 2 * (Final - 1) /\ SplicedTo(Final - 1, Final - 1)
    BY <1>1 DEF ReelIsSpliced
  <2>2. last \in Reels /\ end \in Reels /\ bench.credit \in BOOLEAN
    BY <1>2, SegmentsAreReels DEF Reels, Segment
  <2> HIDE DEF last, end
  <2>3. /\ most \in Seq(Reels) /\ Len(most) = Len(reel) + 1 /\ most[Len(reel) + 1] = last
        /\ \A i \in 1 .. Len(reel) : most[i] = reel[i]
    BY <2>1, <2>2, AppendProperties
  <2>4. /\ tail \in Seq(Reels) /\ Len(tail) = IF bench.credit THEN 1 ELSE 0
        /\ bench.credit => tail[1] = end
    BY <2>2
  <2> HIDE DEF most, tail
  <2>5. /\ reel' \in Seq(Reels) /\ Len(reel') = Len(most) + Len(tail)
        /\ \A i \in 1 .. Len(most) + Len(tail) :
             reel'[i] = IF i <= Len(most) THEN most[i] ELSE tail[i - Len(most)]
    BY <1>1, <2>3, <2>4, ConcatProperties
  <2>6. PICK k : k = Final
    OBVIOUS
  <2>7. k \in Nat \ {0} /\ Len(reel) = 2 * (k - 1) /\ Len(most) = 2 * k - 1
    BY <1>2, <2>1, <2>3, <2>6, TwoMore
  <2>8. Len(reel') = 2 * k - (IF bench.credit THEN 0 ELSE 1)
    BY <2>2, <2>4, <2>5, <2>7
  <2>9. \A i \in 1 .. 2 * k - 1 : reel'[i] = most[i]
    BY <2>2, <2>4, <2>5, <2>7
  <2>10. reel'[2 * k - 1] = last /\ \A i \in 1 .. 2 * (k - 1) : reel'[i] = reel[i]
    BY <2>3, <2>7, <2>9
  <2>11. bench.credit => reel'[2 * k] = end
    BY <2>2, <2>4, <2>5, <2>7
  <2>12. ASSUME NEW m \in 1 .. k PROVE reel'[2 * m - 1] = SceneSegment(m)'
    <3>1. SceneSegment(m)' = SceneSegment(m)
      BY <1>1, <1>2, <1>3 DEF SceneSegment, Segment
    <3>2. CASE m = k
      BY <2>6, <2>10, <3>1, <3>2 DEF last
    <3>3. CASE m \in 1 .. k - 1
      <4>1. reel[2 * m - 1] = SceneSegment(m)
        BY <2>1, <2>6, <3>3 DEF SplicedTo
      <4>2. 2 * m - 1 \in 1 .. 2 * (k - 1)
        BY <2>7, <3>3
      <4> QED  BY <2>10, <3>1, <4>1, <4>2
    <3>4. m = k \/ m \in 1 .. k - 1
      BY <2>7
    <3> QED  BY <3>2, <3>3, <3>4
  <2>13. ASSUME NEW m \in 1 .. k - 1
         PROVE reel'[2 * m] = Segment(DarkFile(m), FALSE, FALSE)' /\ DarkDone(m)'
    <3>1. reel[2 * m] = Segment(DarkFile(m), FALSE, FALSE) /\ DarkDone(m)
      BY <2>1, <2>6 DEF SplicedTo
    <3>2. DarkDone(m)' /\ Segment(DarkFile(m), FALSE, FALSE)' = Segment(DarkFile(m), FALSE, FALSE)
      BY <1>1, <3>1 DEF DarkDone, Lies, Piece, DarkFile, HoldFile, HasCards, Mood, Final,
        Segment
    <3>3. 2 * m \in 1 .. 2 * (k - 1)
      BY <2>7
    <3> QED  BY <2>10, <3>1, <3>2, <3>3
  <2>14. SplicedTo(Final, Final - 1)'
    BY <1>2, <2>6, <2>12, <2>13 DEF SplicedTo
  <2>15. end' = end
    BY DEF end, Segment
  <2>16. reel' \in Seq(Reels)'
    BY <2>5 DEF Reels
  <2> QED  BY <1>2, <1>3, <2>6, <2>8, <2>11, <2>14, <2>15, <2>16 DEF ReelIsSpliced, end
<1>9. FilmIsWhole'
  BY <1>1, <1>2 DEF FilmIsWhole
<1> QED  BY <1>4, <1>5, <1>6, <1>7, <1>8, <1>9

\* What is joined, piece by piece: scene n, the dark after it, the credit.
LEMMA WhatIsJoined ==
  ASSUME FilmInv, bench.do = "join", film' = Joined
  PROVE  /\ Len(film') = 2 * Final - (IF bench.credit THEN 0 ELSE 1) /\ DOMAIN film' = 1 .. Len(film')
         /\ \A n \in 1 .. Final :
              /\ film'[2 * n - 1].of = Piece("scene", n, ShotsOf(n), Hits(n))
              /\ film'[2 * n - 1].in = (n > 1) /\ film'[2 * n - 1].out = (n < Final \/ bench.credit)
         /\ \A n \in 1 .. Final - 1 :
              LET dark == film'[2 * n].of
              IN  /\ HasCards => dark = Piece("card", n + 1, <<>>, knobs.sound)
                  /\ ~HasCards => /\ dark.kind = "hold" /\ ~dark.hit /\ dark.take \in 0 .. takes
                                  /\ dark.mood = Mood(n + 1) \/ dark.take < takes
         /\ bench.credit => film'[2 * Final].of.kind = "credit"
<1> USE DEF FilmInv
<1>1. /\ Final \in Nat \ {0} /\ takes \in Nat /\ bench.credit \in BOOLEAN /\ Working /\ knobs.sound \in BOOLEAN
      /\ reel \in Seq(Reels) /\ Len(reel) = 2 * Final - (IF bench.credit THEN 0 ELSE 1) /\ SplicedTo(Final, Final - 1)
      /\ bench.credit => reel[2 * Final] = Segment(<<"credit", 0>>, FALSE, FALSE)
  BY AtWork DEF FilmTypeOK, Working, ReelIsSpliced
<1>2. Len(reel) \in Nat /\ DOMAIN reel = 1 .. Len(reel)
  BY <1>1, LenProperties
<1> DEFINE of(i) == [of |-> shelf[reel[i].file], in |-> reel[i].in, out |-> reel[i].out]
<1>3. film' = [i \in 1 .. Len(reel) |-> of(i)]
  BY <1>2 DEF Joined
<1>4. Len(film') = Len(reel) /\ DOMAIN film' = 1 .. Len(reel)
  <2> HIDE DEF of
  <2>1. film' \in [1 .. Len(reel) -> {of(i) : i \in 1 .. Len(reel)}]
    BY <1>3
  <2>2. film' \in Seq({of(i) : i \in 1 .. Len(reel)})
    BY <1>2, <2>1, SeqDef
  <2>3. DOMAIN film' = 1 .. Len(film') /\ Len(film') \in Nat
    BY <2>2, LenProperties
  <2> QED  BY <1>2, <1>3, <2>3
<1>5. \A i \in 1 .. Len(reel) :
        film'[i].of = shelf[reel[i].file] /\ film'[i].in = reel[i].in /\ film'[i].out = reel[i].out
  BY <1>3
<1>6. ASSUME NEW n \in 1 .. Final
      PROVE  /\ film'[2 * n - 1].of = Piece("scene", n, ShotsOf(n), Hits(n))
             /\ film'[2 * n - 1].in = (n > 1) /\ film'[2 * n - 1].out = (n < Final \/ bench.credit)
  <2>1. 2 * n - 1 \in 1 .. Len(reel)
    BY <1>1
  <2>2. reel[2 * n - 1] = SceneSegment(n)
    BY <1>1 DEF SplicedTo
  <2>3. SceneDone(n)
    BY DEF ScenesDone
  <2>4. /\ film'[2 * n - 1].of = shelf[SceneSegment(n).file]
        /\ film'[2 * n - 1].in = SceneSegment(n).in /\ film'[2 * n - 1].out = SceneSegment(n).out
    BY <1>5, <2>1, <2>2
  <2> QED  BY <2>3, <2>4 DEF SceneSegment, Segment, SceneDone, Lies
<1>7. ASSUME NEW n \in 1 .. Final - 1
      PROVE  LET dark == film'[2 * n].of
             IN  /\ HasCards => dark = Piece("card", n + 1, <<>>, knobs.sound)
                 /\ ~HasCards => /\ dark.kind = "hold" /\ ~dark.hit /\ dark.take \in 0 .. takes
                                 /\ dark.mood = Mood(n + 1) \/ dark.take < takes
  <2>1. 2 * n \in 1 .. Len(reel)
    BY <1>1
  <2>2. reel[2 * n] = Segment(DarkFile(n), FALSE, FALSE) /\ DarkDone(n)
    BY <1>1 DEF SplicedTo
  <2>3. film'[2 * n].of = shelf[DarkFile(n)]
    BY <1>5, <2>1, <2>2 DEF Segment
  <2>4. CASE HasCards
    BY <2>2, <2>3, <2>4 DEF DarkFile, DarkDone, Lies
  <2>5. CASE ~HasCards
    <3> DEFINE k == IF knobs.sound THEN n ELSE 0
    <3>1. k \in Nat /\ <<"hold", k>> \in DOMAIN shelf /\ film'[2 * n].of = Hold(k)
      BY <2>2, <2>3, <2>5 DEF DarkDone, DarkFile, HoldFile, Hold
    <3>2. /\ Hold(k).kind = "hold" /\ ~Hold(k).hit /\ Hold(k).take \in 0 .. takes
          /\ IF k = 0 THEN Hold(k).mood = Silence
             ELSE Working /\ Hold(k).take = takes => Hold(k).mood = Mood(k + 1)
      BY <3>1 DEF HoldsHold
    <3>3. Hold(k).mood = Mood(n + 1) \/ Hold(k).take < takes
      <4>1. CASE knobs.sound
        <5>1. k = n /\ k # 0
          BY <1>1, <4>1
        <5>2. Hold(k).take = takes \/ Hold(k).take < takes
          BY <1>1, <3>2
        <5> QED  BY <1>1, <3>2, <5>1, <5>2
      <4>2. CASE ~knobs.sound
        BY <3>2, <4>2 DEF Mood
      <4> QED  BY <4>1, <4>2
    <3> QED  BY <2>5, <3>1, <3>2, <3>3
  <2> QED  BY <2>4, <2>5
<1>8. bench.credit => film'[2 * Final].of.kind = "credit"
  <2> SUFFICES ASSUME bench.credit PROVE film'[2 * Final].of.kind = "credit"
    OBVIOUS
  <2>1. 2 * Final \in 1 .. Len(reel)
    BY <1>1
  <2>2. reel[2 * Final].file = <<"credit", 0>>
    BY <1>1 DEF Segment
  <2>3. shelf[<<"credit", 0>>].kind = "credit"
    BY DEF CreditDone, Lies, Piece
  <2> QED  BY <1>5, <2>1, <2>2, <2>3
<1> QED  BY <1>1, <1>4, <1>6, <1>7, <1>8

LEMMA OddOrEven ==
  ASSUME NEW k \in Nat \ {0}, NEW i \in 1 .. 2 * k
  PROVE  \/ \E n \in 1 .. k : i = 2 * n - 1 /\ i % 2 = 1
         \/ \E n \in 1 .. k : i = 2 * n /\ i % 2 = 0
<1>1. i % 2 \in {0, 1} /\ i = 2 * (i \div 2) + (i % 2) /\ i \div 2 \in Nat
  OBVIOUS
<1>2. CASE i % 2 = 0
  <2>1. i \div 2 \in 1 .. k /\ i = 2 * (i \div 2)
    BY <1>1, <1>2
  <2> QED  BY <1>2, <2>1
<1>3. CASE i % 2 = 1
  <2>1. (i \div 2) + 1 \in 1 .. k /\ i = 2 * ((i \div 2) + 1) - 1
    BY <1>1, <1>3
  <2> QED  BY <1>3, <2>1
<1> QED  BY <1>1, <1>2, <1>3

LEMMA JoinKeeps == ASSUME FilmInv, Join PROVE FilmInv'
<1> USE DEF FilmInv
<1>1. /\ bench.do = "join" /\ film' = Joined /\ shown' = TRUE /\ bench' = NoWork /\ reel' = <<>>
      /\ credited' = IF knobs.credit THEN IF bench.credit THEN "none" ELSE "failed" ELSE credited
      /\ UNCHANGED <<script, knobs, cut, takes>>
      /\ bench'.do = "rest" /\ ~bench'.credit /\ ~Working' /\ Working
  BY DEF Join, At, NoWork, Working
<1>2. /\ script \in Scripts /\ Final \in Nat \ {0} /\ Final' = Final /\ takes \in Nat /\ bench.credit \in BOOLEAN
      /\ \A n \in 1 .. Final : script[n].plan \in Seq(STRING) /\ Len(script[n].plan) \in Nat \ {0}
      /\ knobs \in [cards : BOOLEAN, sound : BOOLEAN, noise : BOOLEAN, credit : BOOLEAN]
  BY <1>1, AtWork DEF Final, FilmTypeOK
<1>3. FilmTypeOK'
  BY <1>1, <1>2 DEF FilmTypeOK, NoWork, Working
<1>4. ScenesDone' /\ CutIsBegun' /\ CreditDone' /\ ReelIsSpliced'
  <2>1. reel' \in Seq(Reels)' /\ cut = <<>>
    BY <1>1, EmptySeq DEF CutIsBegun
  <2> QED  BY <1>1, <2>1 DEF ScenesDone, CutIsBegun, CreditDone, ReelIsSpliced
<1>5. HoldsHold'
  <2>1. \A f \in DOMAIN shelf' : f \in DOMAIN shelf /\ shelf'[f] = shelf[f]
    BY DEF Join
  <2> QED  BY <1>1, <1>2, <2>1, HoldsStay
<1>6. /\ Len(film') = 2 * Final - (IF bench.credit THEN 0 ELSE 1) /\ DOMAIN film' = 1 .. Len(film')
      /\ \A n \in 1 .. Final :
           /\ film'[2 * n - 1].of = Piece("scene", n, ShotsOf(n), Hits(n))
           /\ film'[2 * n - 1].in = (n > 1) /\ film'[2 * n - 1].out = (n < Final \/ bench.credit)
      /\ \A n \in 1 .. Final - 1 :
           /\ HasCards => film'[2 * n].of = Piece("card", n + 1, <<>>, knobs.sound)
           /\ ~HasCards => /\ film'[2 * n].of.kind = "hold" /\ ~film'[2 * n].of.hit
                           /\ film'[2 * n].of.take \in 0 .. takes
                           /\ film'[2 * n].of.mood = Mood(n + 1) \/ film'[2 * n].of.take < takes
      /\ bench.credit => film'[2 * Final].of.kind = "credit"
  BY <1>1, WhatIsJoined
<1>7. bench.credit => knobs.credit
  BY DEF CreditDone
<1>8. \A n \in 1 .. Final : film'[2 * n - 1].of.kind = "scene"
  <2> TAKE n \in 1 .. Final
  <2>1. film'[2 * n - 1].of = Piece("scene", n, ShotsOf(n), Hits(n))
    BY <1>6
  <2> QED  BY <2>1 DEF Piece
<1>9. \A n \in 1 .. Final - 1 : film'[2 * n].of.kind \in {"card", "hold"}
  <2> TAKE n \in 1 .. Final - 1
  <2>1. CASE HasCards
    <3>1. film'[2 * n].of = Piece("card", n + 1, <<>>, knobs.sound)
      BY <1>6, <2>1
    <3> QED  BY <3>1 DEF Piece
  <2>2. CASE ~HasCards
    <3>1. film'[2 * n].of.kind = "hold"
      BY <1>6, <2>2
    <3> QED  BY <3>1
  <2> QED  BY <2>1, <2>2
<1>10. ASSUME NEW i \in DOMAIN film', i % 2 = 0 PROVE IsDark(i)'
  <2>1. i \in 1 .. 2 * Final
    BY <1>2, <1>6
  <2>2. PICK n \in 1 .. Final : i = 2 * n
    BY <1>2, <1>10, <2>1, OddOrEven
  <2>3. CASE n \in 1 .. Final - 1
    BY <1>9, <2>2, <2>3 DEF IsDark
  <2>4. CASE n = Final
    <3>1. bench.credit
      BY <1>2, <1>6, <2>2, <2>4
    <3> QED  BY <1>6, <2>2, <2>4, <3>1 DEF IsDark
  <2> QED  BY <1>2, <2>3, <2>4
<1>11. ScenesInOrder'
  <2>1. Len(film') = 2 * Final' - (IF credited' = "none" /\ knobs'.credit THEN 0 ELSE 1)
    <3>1. (credited' = "none" /\ knobs'.credit) <=> bench.credit
      BY <1>1, <1>2, <1>7
    <3> QED  BY <1>2, <1>6, <3>1
  <2>2. ASSUME NEW n \in 1 .. Final
        PROVE  LET piece == film'[SceneAt(n)].of
               IN  /\ piece.kind = "scene" /\ piece.take = takes'
                   /\ [i \in DOMAIN piece.clips |-> piece.clips[i].shot] = script'[n].plan
    <3> DEFINE piece == film'[SceneAt(n)].of
               plan == script[n].plan
    <3>1. piece = Piece("scene", n, ShotsOf(n), Hits(n))
      BY <1>6 DEF SceneAt
    <3>2. piece.kind = "scene" /\ piece.take = takes /\ piece.clips = ShotsOf(n)
      BY <3>1 DEF Piece
    <3>3. /\ DOMAIN piece.clips = 1 .. Len(plan)
          /\ \A i \in 1 .. Len(plan) : piece.clips[i].shot = plan[i]
      BY <3>2 DEF ShotsOf, ShotClip
    <3>4. plan = [i \in 1 .. Len(plan) |-> plan[i]]
      BY <1>2
    <3>5. [i \in DOMAIN piece.clips |-> piece.clips[i].shot] = plan
      <4> HIDE DEF piece, plan
      <4> QED  BY <3>3, <3>4
    <3> QED  BY <1>1, <3>2, <3>5
  <2> QED  BY <1>2, <1>10, <2>1, <2>2 DEF ScenesInOrder
<1>12. CutsAreDark'
  <2> SUFFICES ASSUME NEW i \in DOMAIN film', film'[i].of.kind = "scene"
      PROVE  film'[i].in = (i > 1) /\ film'[i].out = (i < Len(film'))
    BY DEF CutsAreDark, Wholes
  <2>1. i \in 1 .. 2 * Final
    BY <1>2, <1>6
  <2>2. ~(i % 2 = 0)
    BY <1>10 DEF IsDark
  <2>3. PICK n \in 1 .. Final : i = 2 * n - 1
    BY <1>2, <2>1, <2>2, OddOrEven
  <2>4. (n > 1) = (i > 1)
    BY <1>2, <2>3
  <2>5. (n < Final \/ bench.credit) = (i < Len(film'))
    BY <1>2, <1>6, <2>3
  <2> QED  BY <1>6, <2>3, <2>4, <2>5
<1>13. ASSUME NEW n \in 1 .. Final, n > 1
       PROVE  /\ SceneAt(n) - 1 = 2 * (n - 1) /\ n - 1 \in 1 .. Final - 1 /\ n - 1 + 1 = n
  BY <1>2, <1>13 DEF SceneAt
<1>14. OneHitEach'
  <2> SUFFICES ASSUME NEW n \in 1 .. Final
      PROVE  LET piece == film'[SceneAt(n)].of
             IN  /\ HitsBefore(n)' = (IF knobs.sound THEN 1 ELSE 0)
                 /\ \A i \in DOMAIN piece.clips : piece.clips[i].shaken => i = 1 /\ piece.hit
    BY <1>1, <1>2 DEF OneHitEach
  <2> DEFINE piece == film'[SceneAt(n)].of
  <2>1. piece = Piece("scene", n, ShotsOf(n), Hits(n))
    BY <1>6 DEF SceneAt
  <2>2. piece.hit = Hits(n) /\ piece.clips = ShotsOf(n)
    BY <2>1 DEF Piece
  <2>3. \A i \in DOMAIN piece.clips : piece.clips[i].shaken => i = 1 /\ piece.hit
    <3> TAKE i \in DOMAIN piece.clips
    <3>1. piece.clips[i] = ShotClip(n, i)
      BY <2>2 DEF ShotsOf
    <3>2. piece.clips[i].shaken = Shakes(n, i)
      BY <3>1 DEF ShotClip
    <3> QED  BY <2>2, <3>2 DEF Shakes
  <2>4. HitsBefore(n)' = (IF piece.hit THEN 1 ELSE 0) + (IF n > 1 /\ film'[SceneAt(n) - 1].of.hit THEN 1 ELSE 0)
    BY DEF HitsBefore
  <2>5. CASE n = 1
    <3>1. Hits(n) <=> knobs.sound
      BY <2>5 DEF Hits
    <3> QED  BY <1>2, <2>2, <2>3, <2>4, <2>5, <3>1
  <2>6. CASE n > 1 /\ HasCards
    <3>1. film'[SceneAt(n) - 1].of.hit = knobs.sound
      <4>1. film'[2 * (n - 1)].of = Piece("card", n - 1 + 1, <<>>, knobs.sound)
        BY <1>6, <1>13, <2>6
      <4> QED  BY <1>13, <2>6, <4>1 DEF Piece
    <3>2. ~Hits(n)
      BY <2>6 DEF Hits
    <3> QED  BY <1>2, <2>2, <2>3, <2>4, <2>6, <3>1, <3>2
  <2>7. CASE n > 1 /\ ~HasCards
    <3>1. ~film'[SceneAt(n) - 1].of.hit
      BY <1>6, <1>13, <2>7
    <3>2. Hits(n) <=> knobs.sound
      BY <2>7 DEF Hits
    <3> QED  BY <1>2, <2>2, <2>3, <2>4, <2>7, <3>1, <3>2
  <2> QED  BY <1>2, <2>5, <2>6, <2>7
<1>15. DarkIsOfTheNext'
  <2> SUFFICES ASSUME NEW n \in 2 .. Final
      PROVE  LET dark == film'[SceneAt(n) - 1].of
             IN  dark.mood = Mood(n)' \/ (dark.kind = "hold" /\ dark.take < takes')
    BY <1>2 DEF DarkIsOfTheNext
  <2>1. n \in 1 .. Final /\ n > 1 /\ Mood(n)' = Mood(n)
    BY <1>1, <1>2 DEF Mood
  <2>2. CASE HasCards
    <3>1. film'[2 * (n - 1)].of = Piece("card", n - 1 + 1, <<>>, knobs.sound)
      BY <1>6, <1>13, <2>1, <2>2
    <3>2. film'[2 * (n - 1)].of.mood = Mood(n - 1 + 1)
      BY <3>1 DEF Piece
    <3> QED  BY <1>13, <2>1, <3>2
  <2>3. CASE ~HasCards
    <3>1. film'[2 * (n - 1)].of.kind = "hold"
          /\ (film'[2 * (n - 1)].of.mood = Mood(n - 1 + 1) \/ film'[2 * (n - 1)].of.take < takes)
      BY <1>6, <1>13, <2>1, <2>3
    <3> QED  BY <1>1, <1>13, <2>1, <3>1
  <2> QED  BY <2>2, <2>3
<1> QED  BY <1>3, <1>4, <1>5, <1>11, <1>12, <1>14, <1>15 DEF FilmIsWhole

LEMMA FilmStep == FilmInv /\ [FilmNext]_filmVars => FilmInv'
<1> SUFFICES ASSUME FilmInv, [FilmNext]_filmVars PROVE FilmInv'
  OBVIOUS
<1>1. PICK n : n = bench.n
  OBVIOUS
<1>2. CASE Rewrite \/ Take \/ Stopped
  BY <1>2, RewriteKeeps, TakeKeeps, StoppedKeeps
<1>3. CASE Cut \/ RenderFast \/ AssembleCuts
  BY <1>1, <1>3, CutKeeps, RenderFastKeeps, AssembleCutsKeeps
<1>4. CASE Credit \/ CreditFails
  BY <1>4, CreditKeeps, CreditFailsKeeps
<1>5. CASE CardBetween \/ HoldBetween
  BY <1>1, <1>5, CardBetweenKeeps, HoldBetweenKeeps
<1>6. CASE Splice \/ Join
  BY <1>6, SpliceKeeps, JoinKeeps
<1>7. CASE UNCHANGED filmVars
  <2> USE <1>7 DEF filmVars, FilmInv
  <2>1. FilmTypeOK'
    BY DEF FilmTypeOK, Working, Final
  <2>2. ScenesDone'
    <3>1. \A k : SceneDone(k) => SceneDone(k)'
      BY DEF SceneDone, Lies, Piece, ShotsOf, ShotClip, Shakes, Hits, HasCards, Mood, Final
    <3> QED  BY <3>1 DEF ScenesDone, Final
  <2>3. CutIsBegun'
    BY DEF CutIsBegun, Plan, OnePass, ShotClip, Shakes, Hits, HasCards, Final
  <2>4. CreditDone'
    BY DEF CreditDone, Lies, Piece, Mood, Final
  <2>5. HoldsHold'
    BY DEF HoldsHold, Hold, Working, Mood
  <2>6. ReelIsSpliced'
    <3>1. \A k : DarkDone(k) => DarkDone(k)'
      BY DEF DarkDone, Lies, Piece, DarkFile, HoldFile, HasCards, Mood, Final
    <3>2. \A k, l : SplicedTo(k, l) => SplicedTo(k, l)'
      BY <3>1 DEF SplicedTo, SceneSegment, Segment, DarkFile, HoldFile, HasCards, Final
    <3> QED  BY <3>2 DEF ReelIsSpliced, Reels, Segment, Final
  <2>7. FilmIsWhole'
    <3>1. ScenesInOrder => ScenesInOrder'
      BY DEF ScenesInOrder, SceneAt, IsDark, Final
    <3>2. CutsAreDark => CutsAreDark'
      BY DEF CutsAreDark, Wholes
    <3>3. OneHitEach => OneHitEach'
      BY DEF OneHitEach, HitsBefore, SceneAt, Final
    <3>4. DarkIsOfTheNext => DarkIsOfTheNext'
      BY DEF DarkIsOfTheNext, SceneAt, Mood, Final
    <3> QED  BY <3>1, <3>2, <3>3, <3>4 DEF FilmIsWhole
  <2> QED  BY <2>1, <2>2, <2>3, <2>4, <2>5, <2>6, <2>7
<1> QED  BY <1>2, <1>3, <1>4, <1>5, <1>6, <1>7 DEF FilmNext

-----------------------------------------------------------------------------
(* The least of a set of naturals, and what goes from each to the next.      *)

LEMMA NaturalsAreOrdered ==
  \E R : /\ IsWellFoundedOn(R, Nat)
         /\ \A x, y \in Nat : <<x, y>> \in R <=> x < y
<1>1. IsWellFoundedOn(OpToRel(<, Nat), Nat)
  BY NatLessThanWellFounded
<1>2. \A x, y \in Nat : <<x, y>> \in OpToRel(<, Nat) <=> x < y
  BY DEF OpToRel
<1> QED  BY <1>1, <1>2, Zenon

LEMMA LeastIsThere ==
  ASSUME NEW S \in SUBSET Nat, S # {}
  PROVE  \E x \in S : \A y \in S : x <= y
<1>1. PICK R : IsWellFoundedOn(R, Nat) /\ \A x, y \in Nat : <<x, y>> \in R <=> x < y
  BY NaturalsAreOrdered, Zenon
<1>0. IsWellFoundedOn(R, Nat) /\ S \subseteq Nat
  BY <1>1
<1>2. PICK x \in S : \A y \in S : ~ (<<y, x>> \in R)
  BY <1>0, WFMin, Zenon
<1>3. ASSUME NEW y \in S PROVE x <= y
  <2>1. x \in Nat /\ y \in Nat
    OBVIOUS
  <2>2. ~ (y < x)
    BY <2>1, <1>1, <1>2
  <2> QED  BY <2>1, <2>2
<1> QED  BY <1>3, Zenon

LEMMA MinIsLeast ==
  ASSUME NEW S \in SUBSET Nat, S # {}
  PROVE  Min(S) \in S /\ \A y \in S : Min(S) <= y
<1>1. \E x \in S : \A y \in S : x <= y
  BY LeastIsThere
<1> QED  BY <1>1, Zenon DEF Min

-----------------------------------------------------------------------------
(* Recursion over 0 .. n: what holds of the first and goes from each to the *)
(* next holds of all, and a function so defined is there.                   *)

LEMMA FromEachToTheNext ==
  ASSUME NEW n \in Nat, NEW P, 0 \in P, \A i \in 1 .. n : i - 1 \in P => i \in P
  PROVE  \A i \in 0 .. n : i \in P
<1> DEFINE open == {i \in 0 .. n : i \notin P}
<1>1. SUFFICES ASSUME open # {}  PROVE FALSE
  OBVIOUS
<1>2. PICK least \in open : \A i \in open : least <= i
  <2>1. open \in SUBSET Nat
    OBVIOUS
  <2> HIDE DEF open
  <2> QED  BY <1>1, <2>1, LeastIsThere
<1>3. least \in 1 .. n
  BY <1>2
<1>4. least - 1 \in 0 .. n /\ least - 1 \notin open
  BY <1>2, <1>3
<1> QED  BY <1>2, <1>3, <1>4

Recurses(f, n, S, base, next) ==
  /\ f \in [0 .. n -> S] /\ f[0] = base
  /\ \A i \in 1 .. n : f[i] = next[i][f[i - 1]]

LEMMA OneMoreAnswered ==
  ASSUME NEW n \in Nat, NEW S, NEW base \in S, NEW next \in [1 .. n -> [S -> S]],
         NEW m \in 1 .. n, NEW f, Recurses(f, m - 1, S, base, next)
  PROVE  \E g : Recurses(g, m, S, base, next)
<1> DEFINE g == [i \in 0 .. m |-> IF i = m THEN next[m][f[m - 1]] ELSE f[i]]
<1>1. f \in [0 .. m - 1 -> S] /\ m - 1 \in 0 .. m - 1
  BY DEF Recurses
<1>2. next[m] \in [S -> S]
  OBVIOUS
<1>3. next[m][f[m - 1]] \in S
  BY <1>1, <1>2
<1>4. g \in [0 .. m -> S]
  BY <1>1, <1>3
<1>5. g[m] = next[m][f[m - 1]] /\ \A i \in 0 .. m - 1 : g[i] = f[i]
  OBVIOUS
<1>6. g[0] = base
  BY <1>5 DEF Recurses
<1>7. ASSUME NEW i \in 1 .. m  PROVE g[i] = next[i][g[i - 1]]
  <2>1. i - 1 \in 0 .. m - 1 /\ g[i - 1] = f[i - 1]
    BY <1>5
  <2>2. CASE i = m
    BY <1>5, <2>1, <2>2
  <2>3. CASE i # m
    <3>1. i \in 1 .. m - 1
      BY <2>3
    <3>2. f[i] = next[i][f[i - 1]] /\ g[i] = f[i]
      BY <1>5, <3>1 DEF Recurses
    <3> QED  BY <2>1, <3>2
  <2> QED  BY <2>2, <2>3
<1> HIDE DEF g
<1> QED  BY <1>4, <1>6, <1>7 DEF Recurses

Steps(n, S) == [1 .. n -> [S -> S]]
LEMMA RecursionIsAnswered ==
  ASSUME NEW n \in Nat, NEW S, NEW base \in S, NEW next \in Steps(n, S)
  PROVE  \E f : Recurses(f, n, S, base, next)
<1> DEFINE P == {m \in 0 .. n : \E f : Recurses(f, m, S, base, next)}
<1>0. next \in [1 .. n -> [S -> S]]
  BY DEF Steps
<1>1. 0 \in P
  <2>1. Recurses([i \in 0 .. 0 |-> base], 0, S, base, next)
    BY DEF Recurses
  <2> QED  BY <2>1
<1>2. ASSUME NEW i \in 1 .. n, i - 1 \in P  PROVE i \in P
  <2>1. PICK f : Recurses(f, i - 1, S, base, next)
    BY <1>2
  <2>2. \E g : Recurses(g, i, S, base, next)
    BY <1>0, <2>1, OneMoreAnswered
  <2> QED  BY <2>2
<1>3. n \in 0 .. n /\ \A i \in 1 .. n : i - 1 \in P => i \in P
  BY <1>2
<1> HIDE DEF P
<1>4. n \in P
  BY <1>1, <1>3, FromEachToTheNext
<1> QED  BY <1>4 DEF P

-----------------------------------------------------------------------------
(* A sequence of sequences, put end to end.                                  *)

Flattens(f, q, n) == f[0] = << >> /\ \A i \in 1 .. n : f[i] = f[i - 1] \o q[i]

LEMMA FlattenedIs ==
  ASSUME NEW n \in Nat, NEW S, NEW q \in [1 .. n -> Seq(S)]
  PROVE  \E f \in [0 .. n -> Seq(S)] : Flattens(f, q, n) /\ FlattenSeq(q) = f[n]
<1> DEFINE T == Seq(S)
           next == [i \in 1 .. n |-> [s \in T |-> s \o q[i]]]
<1>1. \A s \in T : \A i \in 1 .. n : s \o q[i] \in T
  <2> TAKE s \in T
  <2> TAKE i \in 1 .. n
  <2>1. q[i] \in Seq(S)
    OBVIOUS
  <2> HIDE DEF T
  <2> QED  BY <2>1, ConcatProperties DEF T
<1>2. next \in [1 .. n -> [T -> T]] /\ << >> \in T
  BY <1>1
<1>3. \A i \in 1 .. n : \A s \in T : next[i][s] = s \o q[i]
  OBVIOUS
<1> HIDE DEF T, next
<1>4. PICK f : Recurses(f, n, T, << >>, next)
  <2>1. next \in Steps(n, T)
    BY <1>2 DEF Steps
  <2> QED  BY <1>2, <2>1, RecursionIsAnswered
<1>5. f \in [0 .. n -> T] /\ f[0] = << >> /\ \A i \in 1 .. n : f[i] = f[i - 1] \o q[i]
  <2>1. f \in [0 .. n -> T] /\ f[0] = << >> /\ \A i \in 1 .. n : f[i] = next[i][f[i - 1]]
    BY <1>4 DEF Recurses
  <2>2. \A i \in 1 .. n : f[i - 1] \in T
    BY <2>1
  <2> QED  BY <1>3, <2>1, <2>2
<1>6. Flattens(f, q, n)
  BY <1>5 DEF Flattens
<1>7. q \in Seq(T) /\ Len(q) = n
  BY DEF T
<1>8. FlattenSeq(q) = f[n]
  <2>1. CASE n = 0
    <3>1. Len(q) = 0 /\ q = << >>
      BY <1>7, <2>1
    <3> QED  BY <1>5, <2>1, <3>1 DEF FlattenSeq
  <2>2. CASE n # 0
    <3> DEFINE Laid(h) == h = [i \in 1 .. n |-> IF i = 1 THEN q[i] ELSE h[i - 1] \o q[i]]
               flat == CHOOSE h : Laid(h)
               g == [i \in 1 .. n |-> f[i]]
    <3>1. Laid(g)
      <4>1. \A i \in 1 .. n : g[i] = IF i = 1 THEN q[i] ELSE g[i - 1] \o q[i]
        <5> TAKE i \in 1 .. n
        <5>1. g[i] = f[i - 1] \o q[i]
          BY <1>5
        <5>2. i = 1 => f[i - 1] \o q[i] = q[i]
          <6>1. q[1] \in Seq(S)
            BY <2>2
          <6> QED  BY <1>5, <6>1, ConcatEmptySeq
        <5>3. i # 1 => g[i - 1] = f[i - 1]
          OBVIOUS
        <5> QED  BY <5>1, <5>2, <5>3
      <4> QED  BY <4>1
    <3>2. Laid(flat)
      <4> HIDE DEF Laid, g
      <4> QED  BY <3>1
    <3>3. FlattenSeq(q) = flat[n]
      BY <1>7, <2>2 DEF FlattenSeq
    <3> HIDE DEF flat
    <3> DEFINE P == {m \in 0 .. n : m = 0 \/ flat[m] = f[m]}
    <3>4. 0 \in P
      OBVIOUS
    <3>5. \A m \in 1 .. n : m - 1 \in P => m \in P
      <4> SUFFICES ASSUME NEW m \in 1 .. n, m - 1 \in P  PROVE flat[m] = f[m]
        OBVIOUS
      <4>1. flat[m] = IF m = 1 THEN q[m] ELSE flat[m - 1] \o q[m]
        BY <3>2
      <4>2. f[m] = f[m - 1] \o q[m]
        BY <1>5
      <4>3. CASE m = 1
        <5>1. q[1] \in Seq(S)
          BY <2>2
        <5>2. << >> \o q[1] = q[1]
          BY <5>1, ConcatEmptySeq
        <5>3. flat[m] = q[1]
          BY <4>1, <4>3
        <5>4. m - 1 = 0 /\ f[0] = << >>
          BY <1>5, <4>3
        <5>5. f[m] = f[0] \o q[1]
          BY <4>2, <4>3, <5>4
        <5> QED  BY <5>2, <5>3, <5>4, <5>5
      <4>4. CASE m # 1
        <5>1. m - 1 # 0 /\ flat[m - 1] = f[m - 1]
          BY <4>4
        <5> QED  BY <4>1, <4>2, <4>4, <5>1
      <4> QED  BY <4>3, <4>4
    <3> HIDE DEF P
    <3>6. \A m \in 0 .. n : m \in P
      BY <3>4, <3>5, FromEachToTheNext
    <3>7. n \in P
      BY <3>6
    <3> QED  BY <2>2, <3>3, <3>7 DEF P
  <2> QED  BY <2>1, <2>2
<1> QED  BY <1>5, <1>6, <1>8 DEF T

\* With at most one in each, and no two of a key, each is there once.
Few(q, S) == \A i \in DOMAIN q : q[i] = << >> \/ \E c \in S : q[i] = <<c>>
Apart(q) == \A i, j \in DOMAIN q : q[i] # << >> /\ q[j] # << >> /\ q[i][1].key = q[j][1].key => i = j
From(h, q, m, S) ==
  /\ h \in Seq(S)
  /\ \A x \in DOMAIN h : \E i \in 1 .. m : q[i] = <<h[x]>>
  /\ \A i \in 1 .. m : q[i] # << >> => \E x \in DOMAIN h : q[i] = <<h[x]>>
  /\ \A x, y \in DOMAIN h : h[x].key = h[y].key => x = y

LEMMA OneMoreFrom ==
  ASSUME NEW n \in Nat, NEW S, NEW q \in [1 .. n -> Seq(S)], Few(q, S), Apart(q),
         NEW m \in 1 .. n, NEW h, From(h, q, m - 1, S)
  PROVE  From(h \o q[m], q, m, S)
<1>0. /\ DOMAIN q = 1 .. n /\ h \in Seq(S) /\ DOMAIN h = 1 .. Len(h) /\ Len(h) \in Nat
      /\ 1 .. m - 1 \subseteq 1 .. m /\ \A i \in 1 .. m : i # m => i \in 1 .. m - 1
  BY DEF From
<1>1. CASE q[m] = << >>
  <2>1. h \o q[m] = h
    BY <1>0, <1>1, ConcatEmptySeq
  <2>2. \A x \in DOMAIN h : \E i \in 1 .. m : q[i] = <<h[x]>>
    BY <1>0 DEF From
  <2>3. \A i \in 1 .. m : q[i] # << >> => i \in 1 .. m - 1
    BY <1>0, <1>1
  <2>4. From(h, q, m, S)
    BY <2>2, <2>3 DEF From
  <2> QED  BY <2>1, <2>4
<1>2. CASE q[m] # << >>
  <2>1. PICK c \in S : q[m] = <<c>>
    BY <1>0, <1>2 DEF Few
  <2> DEFINE g == h \o q[m]
             k == Len(h) + 1
  <2>2. /\ g \in Seq(S) /\ DOMAIN g = 1 .. k /\ g[k] = c
        /\ \A x \in DOMAIN h : g[x] = h[x]
    BY <1>0, <2>1
  <2>3. \A x \in DOMAIN g : x = k \/ x \in DOMAIN h
    BY <1>0, <2>2
  <2>4. DOMAIN h \subseteq DOMAIN g /\ k \in DOMAIN g /\ k \notin DOMAIN h
    BY <1>0, <2>2
  <2> HIDE DEF g, k
  <2>5. \A x \in DOMAIN g : \E i \in 1 .. m : q[i] = <<g[x]>>
    <3> TAKE x \in DOMAIN g
    <3>1. CASE x = k
      BY <2>1, <2>2, <3>1
    <3>2. CASE x \in DOMAIN h
      <4>1. PICK i \in 1 .. m - 1 : q[i] = <<h[x]>>
        BY <3>2 DEF From
      <4> QED  BY <1>0, <2>2, <3>2, <4>1
    <3> QED  BY <2>3, <3>1, <3>2
  <2>6. \A i \in 1 .. m : q[i] # << >> => \E x \in DOMAIN g : q[i] = <<g[x]>>
    <3> SUFFICES ASSUME NEW i \in 1 .. m, q[i] # << >>  PROVE \E x \in DOMAIN g : q[i] = <<g[x]>>
      OBVIOUS
    <3>1. CASE i = m
      BY <2>1, <2>2, <2>4, <3>1
    <3>2. CASE i # m
      <4>1. PICK x \in DOMAIN h : q[i] = <<h[x]>>
        BY <1>0, <3>2 DEF From
      <4> QED  BY <2>2, <2>4, <4>1
    <3> QED  BY <3>1, <3>2
  <2>7. \A x \in DOMAIN h : h[x].key # c.key
    <3> SUFFICES ASSUME NEW x \in DOMAIN h, h[x].key = c.key  PROVE FALSE
      OBVIOUS
    <3>1. PICK i \in 1 .. m - 1 : q[i] = <<h[x]>>
      BY DEF From
    <3>2. q[i][1] = h[x] /\ q[m][1] = c /\ q[i] # << >> /\ i \in 1 .. n
      BY <2>1, <3>1
    <3> QED  BY <1>0, <1>2, <3>2 DEF Apart
  <2>8. \A x, y \in DOMAIN g : g[x].key = g[y].key => x = y
    <3> SUFFICES ASSUME NEW x \in DOMAIN g, NEW y \in DOMAIN g, g[x].key = g[y].key  PROVE x = y
      OBVIOUS
    <3>1. CASE x \in DOMAIN h /\ y \in DOMAIN h
      BY <2>2, <3>1 DEF From
    <3>2. CASE x = k /\ y \in DOMAIN h
      BY <2>2, <2>7, <3>2
    <3>3. CASE y = k /\ x \in DOMAIN h
      BY <2>2, <2>7, <3>3
    <3> QED  BY <2>3, <3>1, <3>2, <3>3
  <2> QED  BY <2>2, <2>5, <2>6, <2>8 DEF From, g
<1> QED  BY <1>1, <1>2

LEMMA EachIsThereOnce ==
  ASSUME NEW n \in Nat, NEW S, NEW q \in [1 .. n -> Seq(S)], Few(q, S), Apart(q)
  PROVE  From(FlattenSeq(q), q, n, S)
<1>1. PICK f \in [0 .. n -> Seq(S)] : Flattens(f, q, n) /\ FlattenSeq(q) = f[n]
  BY FlattenedIs
<1> DEFINE P == {m \in 0 .. n : From(f[m], q, m, S)}
<1>2. 0 \in P
  BY <1>1 DEF From, Flattens
<1>3. \A m \in 1 .. n : m - 1 \in P => m \in P
  <2> SUFFICES ASSUME NEW m \in 1 .. n, m - 1 \in P  PROVE From(f[m], q, m, S)
    OBVIOUS
  <2>1. f[m] = f[m - 1] \o q[m]
    BY <1>1 DEF Flattens
  <2>2. From(f[m - 1], q, m - 1, S)
    OBVIOUS
  <2> QED  BY <2>1, <2>2, OneMoreFrom
<1> HIDE DEF P
<1>4. \A m \in 0 .. n : m \in P
  BY <1>2, <1>3, FromEachToTheNext
<1>5. n \in P
  BY <1>4
<1> QED  BY <1>1, <1>5 DEF P

-----------------------------------------------------------------------------
(* What holds of a cast that is being dealt.                                 *)

PicksHold(k) ==
  \/ picked[k] = << >>
  \/ HasViews(viewed, k) /\ picked[k] \in [wanted[k] -> [view : viewed[k], fallback : BOOLEAN]]

CastAsked ==
  /\ casting \in Castings /\ casting # << >>
  /\ viewed \in [DOMAIN viewed -> SUBSET View] /\ standing \in [DOMAIN standing -> SUBSET View]
  /\ DOMAIN standing \subseteq DOMAIN viewed
  /\ \A k \in DOMAIN standing : viewed[k] \subseteq standing[k]
  /\ \A s \in DOMAIN casting : \A m \in Members(casting, s) :
       m.key # Malformed /\ m.hint = NoHint => m.key \in DOMAIN wanted /\ s \in wanted[m.key]
  /\ DOMAIN picked \subseteq DOMAIN wanted /\ \A k \in DOMAIN picked : PicksHold(k)

CardsOf(s) == [i \in DOMAIN casting[s] |-> CardOf(casting[s][i], s)]
Dealt ==
  dealt = << >> \/ (Unsettled = {} /\ dealt = [s \in DOMAIN casting |-> FlattenSeq(CardsOf(s))])
CastInv ==
  \/ casting = << >> /\ dealt = << >> /\ DOMAIN picked = {} /\ DOMAIN wanted = {}
  \/ CastAsked /\ Dealt

LEMMA FirstIsOne ==
  ASSUME NEW views \in SUBSET View, views # {}
  PROVE  FirstOf(views) \in views
<1> DEFINE T == {i \in DOMAIN Preference : Preference[i] \in views}
<1>1. DOMAIN Preference = 1 .. 4
  BY DEF Preference
<1>2. View = {Preference[i] : i \in DOMAIN Preference}
  BY DEF View, ToSet
<1>3. T \in SUBSET Nat /\ T # {}
  BY <1>1, <1>2
<1>4. Min(T) \in T
  <2> HIDE DEF T
  <2> QED  BY <1>3, MinIsLeast
<1> QED  BY <1>4 DEF FirstOf

LEMMA MembersAre ==
  ASSUME CastAsked, NEW s \in DOMAIN casting
  PROVE  /\ casting[s] \in Seq([key : STRING, pose : STRING, hint : STRING])
         /\ DOMAIN casting[s] = 1 .. Len(casting[s]) /\ Len(casting[s]) \in Nat
         /\ Members(casting, s) = {casting[s][i] : i \in DOMAIN casting[s]}
         /\ \A m \in Members(casting, s) : m \in [key : STRING, pose : STRING, hint : STRING] /\ m.hint # "standing"
         /\ \A i, j \in DOMAIN casting[s] :
              casting[s][i].key = casting[s][j].key /\ casting[s][i].key # Malformed => i = j
<1> DEFINE M == [key : STRING, pose : STRING, hint : STRING]
<1>1. casting \in Seq(Seq(M)) /\ \A i, j \in DOMAIN casting[s] :
         /\ casting[s][i].key = casting[s][j].key /\ casting[s][i].key # Malformed => i = j
         /\ casting[s][i].hint # "standing"
  BY CastingsKnown DEF CastAsked
<1> HIDE DEF M
<1>2. casting[s] \in Seq(M)
  BY <1>1
<1>3. DOMAIN casting[s] = 1 .. Len(casting[s]) /\ Len(casting[s]) \in Nat
  BY <1>2
<1>4. Members(casting, s) = {casting[s][i] : i \in DOMAIN casting[s]}
  BY DEF Members, ToSet
<1>5. \A i \in DOMAIN casting[s] : casting[s][i] \in M
  BY <1>2
<1> QED  BY <1>1, <1>2, <1>3, <1>4, <1>5 DEF M

-----------------------------------------------------------------------------
(* The steps.                                                                *)

LEMMA CastBegins == CastInit => CastInv
BY DEF CastInit, CastInv

LEMMA AskKeeps == ASSUME CastInv, AskForViews PROVE CastInv'
<1>1. PICK list \in Castings, stock \in Stocks :
        /\ casting' = list /\ standing' = stock.rows /\ viewed' = stock.rows
        /\ wanted' = [k \in {j \in Keys(list) : Catalogue(list, stock.posed, j) # {}} |->
                        Catalogue(list, stock.posed, k)]
  BY DEF AskForViews
<1>2. casting = << >> /\ picked' = picked /\ dealt' = dealt
  BY DEF AskForViews
<1>3. dealt' = << >> /\ DOMAIN picked' = {}
  <2>1. dealt = << >> /\ DOMAIN picked = {}
    BY <1>2 DEF CastInv, CastAsked
  <2> QED  BY <1>2, <2>1
<1>4. stock.rows \in [DOMAIN stock.rows -> SUBSET View]
  BY StocksKnown
<1>5. CASE list = << >>
  <2>1. Keys(list) = {}
    BY <1>5 DEF Keys
  <2>2. DOMAIN wanted' = {}
    BY <1>1, <2>1
  <2> QED  BY <1>1, <1>3, <1>5, <2>2 DEF CastInv
<1>6. CASE list # << >>
  <2>1. ASSUME NEW s \in DOMAIN list, NEW m \in Members(list, s), m.key # Malformed, m.hint = NoHint
        PROVE  m.key \in DOMAIN wanted' /\ s \in wanted'[m.key]
    <3>1. m.key \in Keys(list)
      BY <2>1 DEF Keys
    <3>2. s \in Catalogue(list, stock.posed, m.key)
      BY <2>1 DEF Catalogue, Hinted
    <3> QED  BY <1>1, <3>1, <3>2
  <2>2. \A s \in DOMAIN casting' : \A m \in Members(casting, s)' :
          m.key # Malformed /\ m.hint = NoHint => m.key \in DOMAIN wanted' /\ s \in wanted'[m.key]
    BY <1>1, <2>1 DEF Members
  <2>3. CastAsked'
    BY <1>1, <1>3, <1>4, <1>6, <2>2 DEF CastAsked
  <2> QED  BY <1>3, <2>3 DEF CastInv, Dealt
<1> QED  BY <1>5, <1>6

LEMMA SettleKeeps ==
  ASSUME CastInv, NEW k \in Unsettled, NEW views, Settle(k, views),
         views = << >> \/ (HasViews(viewed, k) /\ views \in [wanted[k] -> [view : viewed[k], fallback : BOOLEAN]])
  PROVE  CastInv'
<1>1. CastAsked /\ Dealt /\ k \in DOMAIN wanted
  BY DEF CastInv, Unsettled
<1>2. dealt' = << >>
  BY <1>1 DEF Dealt, Settle, Unsettled
<1>3. /\ DOMAIN picked' = DOMAIN picked \cup {k} /\ picked'[k] = views
      /\ \A j \in DOMAIN picked : j # k => picked'[j] = picked[j]
      /\ casting' = casting /\ standing' = standing /\ wanted' = wanted /\ viewed' = viewed
  BY DEF Settle
<1>4. \A j \in DOMAIN picked' : PicksHold(j)'
  <2> TAKE j \in DOMAIN picked'
  <2>1. CASE j = k
    BY <1>3, <2>1 DEF PicksHold, HasViews
  <2>2. CASE j # k
    <3>1. j \in DOMAIN picked /\ PicksHold(j)
      BY <1>1, <1>3, <2>2 DEF CastAsked
    <3> QED  BY <1>3, <2>2, <3>1 DEF PicksHold, HasViews
  <2> QED  BY <2>1, <2>2
<1>5. CastAsked'
  BY <1>1, <1>3, <1>4 DEF CastAsked, Members
<1> QED  BY <1>2, <1>5 DEF CastInv, Dealt

LEMMA PickingKeeps ==
  ASSUME CastInv, NEW k \in Unsettled, NothingToPick(k) \/ PickFallback(k) \/ PickViews(k) \/ SelectorRaises(k)
  PROVE  CastInv'
<1>1. CastAsked /\ k \in DOMAIN wanted
  BY DEF CastInv, Unsettled
<1>2. HasViews(viewed, k) => viewed[k] \in SUBSET View /\ viewed[k] # {}
  BY <1>1 DEF HasViews, CastAsked
<1>3. HasViews(viewed, k) => FirstOf(viewed[k]) \in viewed[k]
  BY <1>2, FirstIsOne
<1>4. CASE NothingToPick(k) \/ SelectorRaises(k)
  <2>1. Settle(k, << >>)
    BY <1>4 DEF NothingToPick, SelectorRaises
  <2> QED  BY <2>1, SettleKeeps
<1>5. CASE PickFallback(k)
  <2> DEFINE views == [s \in wanted[k] |-> Pick(FirstOf(viewed[k]), TRUE)]
  <2>1. HasViews(viewed, k) /\ Settle(k, views)
    BY <1>5 DEF PickFallback
  <2>2. views \in [wanted[k] -> [view : viewed[k], fallback : BOOLEAN]]
    BY <1>3, <2>1 DEF Pick
  <2> HIDE DEF views
  <2> QED  BY <2>1, <2>2, SettleKeeps
<1>6. CASE PickViews(k)
  <2>1. PICK said \in [wanted[k] -> View \cup {"unsaid"}] : Settle(k, [s \in wanted[k] |-> Honoured(k, said[s])])
    BY <1>6 DEF PickViews
  <2> DEFINE views == [s \in wanted[k] |-> Honoured(k, said[s])]
  <2>2. HasViews(viewed, k) /\ Settle(k, views)
    BY <1>6, <2>1 DEF PickViews
  <2>3. \A s \in wanted[k] : Honoured(k, said[s]) \in [view : viewed[k], fallback : BOOLEAN]
    BY <1>3, <2>2 DEF Honoured, Pick
  <2>4. views \in [wanted[k] -> [view : viewed[k], fallback : BOOLEAN]]
    BY <2>3
  <2> HIDE DEF views
  <2> QED  BY <2>2, <2>4, SettleKeeps
<1> QED  BY <1>4, <1>5, <1>6

LEMMA MeanwhileKeeps ==
  ASSUME CastInv, Meanwhile, standing' \in [DOMAIN standing' -> SUBSET View],
        DOMAIN standing' \subseteq DOMAIN standing,
         \A k \in DOMAIN standing' : standing[k] \subseteq standing'[k]
  PROVE  CastInv'
<1>1. /\ casting # << >> /\ dealt = << >> /\ casting' = casting /\ wanted' = wanted /\ viewed' = viewed
      /\ picked' = picked /\ dealt' = dealt
  BY DEF Meanwhile, Asking
<1>2. CastAsked
  BY <1>1 DEF CastInv
<1>3. \A k \in DOMAIN picked' : PicksHold(k)'
  BY <1>1, <1>2 DEF CastAsked, PicksHold, HasViews
<1>4. CastAsked'
  BY <1>1, <1>2, <1>3 DEF CastAsked, Members
<1> QED  BY <1>1, <1>4 DEF CastInv, Dealt

LEMMA LibraryChangesKeep ==
  ASSUME CastInv, NEW k, NEW view, NEW m,
         (k \in DOMAIN standing /\ (DeleteCharacter(k) \/ (view \in View /\ SelectView(k, view)))) \/ ApproveCard(m)
  PROVE  CastInv'
<1>1. CastAsked
  BY DEF CastInv, DeleteCharacter, SelectView, ApproveCard, Meanwhile, Asking
<1>2. standing \in [DOMAIN standing -> SUBSET View]
  BY <1>1 DEF CastAsked
<1>3. CASE k \in DOMAIN standing /\ DeleteCharacter(k)
  <2>1. Meanwhile /\ standing' = [j \in DOMAIN standing \ {k} |-> standing[j]]
    BY <1>3 DEF DeleteCharacter
  <2> QED  BY <1>2, <2>1, MeanwhileKeeps
<1>4. CASE k \in DOMAIN standing /\ view \in View /\ SelectView(k, view)
  <2>1. Meanwhile /\ standing' = [standing EXCEPT ![k] = @ \cup {view}]
    BY <1>4 DEF SelectView
  <2>2. DOMAIN standing' = DOMAIN standing /\ standing' \in [DOMAIN standing -> SUBSET View]
        /\ \A j \in DOMAIN standing : standing[j] \subseteq standing'[j]
    BY <1>2, <1>4, <2>1
  <2> QED  BY <2>1, <2>2, MeanwhileKeeps
<1>5. CASE ApproveCard(m)
  <2>1. Meanwhile /\ standing' = standing
    BY <1>5 DEF ApproveCard
  <2> QED  BY <1>2, <2>1, MeanwhileKeeps
<1> QED  BY <1>3, <1>4, <1>5

LEMMA CastFrameKeeps ==
  ASSUME CastAsked, UNCHANGED <<casting, standing, posed, wanted, viewed, picked>>
  PROVE  CastAsked' /\ Unsettled' = Unsettled /\ \A s : CardsOf(s)' = CardsOf(s)
<1>1. \A k \in DOMAIN picked' : PicksHold(k)'
  BY DEF CastAsked, PicksHold, HasViews
<1>2. CastAsked'
  BY <1>1 DEF CastAsked, Members
<1>3. \A s : CardsOf(s)' = CardsOf(s)
  BY DEF CardsOf, CardOf, Hinted, PickOf, PoseOf, WhyNot, FirstOf
<1> QED  BY <1>2, <1>3 DEF Unsettled

LEMMA ResolveKeeps == ASSUME CastInv, ResolveShots PROVE CastInv'
<1>1. /\ casting # << >> /\ Unsettled = {} /\ UNCHANGED <<casting, standing, posed, wanted, viewed, picked>>
      /\ dealt' = [s \in DOMAIN casting |-> FlattenSeq(CardsOf(s))]
  BY DEF ResolveShots, Asking, CardsOf
<1>2. CastAsked
  BY <1>1 DEF CastInv
<1>3. CastAsked' /\ Unsettled' = {} /\ \A s : CardsOf(s)' = CardsOf(s)
  BY <1>1, <1>2, CastFrameKeeps
<1>4. dealt' = [s \in DOMAIN casting' |-> FlattenSeq(CardsOf(s)')]
  BY <1>1, <1>3
<1> QED  BY <1>3, <1>4 DEF CastInv, Dealt

LEMMA CastStays == ASSUME CastInv, UNCHANGED castVars PROVE CastInv'
<1>1. UNCHANGED <<casting, standing, posed, wanted, viewed, picked>> /\ dealt' = dealt
  BY DEF castVars
<1>2. CASE casting = << >> /\ dealt = << >> /\ DOMAIN picked = {} /\ DOMAIN wanted = {}
  BY <1>1, <1>2 DEF CastInv
<1>3. CASE CastAsked /\ Dealt
  <2>1. CastAsked' /\ Unsettled' = Unsettled /\ \A s : CardsOf(s)' = CardsOf(s)
    BY <1>1, <1>3, CastFrameKeeps
  <2>2. Dealt'
    BY <1>1, <1>3, <2>1 DEF Dealt
  <2> QED  BY <2>1, <2>2 DEF CastInv
<1> QED  BY <1>2, <1>3 DEF CastInv

LEMMA CastKeeps == CastInv /\ [CastNext]_castVars => CastInv'
<1> SUFFICES ASSUME CastInv, [CastNext]_castVars  PROVE CastInv'
  OBVIOUS
<1>1. CASE AskForViews
  BY <1>1, AskKeeps
<1>2. CASE ResolveShots
  BY <1>2, ResolveKeeps
<1>3. CASE \E k \in Unsettled : NothingToPick(k) \/ PickFallback(k) \/ PickViews(k) \/ SelectorRaises(k)
  BY <1>3, PickingKeeps
<1>4. CASE \E k \in DOMAIN standing : DeleteCharacter(k) \/ \E view \in View : SelectView(k, view)
  BY <1>4, LibraryChangesKeep
<1>5. CASE \E s \in DOMAIN casting : \E m \in Members(casting, s) : ApproveCard(m)
  BY <1>5, LibraryChangesKeep
<1> QED  BY <1>1, <1>2, <1>3, <1>4, <1>5, CastStays DEF CastNext

-----------------------------------------------------------------------------
(* What is dealt.                                                            *)

CardSet == [key : STRING, pose : STRING \cup {"standing"}, view : View, why : SUBSET {"angle", "asset", "pose_hint"}]
CardTrue(m, s) ==
  \/ CardOf(m, s) = << >> /\ (m.key # Malformed => ~HasViews(standing, m.key))
  \/ \E c \in CardSet :
       /\ CardOf(m, s) = <<c>> /\ c.key = m.key /\ m.key # Malformed /\ InLibrary(c)
       /\ c.why = {} => AsAsked(c, m, s)

LEMMA PickIsOfTheLibrary ==
  ASSUME CastAsked, NEW s \in DOMAIN casting, NEW k \in DOMAIN standing
  PROVE  /\ PickOf(k, s).view \in View /\ PickOf(k, s).fallback \in BOOLEAN
         /\ standing[k] # {} => PickOf(k, s).view \in standing[k]
         /\ k \in DOMAIN picked /\ picked[k] # << >> /\ s \in wanted[k] => PickOf(k, s) = picked[k][s]
<1>1. standing[k] \in SUBSET View /\ viewed[k] \subseteq standing[k]
  BY DEF CastAsked
<1>2. standing[k] # {} => FirstOf(standing[k]) \in standing[k]
  BY <1>1, FirstIsOne
<1>3. "front" \in View
  BY DEF View, ToSet, Preference
<1>4. CASE k \in DOMAIN picked /\ s \in DOMAIN picked[k]
  <2>1. PicksHold(k) /\ picked[k] # << >>
    BY <1>4 DEF CastAsked
  <2>2. picked[k] \in [wanted[k] -> [view : viewed[k], fallback : BOOLEAN]]
    BY <2>1 DEF PicksHold
  <2>3. picked[k][s] \in [view : viewed[k], fallback : BOOLEAN]
    BY <1>4, <2>2
  <2> QED  BY <1>1, <1>4, <2>3 DEF PickOf
<1>5. CASE ~(k \in DOMAIN picked /\ s \in DOMAIN picked[k])
  <2>1. PickOf(k, s) = Pick(IF standing[k] = {} THEN "front" ELSE FirstOf(standing[k]), FALSE)
    BY <1>5 DEF PickOf
  <2>2. ASSUME k \in DOMAIN picked, picked[k] # << >>, s \in wanted[k]  PROVE FALSE
    <3>1. PicksHold(k)
      BY <2>2 DEF CastAsked
    <3> QED  BY <1>5, <2>2, <3>1 DEF PicksHold
  <2> QED  BY <1>1, <1>2, <1>3, <2>1, <2>2 DEF Pick
<1> QED  BY <1>4, <1>5

LEMMA CardsAreTrue ==
  ASSUME CastAsked, Unsettled = {}, NEW s \in DOMAIN casting, NEW m \in Members(casting, s)
  PROVE  CardTrue(m, s)
<1>1. m \in [key : STRING, pose : STRING, hint : STRING] /\ m.hint # "standing"
  BY MembersAre
<1>2. CASE m.key = Malformed
  BY <1>2 DEF CardTrue, CardOf
<1>3. CASE m.key # Malformed /\ Hinted(m, posed)
  <2> DEFINE c == CardMade(m, m.hint, "front", {})
  <2>1. CardOf(m, s) = <<c>>
    BY <1>3 DEF CardOf
  <2>2. "front" \in View
    BY DEF View, ToSet, Preference
  <2>3. c \in CardSet /\ c.key = m.key /\ c.pose = m.hint /\ c.view = "front" /\ c.why = {}
    BY <1>1, <2>2 DEF CardSet, CardMade
  <2>4. InLibrary(c)
    BY <1>1, <1>3, <2>3 DEF InLibrary, Hinted
  <2>5. AsAsked(c, m, s)
    BY <1>3, <2>3 DEF AsAsked, Hinted
  <2> HIDE DEF c
  <2> QED  BY <1>3, <2>1, <2>3, <2>4, <2>5 DEF CardTrue
<1>4. CASE m.key # Malformed /\ ~Hinted(m, posed) /\ m.key \notin DOMAIN standing
  BY <1>4 DEF CardTrue, CardOf, HasViews
<1>5. CASE m.key # Malformed /\ ~Hinted(m, posed) /\ m.key \in DOMAIN standing
  <2> DEFINE pick == PickOf(m.key, s)
             pose == PoseOf(m, pick.view)
             c == CardMade(m, pose, pick.view, WhyNot(m, pick, pose))
  <2>1. CardOf(m, s) = IF pose = "standing" /\ pick.view \notin standing[m.key] THEN << >> ELSE <<c>>
    BY <1>5 DEF CardOf
  <2>2. /\ pick.view \in View /\ pick.fallback \in BOOLEAN
        /\ standing[m.key] # {} => pick.view \in standing[m.key]
        /\ m.key \in DOMAIN picked /\ picked[m.key] # << >> /\ s \in wanted[m.key] => pick = picked[m.key][s]
    BY <1>5, PickIsOfTheLibrary
  <2>3. pose \in STRING \cup {"standing"} /\ (pose # "standing" => pose = m.pose
        /\ <<m.key, m.pose, pick.view>> \in posed)
    <3> HIDE DEF pick
    <3>1. m.pose \in STRING
      BY <1>1
    <3>2. pose = IF m.pose # "standing" /\ <<m.key, m.pose, pick.view>> \in posed THEN m.pose ELSE "standing"
      BY DEF PoseOf
    <3> HIDE DEF pose
    <3> QED  BY <3>1, <3>2
  <2>4. WhyNot(m, pick, pose) \in SUBSET {"angle", "asset", "pose_hint"}
        /\ (WhyNot(m, pick, pose) = {} => ~pick.fallback /\ pose = m.pose /\ m.hint = NoHint)
    <3> HIDE DEF pick, pose
    <3> QED  BY DEF WhyNot
  <2> HIDE DEF pick, pose
  <2>5. CASE pose = "standing" /\ pick.view \notin standing[m.key]
    BY <2>1, <2>2, <2>5 DEF CardTrue, HasViews
  <2>6. CASE ~(pose = "standing" /\ pick.view \notin standing[m.key])
    <3>1. CardOf(m, s) = <<c>>
      BY <2>1, <2>6
    <3>2. c \in CardSet /\ c.key = m.key /\ c.pose = pose /\ c.view = pick.view /\ c.why = WhyNot(m, pick, pose)
      BY <1>1, <2>2, <2>3, <2>4 DEF CardSet, CardMade
    <3> HIDE DEF c
    <3>3. InLibrary(c)
      BY <1>5, <2>3, <2>6, <3>2 DEF InLibrary
    <3>4. c.why = {} => AsAsked(c, m, s)
      <4> SUFFICES ASSUME c.why = {}  PROVE AsAsked(c, m, s)
        OBVIOUS
      <4>1. ~pick.fallback /\ pose = m.pose /\ m.hint = NoHint
        BY <2>4, <3>2
      <4>2. m.key \in DOMAIN wanted /\ s \in wanted[m.key]
        BY <1>5, <4>1 DEF CastAsked
      <4>3. m.key \in DOMAIN picked
        BY <4>2 DEF Unsettled
      <4>4. ASSUME picked[m.key] # << >>  PROVE picked[m.key][s] = Pick(c.view, FALSE)
        <5>1. pick = picked[m.key][s]
          BY <2>2, <4>2, <4>3, <4>4
        <5>2. PicksHold(m.key)
          BY <4>3 DEF CastAsked
        <5>3. pick \in [view : viewed[m.key], fallback : BOOLEAN]
          BY <4>2, <4>4, <5>1, <5>2 DEF PicksHold
        <5>4. pick = [view |-> pick.view, fallback |-> FALSE]
          BY <4>1, <5>3
        <5> QED  BY <3>2, <5>1, <5>4 DEF Pick
      <4> QED  BY <3>2, <4>1, <4>3, <4>4 DEF AsAsked
    <3> QED  BY <1>5, <3>1, <3>2, <3>3, <3>4 DEF CardTrue
  <2> QED  BY <2>5, <2>6
<1> QED  BY <1>2, <1>3, <1>4, <1>5

LEMMA ShotIsDealt ==
  ASSUME CastAsked, Unsettled = {}, NEW s \in DOMAIN casting
  PROVE  From(FlattenSeq(CardsOf(s)), CardsOf(s), Len(casting[s]), CardSet)
<1> DEFINE q == CardsOf(s)
           n == Len(casting[s])
<1>1. /\ DOMAIN casting[s] = 1 .. n /\ n \in Nat
      /\ Members(casting, s) = {casting[s][i] : i \in DOMAIN casting[s]}
      /\ \A i, j \in DOMAIN casting[s] :
           casting[s][i].key = casting[s][j].key /\ casting[s][i].key # Malformed => i = j
  BY MembersAre
<1>2. DOMAIN q = 1 .. n /\ q = [i \in 1 .. n |-> q[i]] /\ \A i \in 1 .. n : q[i] = CardOf(casting[s][i], s)
  BY <1>1 DEF CardsOf
<1>3. \A i \in 1 .. n : CardTrue(casting[s][i], s)
  BY <1>1, CardsAreTrue
<1>4. ASSUME NEW i \in 1 .. n
      PROVE  q[i] = << >> \/ \E c \in CardSet : q[i] = <<c>> /\ c.key = casting[s][i].key /\ c.key # Malformed
  BY <1>2, <1>3 DEF CardTrue
<1> HIDE DEF q, n
<1>5. \A i \in 1 .. n : q[i] \in Seq(CardSet)
  <2> TAKE i \in 1 .. n
  <2>1. CASE q[i] = << >>
    BY <2>1
  <2>2. CASE \E c \in CardSet : q[i] = <<c>>
    BY <2>2
  <2> QED  BY <1>4, <2>1, <2>2
<1>6. q \in [1 .. n -> Seq(CardSet)] /\ Few(q, CardSet)
  BY <1>2, <1>4, <1>5 DEF Few
<1>7. \A i \in 1 .. n : q[i] # << >> => q[i][1].key = casting[s][i].key /\ q[i][1].key # Malformed
  BY <1>4
<1>8. Apart(q)
  BY <1>1, <1>2, <1>7 DEF Apart
<1>9. From(FlattenSeq(q), q, n, CardSet)
  BY <1>1, <1>6, <1>8, EachIsThereOnce
<1> QED  BY <1>9 DEF q, n

LEMMA CastEnds == CastInv => CastIsDealt
<1> SUFFICES ASSUME CastInv, NEW s \in DOMAIN dealt
             PROVE  /\ \A i \in DOMAIN dealt[s] : InLibrary(dealt[s][i])
                    /\ \A m \in Members(casting, s) :
                         LET told == {row \in ToldOf(s) : row[2] = m.key} IN
                         \/ /\ OfMember(s, m) = {}
                            /\ Cardinality(told) = 1 /\ \A row \in told : row[1] = "cast_card_missing"
                            /\ m.key # Malformed => ~HasViews(standing, m.key)
                         \/ /\ Cardinality(OfMember(s, m)) = 1 /\ Cardinality(told) <= 1
                            /\ told = {} => \A i \in OfMember(s, m) : AsAsked(dealt[s][i], m, s)
  BY Zenon DEF CastIsDealt
<1>1. CastAsked /\ Unsettled = {} /\ s \in DOMAIN casting /\ dealt[s] = FlattenSeq(CardsOf(s))
  BY DEF CastInv, Dealt
<1> DEFINE q == CardsOf(s)
           n == Len(casting[s])
           h == dealt[s]
<1>2. /\ h \in Seq(CardSet)
      /\ \A x \in DOMAIN h : \E i \in 1 .. n : q[i] = <<h[x]>>
      /\ \A i \in 1 .. n : q[i] # << >> => \E x \in DOMAIN h : q[i] = <<h[x]>>
      /\ \A x, y \in DOMAIN h : h[x].key = h[y].key => x = y
  <2>1. From(FlattenSeq(q), q, n, CardSet)
    BY <1>1, ShotIsDealt
  <2> HIDE DEF q, n
  <2>2. From(h, q, n, CardSet)
    BY <1>1, <2>1 DEF q
  <2> HIDE DEF h
  <2> QED  BY <2>2 DEF From
<1>3. /\ DOMAIN casting[s] = 1 .. n /\ n \in Nat
      /\ Members(casting, s) = {casting[s][i] : i \in DOMAIN casting[s]}
      /\ \A i, j \in DOMAIN casting[s] :
           casting[s][i].key = casting[s][j].key /\ casting[s][i].key # Malformed => i = j
  BY <1>1, MembersAre
<1>4. \A i \in 1 .. n : q[i] = CardOf(casting[s][i], s) /\ CardTrue(casting[s][i], s)
  BY <1>1, <1>3, CardsAreTrue DEF CardsOf
<1> HIDE DEF q, n, h
<1>5. ASSUME NEW x \in DOMAIN h
      PROVE  \E i \in 1 .. n : /\ CardOf(casting[s][i], s) = <<h[x]>> /\ h[x].key = casting[s][i].key
                               /\ h[x].key # Malformed /\ InLibrary(h[x])
                               /\ h[x].why = {} => AsAsked(h[x], casting[s][i], s)
  <2>1. PICK i \in 1 .. n : q[i] = <<h[x]>>
    BY <1>2
  <2>2. CardOf(casting[s][i], s) = <<h[x]>> /\ CardTrue(casting[s][i], s)
    BY <1>4, <2>1
  <2>3. CardOf(casting[s][i], s) # << >>
    BY <2>2
  <2>4. PICK c \in CardSet :
       /\ CardOf(casting[s][i], s) = <<c>> /\ c.key = casting[s][i].key /\ casting[s][i].key # Malformed
            /\ InLibrary(c)
       /\ c.why = {} => AsAsked(c, casting[s][i], s)
    BY <2>2, <2>3 DEF CardTrue
  <2>5. c = h[x]
    BY <2>2, <2>4
  <2> QED  BY <2>4, <2>5
<1>6. \A i \in DOMAIN dealt[s] : InLibrary(dealt[s][i])
  BY <1>5 DEF h
<1>7. ASSUME NEW m \in Members(casting, s), NEW told, told = {row \in ToldOf(s) : row[2] = m.key}
      PROVE  \/ /\ OfMember(s, m) = {}
                /\ Cardinality(told) = 1 /\ \A row \in told : row[1] = "cast_card_missing"
                /\ m.key # Malformed => ~HasViews(standing, m.key)
             \/ /\ Cardinality(OfMember(s, m)) = 1 /\ Cardinality(told) <= 1
                /\ told = {} => \A i \in OfMember(s, m) : AsAsked(dealt[s][i], m, s)
  <2>1. PICK j \in 1 .. n : m = casting[s][j]
    BY <1>3
  <2>2. OfMember(s, m) = {x \in DOMAIN h : h[x].key = m.key}
    BY DEF OfMember, h
  <2>3. \A row : row \in told <=>
          \/ row = <<"cast_card_missing", m.key, {}>> /\ \A x \in DOMAIN h : h[x].key # m.key
          \/ \E x \in DOMAIN h : h[x].why # {} /\ h[x].key = m.key
               /\ row = <<"cast_card_fallback", h[x].key, h[x].why>>
    <3>1. ToldOf(s) =
            {<<"cast_card_missing", o.key, {}>> : o \in {p \in Members(casting,
                  s) : \A i \in DOMAIN h : h[i].key # p.key}}
              \cup {<<"cast_card_fallback", card.key,
                    card.why>> : card \in {c \in {h[x] : x \in DOMAIN h} : c.why # {}}}
      BY DEF ToldOf, h, ToSet
    <3> QED  BY <1>7, <3>1
  <2>4. CASE CardOf(m, s) = << >>
    <3>1. m.key # Malformed => ~HasViews(standing, m.key)
      BY <1>4, <2>1, <2>4 DEF CardTrue
    <3>2. ASSUME NEW x \in DOMAIN h, h[x].key = m.key  PROVE FALSE
      <4>1. PICK i \in 1 .. n : CardOf(casting[s][i], s) = <<h[x]>> /\ h[x].key = casting[s][i].key
            /\ h[x].key # Malformed
        BY <1>5
      <4>2. i = j
        BY <1>3, <2>1, <3>2, <4>1
      <4>3. CardOf(m, s) = <<h[x]>>
        BY <2>1, <4>1, <4>2
      <4>4. \A c : <<c>> # << >>
        OBVIOUS
      <4> QED  BY <2>4, <4>3, <4>4
    <3>3. OfMember(s, m) = {} /\ told = {<<"cast_card_missing", m.key, {}>>}
      BY <2>2, <2>3, <3>2
    <3>4. Cardinality(told) = 1
      BY <3>3, FS_Singleton
    <3> QED  BY <3>1, <3>3, <3>4
  <2>5. CASE CardOf(m, s) # << >>
    <3>1. PICK x \in DOMAIN h : q[j] = <<h[x]>>
      BY <1>2, <1>4, <2>1, <2>5
    <3>2. CardOf(m, s) = <<h[x]>> /\ CardTrue(m, s)
      BY <1>4, <2>1, <3>1
    <3>3. PICK c \in CardSet : /\ CardOf(m, s) = <<c>> /\ c.key = m.key /\ m.key # Malformed /\ InLibrary(c)
                               /\ c.why = {} => AsAsked(c, m, s)
      BY <2>5, <3>2 DEF CardTrue
    <3>4. h[x].key = m.key /\ (h[x].why = {} => AsAsked(h[x], m, s))
      <4>1. c = h[x]
        BY <3>2, <3>3
      <4> QED  BY <3>3, <4>1
    <3>5. OfMember(s, m) = {x}
      BY <1>2, <2>2, <3>4
    <3>6. \A row : row \in told <=> h[x].why # {} /\ row = <<"cast_card_fallback", h[x].key, h[x].why>>
      BY <1>2, <2>3, <3>4
    <3>7. Cardinality(told) <= 1 /\ (told = {} => h[x].why = {})
      <4>1. CASE h[x].why = {}
        <5>1. told = {}
          BY <3>6, <4>1
        <5>2. Cardinality(told) = 0
          BY <5>1, FS_EmptySet
        <5> QED  BY <4>1, <5>2
      <4>2. CASE h[x].why # {}
        <5>1. told = {<<"cast_card_fallback", h[x].key, h[x].why>>}
          BY <3>6, <4>2
        <5>2. Cardinality(told) = 1
          BY <5>1, FS_Singleton
        <5>3. told # {}
          BY <5>1
        <5> QED  BY <5>2, <5>3
      <4> QED  BY <4>1, <4>2
    <3>8. Cardinality(OfMember(s, m)) = 1
      BY <3>5, FS_Singleton
    <3> QED  BY <3>4, <3>5, <3>7, <3>8 DEF h
  <2> QED  BY <2>4, <2>5
<1> QED  BY <1>6, <1>7

-----------------------------------------------------------------------------
(* Filters, and what runs through them.                                      *)

Ops == {"keep", "split", "fit", "overlay", "mix", "concat", "matte", "shadow", "duck", "cut", "wrap",
        "shake", "grade", "subtitles"}
CardNames == {"om_a", "om_b", "om_alpha", "om_mask", "om_alpha2", "om", "c", "sh_src", "sh", "shg", "wbg_a", "wbg_b",
              "cw_c1", "cw_c2", "cw_mask", "cw_raw", "cw_c2ref", "cw_edge", "cw_bleed", "cw", "o"}
LabelNames == CardNames \cup {"bg", "cn", "joined", "f", "bed", "bgmix", "ducked", "aout"}
LabelPads == LabelNames \X Nat
Pads == LabelPads \cup ({"v", "a"} \X Nat)
Filters == [op : Ops, of : Nat, from : Seq(Pads), to : Seq(LabelPads)]
LayerNames == Ops \cup {"plate", "card", "clip", "narration", "bgm", "ambient", "stinger", "no file", "no label",
                        "ducked", "squeezed"}
Layers == LayerNames \X Nat

\* A filter has what it works on.
Full(f) ==
  /\ f.op \notin {"matte", "shadow"} => Len(f.from) >= 1
  /\ f.op = "duck" => Len(f.from) >= 2
Whole0(w) == w \in Seq(Filters) /\ \A i \in DOMAIN w : Full(w[i])
Knowns == UNION {[D -> Seq(Layers)] : D \in SUBSET LabelPads}

LEMMA CarriedLayers ==
  ASSUME NEW known \in Knowns, NEW media \in Seq(Layers), NEW pad \in Pads
  PROVE  Carries(known, media, pad) \in Seq(Layers)
<1>1. PICK D \in SUBSET LabelPads : known \in [D -> Seq(Layers)]
  BY DEF Knowns
<1>2. <<"no file", 0>> \in Layers /\ <<"no label", 0>> \in Layers
  BY DEF Layers, LayerNames
<1>3. \A x \in Layers : <<x>> \in Seq(Layers)
  OBVIOUS
<1>4. \A i \in DOMAIN media : media[i] \in Layers
  OBVIOUS
<1>5. FileShows(media, pad) \in Seq(Layers)
  <2> HIDE DEF Layers
  <2> QED  BY <1>2, <1>3, <1>4 DEF FileShows
<1>6. pad \in DOMAIN known => known[pad] \in Seq(Layers)
  BY <1>1
<1> QED  BY <1>2, <1>3, <1>5, <1>6 DEF Carries

LEMMA GivesLayers ==
  ASSUME NEW known \in Knowns, NEW media \in Seq(Layers), NEW f \in Filters, Full(f)
  PROVE  Gives(known, media, f) \in Seq(Layers)
<1> DEFINE n == Len(f.from)
           in == [i \in DOMAIN f.from |-> Carries(known, media, f.from[i])]
<1>1. f.from \in Seq(Pads) /\ f.op \in Ops /\ f.of \in Nat
  BY DEF Filters
<1>2. n \in Nat /\ DOMAIN f.from = 1 .. n /\ \A i \in 1 .. n : f.from[i] \in Pads
  BY <1>1
<1>3. in \in [1 .. n -> Seq(Layers)]
  BY <1>2, CarriedLayers
<1>4. FlattenSeq(in) \in Seq(Layers)
  <2> HIDE DEF in, n
  <2>1. PICK h \in [0 .. n -> Seq(Layers)] : FlattenSeq(in) = h[n]
    BY <1>2, <1>3, FlattenedIs
  <2>2. n \in 0 .. n
    BY <1>2
  <2> QED  BY <2>1, <2>2
<1> DEFINE told == <<IF in[2] = << <<"narration", 0>> >> THEN "ducked" ELSE "squeezed", 0>>
           own == <<f.op, f.of>>
<1>5. Gives(known, media, f) =
        CASE f.op \in {"keep", "split", "fit"} -> in[1]
          [] f.op \in {"overlay", "mix", "concat"} -> FlattenSeq(in)
          [] f.op = "matte" -> << >>
          [] f.op = "shadow" -> << <<"shadow", f.of>> >>
          [] f.op = "duck" -> Append(in[1], told)
          [] OTHER -> Append(in[1], own)
  BY DEF Gives
<1>6. told \in Layers /\ own \in Layers /\ <<"shadow", f.of>> \in Layers
  BY <1>1 DEF Layers, LayerNames, Ops
<1>7. f.op \notin {"matte", "shadow"} => in[1] \in Seq(Layers)
  BY <1>2, <1>3 DEF Full
<1> HIDE DEF in, told, own, Layers, n
<1>8. f.op \notin {"matte", "shadow"} => Append(in[1], told) \in Seq(Layers) /\ Append(in[1], own) \in Seq(Layers)
  BY <1>6, <1>7
<1>9. << >> \in Seq(Layers) /\ << <<"shadow", f.of>> >> \in Seq(Layers)
  BY <1>6
<1>10. CASE f.op \in {"keep", "split", "fit"}
  BY <1>5, <1>7, <1>10
<1>11. CASE f.op \in {"overlay", "mix", "concat"}
  BY <1>4, <1>5, <1>11
<1>12. CASE f.op = "matte"
  BY <1>5, <1>9, <1>12
<1>13. CASE f.op = "shadow"
  BY <1>5, <1>9, <1>13
<1>14. CASE f.op = "duck"
  BY <1>5, <1>8, <1>14
<1>15. CASE f.op \in {"cut", "wrap", "shake", "grade", "subtitles"}
  BY <1>5, <1>8, <1>15
<1> QED  BY <1>1, <1>10, <1>11, <1>12, <1>13, <1>14, <1>15 DEF Ops

LEMMA RunsOn ==
  ASSUME NEW known \in Knowns, NEW media \in Seq(Layers), NEW f \in Filters, Full(f)
  PROVE  Run1(known, media, f) \in Knowns
<1>1. PICK D \in SUBSET LabelPads : known \in [D -> Seq(Layers)]
  BY DEF Knowns
<1>2. ToSet(f.to) \in SUBSET LabelPads
  BY DEF Filters, ToSet
<1>3. Gives(known, media, f) \in Seq(Layers)
  BY GivesLayers
<1>4. Run1(known, media, f) \in [D \cup ToSet(f.to) -> Seq(Layers)]
  BY <1>1, <1>3 DEF Run1
<1> QED  BY <1>1, <1>2, <1>4 DEF Knowns

Runs(g, w, media) ==
  /\ g \in [0 .. Len(w) -> Knowns] /\ g[0] = << >>
  /\ \A i \in 1 .. Len(w) : g[i] = Run1(g[i - 1], media, w[i])

LEMMA RanIs ==
  ASSUME NEW w, Whole0(w), NEW media \in Seq(Layers)
  PROVE  \E g : Runs(g, w, media) /\ Ran(w, media) = g[Len(w)]
<1> DEFINE n == Len(w)
           next == [i \in 1 .. n |-> [known \in Knowns |-> Run1(known, media, w[i])]]
<1>1. n \in Nat /\ w \in Seq(Filters) /\ \A i \in 1 .. n : w[i] \in Filters /\ Full(w[i])
  BY DEF Whole0
<1>2. << >> \in Knowns
  <2>1. << >> \in [{} -> Seq(Layers)]
    OBVIOUS
  <2> QED  BY <2>1 DEF Knowns
<1>3. next \in Steps(n, Knowns)
  <2>1. \A i \in 1 .. n : \A known \in Knowns : Run1(known, media, w[i]) \in Knowns
    BY <1>1, RunsOn
  <2> HIDE DEF n
  <2> QED  BY <2>1 DEF Steps
<1>4. \A i \in 1 .. n : \A known \in Knowns : next[i][known] = Run1(known, media, w[i])
  OBVIOUS
<1> HIDE DEF next, n
<1>5. PICK g : Recurses(g, n, Knowns, << >>, next)
  BY <1>1, <1>2, <1>3, RecursionIsAnswered
<1>6. /\ g \in [0 .. n -> Knowns] /\ g[0] = << >>
      /\ \A i \in 1 .. n : g[i] = Run1(g[i - 1], media, w[i])
  <2>1. g \in [0 .. n -> Knowns] /\ g[0] = << >> /\ \A i \in 1 .. n : g[i] = next[i][g[i - 1]]
    BY <1>5 DEF Recurses
  <2>2. \A i \in 1 .. n : g[i - 1] \in Knowns
    BY <1>1, <2>1
  <2> QED  BY <1>4, <2>1, <2>2
<1>7. Runs(g, w, media)
  BY <1>6 DEF Runs, n
<1> DEFINE Laid(h) == h = [i \in 0 .. n |-> IF i = 0 THEN << >> ELSE Run1(h[i - 1], media, w[i])]
           ran == CHOOSE h : Laid(h)
<1>8. Laid(g)
  <2>1. \A i \in 0 .. n : g[i] = IF i = 0 THEN << >> ELSE Run1(g[i - 1], media, w[i])
    BY <1>1, <1>6
  <2>2. g = [i \in 0 .. n |-> g[i]]
    BY <1>6
  <2> QED  BY <2>1, <2>2
<1>9. Laid(ran)
  <2> HIDE DEF Laid
  <2> QED  BY <1>8
<1>10. Ran(w, media) = ran[n]
  BY DEF Ran, n
<1> HIDE DEF ran
<1> DEFINE P == {m \in 0 .. n : ran[m] = g[m]}
<1>11. 0 \in P
  BY <1>1, <1>6, <1>9
<1>12. \A m \in 1 .. n : m - 1 \in P => m \in P
  <2>z. \A m \in 1 .. n : m \in 0 .. n
    BY <1>1
  <2> SUFFICES ASSUME NEW m \in 1 .. n, m - 1 \in P  PROVE ran[m] = g[m]
    BY <2>z, Zenon
  <2>1. ran[m] = Run1(ran[m - 1], media, w[m])
    BY <1>1, <1>9
  <2>2. ran[m - 1] = g[m - 1]
    OBVIOUS
  <2> QED  BY <1>6, <2>1, <2>2
<1> HIDE DEF P
<1>13. \A m \in 0 .. n : m \in P
  BY <1>1, <1>11, <1>12, FromEachToTheNext
<1>14. ran[n] = g[n]
  BY <1>1, <1>13 DEF P
<1> QED  BY <1>7, <1>10, <1>14 DEF n

LEMMA RanAppend ==
  ASSUME NEW w, Whole0(w), NEW media \in Seq(Layers), NEW f \in Filters, Full(f)
  PROVE  /\ Whole0(Append(w, f)) /\ Ran(w, media) \in Knowns
         /\ Ran(Append(w, f), media) = Run1(Ran(w, media), media, f)
<1> DEFINE v == Append(w, f)
           n == Len(w)
<1>1. w \in Seq(Filters) /\ n \in Nat /\ DOMAIN w = 1 .. n
  BY DEF Whole0
<1>2. v \in Seq(Filters) /\ Len(v) = n + 1 /\ DOMAIN v = 1 .. n + 1 /\ v[n + 1] = f /\ \A i \in 1 .. n : v[i] = w[i]
  BY <1>1
<1>3. Whole0(v)
  <2>1. \A i \in 1 .. n + 1 : i = n + 1 \/ i \in 1 .. n
    BY <1>1
  <2> HIDE DEF v, n
  <2> QED  BY <1>1, <1>2, <2>1 DEF Whole0
<1> HIDE DEF v, n
<1>4. PICK h : Runs(h, w, media) /\ Ran(w, media) = h[n]
  BY RanIs DEF n
<1>5. PICK g : Runs(g, v, media) /\ Ran(v, media) = g[n + 1]
  BY <1>2, <1>3, RanIs
<1> DEFINE P == {m \in 0 .. n : g[m] = h[m]}
<1>6. h \in [0 .. n -> Knowns] /\ h[0] = << >> /\ \A i \in 1 .. n : h[i] = Run1(h[i - 1], media, w[i])
  BY <1>4 DEF Runs, n
<1>7. g[0] = << >> /\ \A i \in 1 .. n + 1 : g[i] = Run1(g[i - 1], media, v[i])
  BY <1>2, <1>5 DEF Runs
<1>8. 0 \in P
  BY <1>1, <1>6, <1>7
<1>9. \A m \in 1 .. n : m - 1 \in P => m \in P
  <2>z. \A m \in 1 .. n : m \in 0 .. n
    BY <1>1
  <2> SUFFICES ASSUME NEW m \in 1 .. n, m - 1 \in P  PROVE g[m] = h[m]
    BY <2>z, Zenon
  <2>1. g[m] = Run1(g[m - 1], media, v[m]) /\ v[m] = w[m] /\ g[m - 1] = h[m - 1]
    BY <1>1, <1>2, <1>7
  <2> QED  BY <1>6, <2>1
<1> HIDE DEF P
<1>10. \A m \in 0 .. n : m \in P
  BY <1>1, <1>8, <1>9, FromEachToTheNext
<1>11. g[n] = h[n] /\ h[n] \in Knowns
  BY <1>1, <1>6, <1>10 DEF P
<1>12. g[n + 1] = Run1(g[n], media, f)
  <2>1. n + 1 \in 1 .. n + 1 /\ (n + 1) - 1 = n
    BY <1>1
  <2> QED  BY <1>2, <1>7, <2>1
<1> QED  BY <1>3, <1>4, <1>5, <1>11, <1>12 DEF v

-----------------------------------------------------------------------------
(* What is put out, what of it is still open, and what it carries.           *)

UsesOf(w, p) == UNION {{<<i, n>> : n \in {m \in DOMAIN w[i].from : w[i].from[m] = p}} : i \in DOMAIN w}
PutBy(w, p) == {j \in DOMAIN w : p \in ToSet(w[j].to)}

Carried(w, media, put, open) ==
  /\ DOMAIN Ran(w, media) = put /\ DOMAIN open \subseteq put
  /\ \A p \in DOMAIN open : open[p] = Ran(w, media)[p]
PutOnce(w, put) ==
  /\ put = UNION {ToSet(w[j].to) : j \in DOMAIN w}
  /\ \A p \in put : \E i \in DOMAIN w : PutBy(w, p) = {i}
TakenOnce(w, put, open) ==
  \A p \in put : IF p \in open THEN UsesOf(w, p) = {} ELSE \E x : UsesOf(w, p) = {x}
InOrder(w) ==
  \A i \in DOMAIN w : \A n \in DOMAIN w[i].from :
    IsFile(w[i].from[n]) \/ \E j \in 1 .. i - 1 : w[i].from[n] \in ToSet(w[j].to)
Wires(w, media, put, open) ==
  /\ Whole0(w) /\ media \in Seq(Layers)
  /\ Carried(w, media, put, open) /\ PutOnce(w, put) /\ TakenOnce(w, put, DOMAIN open) /\ InOrder(w)

\* A filter that takes files and what is open, and puts out what is new.
Fits(f, open, put) ==
  /\ f \in Filters /\ Full(f) /\ \A p \in ToSet(f.to) : p \notin put
  /\ \A m \in DOMAIN f.from : IsFile(f.from[m]) \/ f.from[m] \in open
  /\ \A m, l \in DOMAIN f.from : f.from[m] = f.from[l] /\ f.from[m] \in open => m = l
After(next, open, media, f) ==
  /\ DOMAIN next = (DOMAIN open \ ToSet(f.from)) \cup ToSet(f.to)
  /\ \A p \in ToSet(f.to) : next[p] = Gives(open, media, f)
  /\ \A p \in DOMAIN open \ ToSet(f.from) : next[p] = open[p]

LEMMA GivesSame ==
  ASSUME NEW known, NEW open, NEW media, NEW f,
         \A m \in DOMAIN f.from : Carries(known, media, f.from[m]) = Carries(open, media, f.from[m])
  PROVE  Gives(known, media, f) = Gives(open, media, f)
<1>1. [m \in DOMAIN f.from |-> Carries(known, media, f.from[m])] = [m \in DOMAIN f.from |-> Carries(open, media,
      f.from[m])]
  OBVIOUS
<1> QED  BY <1>1 DEF Gives

LEMMA UsesAre ==
  ASSUME NEW w, NEW p
  PROVE  \A x : x \in UsesOf(w, p) <=> \E i \in DOMAIN w : \E n \in DOMAIN w[i].from : w[i].from[n] = p
        /\ x = <<i, n>>
BY DEF UsesOf

LEMMA LabelsAreNoFiles ==
  ASSUME NEW p \in LabelPads
  PROVE  ~IsFile(p)
<1>1. p[1] \in LabelNames
  BY DEF LabelPads
<1> QED  BY <1>1 DEF LabelNames, CardNames, IsFile

LEMMA PutAreLabels ==
  ASSUME NEW f \in Filters
  PROVE  \A p \in ToSet(f.to) : p \in LabelPads /\ ~IsFile(p)
<1>1. f.to \in Seq(LabelPads)
  BY DEF Filters
<1>2. \A p \in ToSet(f.to) : p \in LabelPads
  <2> HIDE DEF LabelPads
  <2> QED  BY <1>1 DEF ToSet
<1> QED  BY <1>2, LabelsAreNoFiles

LEMMA OneFilter ==
  ASSUME NEW w, NEW media, NEW put, NEW open, Wires(w, media, put, open), NEW f, Fits(f, DOMAIN open, put)
  PROVE  \E next : Wires(Append(w, f), media, put \cup ToSet(f.to), next) /\ After(next, open, media, f)
<1> DEFINE v == Append(w, f)
           n == Len(w)
           ran == Ran(w, media)
           left == DOMAIN open \ ToSet(f.from)
           next == [p \in left \cup ToSet(f.to) |-> IF p \in ToSet(f.to) THEN Gives(open, media, f) ELSE open[p]]
           all == put \cup ToSet(f.to)
<1>1. /\ Whole0(w) /\ media \in Seq(Layers) /\ Carried(w, media, put, open) /\ PutOnce(w, put)
      /\ TakenOnce(w, put, DOMAIN open) /\ InOrder(w)
  BY DEF Wires
<1>2. w \in Seq(Filters) /\ n \in Nat /\ DOMAIN w = 1 .. n
  BY <1>1 DEF Whole0
<1>3. f \in Filters /\ Full(f) /\ \A p \in ToSet(f.to) : p \notin put
  BY DEF Fits
<1>4. /\ v \in Seq(Filters) /\ DOMAIN v = 1 .. n + 1 /\ v[n + 1] = f /\ \A i \in 1 .. n : v[i] = w[i]
  BY <1>2, <1>3
<1>5. Whole0(v) /\ ran \in Knowns /\ Ran(v, media) = Run1(ran, media, f)
  BY <1>1, <1>3, RanAppend
<1>6. \A p \in ToSet(f.to) : p \in LabelPads /\ ~IsFile(p)
  BY <1>3, PutAreLabels
<1>7. \A m \in DOMAIN f.from : IsFile(f.from[m]) \/ f.from[m] \in DOMAIN open
  BY DEF Fits
<1>8. \A i \in 1 .. n + 1 : i = n + 1 \/ i \in 1 .. n
  BY <1>2
<1> HIDE DEF v, n, ran
<1>9. Gives(ran, media, f) = Gives(open, media, f)
  <2>1. \A p \in DOMAIN open : p \in DOMAIN ran /\ open[p] = ran[p]
    BY <1>1 DEF Carried, ran
  <2>2. \A m \in DOMAIN f.from : Carries(ran, media, f.from[m]) = Carries(open, media, f.from[m])
    BY <1>7, <2>1 DEF Carries
  <2> QED  BY <2>2, GivesSame
<1>10. Carried(v, media, all, next)
  <2>1. DOMAIN ran = put /\ DOMAIN open \subseteq put /\ \A p \in DOMAIN open : open[p] = ran[p]
    BY <1>1 DEF Carried, ran
  <2>2. Ran(v, media) = [p \in put \cup ToSet(f.to) |-> IF p \in ToSet(f.to) THEN Gives(open, media, f) ELSE ran[p]]
    BY <1>5, <1>9, <2>1 DEF Run1
  <2> QED  BY <2>1, <2>2 DEF Carried
<1>11. UNION {ToSet(v[j].to) : j \in DOMAIN v} = all
  <2>1. put = UNION {ToSet(w[j].to) : j \in 1 .. n}
    BY <1>1, <1>2 DEF PutOnce
  <2>2. n + 1 \in 1 .. n + 1 /\ 1 .. n \subseteq 1 .. n + 1
    BY <1>2
  <2>3. ASSUME NEW p \in all  PROVE \E i \in 1 .. n + 1 : p \in ToSet(v[i].to)
    <3>1. CASE p \in put
      <4>1. PICK i \in 1 .. n : p \in ToSet(w[i].to)
        BY <2>1, <3>1
      <4> QED  BY <1>4, <2>2, <4>1
    <3>2. CASE p \in ToSet(f.to)
      BY <1>4, <2>2, <3>2
    <3> QED  BY <3>1, <3>2
  <2>4. ASSUME NEW i \in 1 .. n + 1, NEW p \in ToSet(v[i].to)  PROVE p \in all
    BY <1>4, <1>8, <2>1
  <2> QED  BY <1>4, <2>3, <2>4
<1>12. PutOnce(v, all)
  <2>1. ASSUME NEW p \in all  PROVE \E i \in DOMAIN v : PutBy(v, p) = {i}
    <3>1. CASE p \in put
      <4>1. PICK i \in DOMAIN w : PutBy(w, p) = {i}
        BY <1>1, <3>1 DEF PutOnce
      <4>2. p \notin ToSet(f.to)
        BY <1>3, <3>1
      <4>3. \A j \in DOMAIN v : p \in ToSet(v[j].to) => j \in 1 .. n /\ p \in ToSet(w[j].to)
        BY <1>4, <1>8, <4>2
      <4>4. \A j \in DOMAIN w : j \in DOMAIN v /\ v[j] = w[j]
        BY <1>2, <1>4
      <4>5. PutBy(v, p) = PutBy(w, p)
        BY <1>2, <4>3, <4>4 DEF PutBy
      <4> QED  BY <4>1, <4>4, <4>5
    <3>2. CASE p \notin put
      <4>1. p \in ToSet(f.to)
        BY <3>2
      <4>2. \A j \in 1 .. n : p \notin ToSet(w[j].to)
        BY <1>1, <1>2, <3>2 DEF PutOnce
      <4>3. n + 1 \in DOMAIN v
        BY <1>2, <1>4
      <4>4. PutBy(v, p) = {n + 1}
        BY <1>4, <1>8, <4>1, <4>2, <4>3 DEF PutBy
      <4> QED  BY <4>3, <4>4
    <3> QED  BY <3>1, <3>2
  <2> QED  BY <1>11, <2>1 DEF PutOnce
<1>13. \A p : UsesOf(v, p) = UsesOf(w, p) \cup {<<n + 1, m>> : m \in {m \in DOMAIN f.from : f.from[m] = p}}
  <2> TAKE p
  <2>1. ASSUME NEW x \in UsesOf(v, p)
        PROVE  x \in UsesOf(w, p) \/ \E m \in DOMAIN f.from : f.from[m] = p /\ x = <<n + 1, m>>
    <3>1. PICK i \in DOMAIN v : \E m \in DOMAIN v[i].from : v[i].from[m] = p /\ x = <<i, m>>
      BY UsesAre
    <3>2. CASE i = n + 1
      BY <1>4, <3>1, <3>2
    <3>3. CASE i \in 1 .. n
      <4>1. i \in DOMAIN w /\ v[i] = w[i]
        BY <1>2, <1>4, <3>3
      <4> QED  BY <3>1, <4>1, UsesAre
    <3> QED  BY <1>4, <1>8, <3>2, <3>3
  <2>2. ASSUME NEW x \in UsesOf(w, p)  PROVE x \in UsesOf(v, p)
    <3>1. PICK i \in DOMAIN w : \E m \in DOMAIN w[i].from : w[i].from[m] = p /\ x = <<i, m>>
      BY UsesAre
    <3>2. i \in DOMAIN v /\ v[i] = w[i]
      BY <1>2, <1>4
    <3> QED  BY <3>1, <3>2, UsesAre
  <2>3. ASSUME NEW m \in DOMAIN f.from, f.from[m] = p  PROVE <<n + 1, m>> \in UsesOf(v, p)
    <3>1. n + 1 \in DOMAIN v /\ v[n + 1] = f
      BY <1>2, <1>4
    <3> QED  BY <2>3, <3>1, UsesAre
  <2> QED  BY <2>1, <2>2, <2>3
<1>14. \A p : ~IsFile(p) /\ p \notin put => UsesOf(w, p) = {}
  <2> SUFFICES ASSUME NEW p, ~IsFile(p), p \notin put, NEW x \in UsesOf(w, p)  PROVE FALSE
    OBVIOUS
  <2>1. PICK i \in DOMAIN w : \E m \in DOMAIN w[i].from : w[i].from[m] = p
    BY UsesAre
  <2>2. PICK j \in 1 .. i - 1 : p \in ToSet(w[j].to)
    BY <1>1, <2>1 DEF InOrder
  <2>3. j \in DOMAIN w
    BY <1>2
  <2> QED  BY <1>1, <2>2, <2>3 DEF PutOnce
<1>15. TakenOnce(v, all, DOMAIN next)
  <2> SUFFICES ASSUME NEW p \in all
               PROVE  IF p \in left \cup ToSet(f.to) THEN UsesOf(v, p) = {} ELSE \E x : UsesOf(v, p) = {x}
    BY DEF TakenOnce
  <2>0. DOMAIN open \subseteq put
    BY <1>1 DEF Carried
  <2>1. CASE p \in ToSet(f.to)
    <3>1. UsesOf(w, p) = {} /\ p \notin put /\ ~IsFile(p)
      BY <1>3, <1>6, <1>14, <2>1
    <3>2. \A m \in DOMAIN f.from : f.from[m] # p
      BY <1>7, <2>0, <3>1
    <3> QED  BY <1>13, <2>1, <3>1, <3>2
  <2>2. CASE p \in left
    <3>1. UsesOf(w, p) = {}
      BY <1>1, <2>0, <2>2 DEF TakenOnce
    <3>2. \A m \in DOMAIN f.from : f.from[m] # p
      BY <2>2 DEF ToSet
    <3> QED  BY <1>13, <2>2, <3>1, <3>2
  <2>3. CASE p \in DOMAIN open /\ p \in ToSet(f.from) /\ p \notin ToSet(f.to)
    <3>1. UsesOf(w, p) = {}
      BY <1>1, <2>0, <2>3 DEF TakenOnce
    <3>2. PICK m \in DOMAIN f.from : f.from[m] = p
      BY <2>3 DEF ToSet
    <3>3. \A l \in DOMAIN f.from : f.from[l] = p => l = m
      BY <2>3, <3>2 DEF Fits
    <3>4. UsesOf(v, p) = {<<n + 1, m>>}
      BY <1>13, <3>1, <3>2, <3>3
    <3> QED  BY <2>3, <3>4
  <2>4. CASE p \notin DOMAIN open /\ p \notin ToSet(f.to)
    <3>1. PICK x : UsesOf(w, p) = {x}
      BY <1>1, <2>4 DEF TakenOnce
    <3>2. ~IsFile(p)
      <4>1. PICK i \in DOMAIN w : p \in ToSet(w[i].to)
        BY <1>1, <2>4 DEF PutOnce
      <4>2. w[i] \in Filters
        BY <1>2
      <4> QED  BY <4>1, <4>2, PutAreLabels
    <3>3. \A m \in DOMAIN f.from : f.from[m] # p
      BY <1>7, <2>4, <3>2
    <3>4. UsesOf(v, p) = {x}
      BY <1>13, <3>1, <3>3
    <3> QED  BY <2>4, <3>4
  <2> QED  BY <2>1, <2>2, <2>3, <2>4
<1>16. InOrder(v)
  <2> SUFFICES ASSUME NEW i \in DOMAIN v, NEW m \in DOMAIN v[i].from
               PROVE  IsFile(v[i].from[m]) \/ \E j \in 1 .. i - 1 : v[i].from[m] \in ToSet(v[j].to)
    BY DEF InOrder
  <2>1. CASE i \in 1 .. n
    <3>1. i \in DOMAIN w /\ v[i] = w[i]
      BY <1>2, <1>4, <2>1
    <3>2. IsFile(v[i].from[m]) \/ \E j \in 1 .. i - 1 : v[i].from[m] \in ToSet(w[j].to)
      BY <1>1, <3>1 DEF InOrder
    <3>3. \A j \in 1 .. i - 1 : v[j] = w[j]
      BY <1>2, <1>4, <2>1
    <3> QED  BY <3>2, <3>3
  <2>2. CASE i = n + 1
    <3>1. m \in DOMAIN f.from /\ v[i].from[m] = f.from[m]
      BY <1>4, <2>2
    <3>2. CASE f.from[m] \in DOMAIN open
      <4>1. f.from[m] \in put
        BY <1>1, <3>2 DEF Carried
      <4>2. PICK j \in 1 .. n : f.from[m] \in ToSet(w[j].to)
        BY <1>1, <1>2, <4>1 DEF PutOnce
      <4>3. j \in 1 .. i - 1 /\ v[j] = w[j]
        BY <1>2, <1>4, <2>2
      <4> QED  BY <3>1, <4>2, <4>3
    <3> QED  BY <1>7, <3>1, <3>2
  <2> QED  BY <1>4, <1>8, <2>1, <2>2
<1>17. After(next, open, media, f)
  <2>1. \A p \in DOMAIN open : p \notin ToSet(f.to)
    BY <1>1, <1>3 DEF Carried
  <2> QED  BY <2>1 DEF After
<1>18. Wires(v, media, all, next)
  BY <1>1, <1>5, <1>10, <1>12, <1>15, <1>16 DEF Wires
<1> HIDE DEF next, all
<1> QED  BY <1>17, <1>18 DEF v, all

-----------------------------------------------------------------------------
(* The filters by what they take and put out.                                *)

\* What was taken is closed, what is put out carries x, the rest is as it was.
Swaps(open, next, from, to, x) ==
  /\ DOMAIN next = (DOMAIN open \ from) \cup to
  /\ \A p \in to : next[p] = x
  /\ \A p \in DOMAIN open \ from : next[p] = open[p]
Made(op, of, x) ==
  CASE op \in {"keep", "split"} -> x
    [] op = "matte" -> << >>
    [] op = "shadow" -> << <<"shadow", of>> >>
    [] OTHER -> Append(x, <<op, of>>)
Met(op, of, x, y) ==
  CASE op = "fit" -> x
    [] op \in {"overlay", "mix"} -> x \o y
    [] op = "matte" -> << >>
    [] op = "duck" -> Append(x, <<IF y = << <<"narration", 0>> >> THEN "ducked" ELSE "squeezed", 0>>)
    [] OTHER -> Append(x, <<op, of>>)

LEMMA OneAlone ==
  ASSUME NEW a
  PROVE  DOMAIN <<a>> = {1} /\ <<a>>[1] = a /\ Len(<<a>>) = 1 /\ ToSet(<<a>>) = {a}
BY DEF ToSet

LEMMA TwoTogether ==
  ASSUME NEW a, NEW b
  PROVE  /\ DOMAIN <<a, b>> = {1, 2} /\ <<a, b>>[1] = a /\ <<a, b>>[2] = b /\ Len(<<a, b>>) = 2
         /\ ToSet(<<a, b>>) = {a, b}
<1>1. DOMAIN <<a, b>> = {1, 2} /\ <<a, b>>[1] = a /\ <<a, b>>[2] = b /\ Len(<<a, b>>) = 2
  <2>1. DOMAIN <<a, b>> = 1 .. 2 /\ 1 .. 2 = {1, 2}
    OBVIOUS
  <2> QED  BY <2>1
<1> DEFINE s == <<a, b>>
<1>2. DOMAIN s = {1, 2} /\ s[1] = a /\ s[2] = b
  BY <1>1
<1> HIDE DEF s
<1>3. ToSet(s) = {a, b}
  BY <1>2 DEF ToSet
<1> QED  BY <1>1, <1>3 DEF s

LEMMA NoneAtAll == DOMAIN << >> = {} /\ Len(<< >>) = 0 /\ ToSet(<< >>) = {}
BY DEF ToSet

LEMMA OpenAreLabels ==
  ASSUME NEW w, NEW media, NEW put, NEW open, Wires(w, media, put, open)
  PROVE  DOMAIN open \subseteq put /\ \A p \in put : p \in LabelPads /\ ~IsFile(p)
<1>1. DOMAIN open \subseteq put
  BY DEF Wires, Carried
<1>2. ASSUME NEW p \in put  PROVE p \in LabelPads
  <2>1. PICK j \in DOMAIN w : p \in ToSet(w[j].to)
    BY DEF Wires, PutOnce
  <2>2. w[j] \in Filters
    BY DEF Wires, Whole0
  <2> QED  BY <2>1, <2>2, PutAreLabels
<1> QED  BY <1>1, <1>2, LabelsAreNoFiles

LEMMA LabelsArePads ==
  /\ LabelPads \subseteq Pads
  /\ \A i \in Nat : <<"v", i>> \in Pads /\ IsFile(<<"v", i>>) /\ <<"a", i>> \in Pads /\ IsFile(<<"a", i>>)
BY DEF Pads, IsFile

LEMMA CarriedAre ==
  ASSUME NEW w, NEW media, NEW put, NEW open, Wires(w, media, put, open), NEW pad \in Pads
  PROVE  Carries(open, media, pad) \in Seq(Layers)
<1>1. Ran(w, media) \in Knowns /\ media \in Seq(Layers)
  <2>1. PICK g : Runs(g, w, media) /\ Ran(w, media) = g[Len(w)]
    BY RanIs DEF Wires
  <2>2. Len(w) \in Nat /\ g \in [0 .. Len(w) -> Knowns]
    BY <2>1 DEF Runs, Wires, Whole0
  <2> QED  BY <2>1, <2>2 DEF Wires
<1>2. \A p \in DOMAIN open : open[p] \in Seq(Layers)
  <2> SUFFICES ASSUME NEW p \in DOMAIN open  PROVE open[p] \in Seq(Layers)
    OBVIOUS
  <2>1. PICK D \in SUBSET LabelPads : Ran(w, media) \in [D -> Seq(Layers)]
    BY <1>1 DEF Knowns
  <2>2. p \in D /\ open[p] = Ran(w, media)[p]
    BY <2>1 DEF Wires, Carried
  <2> QED  BY <2>1, <2>2
<1>3. ~IsFile(pad) /\ pad \notin DOMAIN open => Carries(open, media, pad) = << <<"no label", 0>> >>
  BY DEF Carries
<1>4. IsFile(pad) => Carries(open, media, pad) = Carries(Ran(w, media), media, pad)
  BY DEF Carries
<1>5. << <<"no label", 0>> >> \in Seq(Layers)
  <2> DEFINE none == <<"no label", 0>>
  <2>1. none \in Layers
    BY DEF Layers, LayerNames
  <2> HIDE DEF none, Layers
  <2>2. <<none>> \in Seq(Layers)
    BY <2>1
  <2> QED  BY <2>2 DEF none
<1>6. pad \in DOMAIN open /\ ~IsFile(pad) => Carries(open, media, pad) = open[pad]
  BY DEF Carries
<1> QED  BY <1>1, <1>2, <1>3, <1>4, <1>5, <1>6, CarriedLayers

LEMMA TwoFlattened ==
  ASSUME NEW S, NEW x \in Seq(S), NEW y \in Seq(S)
  PROVE  FlattenSeq(<<x, y>>) = x \o y
<1> DEFINE q == <<x, y>>
<1>1. q \in [1 .. 2 -> Seq(S)]
  OBVIOUS
<1>2. q[1] = x /\ q[2] = y
  OBVIOUS
<1> HIDE DEF q
<1>3. PICK f \in [0 .. 2 -> Seq(S)] : Flattens(f, q, 2) /\ FlattenSeq(q) = f[2]
  BY <1>1, FlattenedIs
<1>4. f[0] = << >> /\ f[1] = f[0] \o q[1] /\ f[2] = f[1] \o q[2]
  <2>1. f[0] = << >> /\ \A i \in 1 .. 2 : f[i] = f[i - 1] \o q[i]
    BY <1>3 DEF Flattens
  <2>2. 1 \in 1 .. 2 /\ 2 \in 1 .. 2 /\ 1 - 1 = 0 /\ 2 - 1 = 1
    OBVIOUS
  <2>3. f[1] = f[1 - 1] \o q[1]
    BY <2>1, <2>2, Zenon
  <2>4. f[2] = f[2 - 1] \o q[2]
    BY <2>1, <2>2, Zenon
  <2> QED  BY <2>1, <2>2, <2>3, <2>4, Zenon
<1>5. f[1] = x
  BY <1>2, <1>4, ConcatEmptySeq
<1> QED  BY <1>2, <1>3, <1>4, <1>5 DEF q

LEMMA ThreeFlattened ==
  ASSUME NEW S, NEW x \in Seq(S), NEW y \in Seq(S), NEW z \in Seq(S)
  PROVE  FlattenSeq(<<x, y, z>>) = (x \o y) \o z
<1> DEFINE q == <<x, y, z>>
<1>1. q \in [1 .. 3 -> Seq(S)]
  OBVIOUS
<1>2. q[1] = x /\ q[2] = y /\ q[3] = z
  OBVIOUS
<1> HIDE DEF q
<1>3. PICK f \in [0 .. 3 -> Seq(S)] : Flattens(f, q, 3) /\ FlattenSeq(q) = f[3]
  BY <1>1, FlattenedIs
<1>4. f[0] = << >> /\ f[1] = f[0] \o q[1] /\ f[2] = f[1] \o q[2] /\ f[3] = f[2] \o q[3]
  <2>1. f[0] = << >> /\ \A i \in 1 .. 3 : f[i] = f[i - 1] \o q[i]
    BY <1>3 DEF Flattens
  <2>2. 1 \in 1 .. 3 /\ 2 \in 1 .. 3 /\ 3 \in 1 .. 3 /\ 1 - 1 = 0 /\ 2 - 1 = 1 /\ 3 - 1 = 2
    OBVIOUS
  <2>3. f[1] = f[1 - 1] \o q[1]
    BY <2>1, <2>2, Zenon
  <2>4. f[2] = f[2 - 1] \o q[2]
    BY <2>1, <2>2, Zenon
  <2>5. f[3] = f[3 - 1] \o q[3]
    BY <2>1, <2>2, Zenon
  <2> QED  BY <2>1, <2>2, <2>3, <2>4, <2>5, Zenon
<1>5. f[1] = x
  BY <1>2, <1>4, ConcatEmptySeq
<1> QED  BY <1>2, <1>3, <1>4, <1>5 DEF q

LEMMA GivesOfOne ==
  ASSUME NEW open, NEW media, NEW op \in Ops \ {"fit", "overlay", "mix", "concat", "duck"}, NEW of, NEW a, NEW to
  PROVE  Gives(open, media, Filter(op, of, <<a>>, to)) = Made(op, of, Carries(open, media, a))
<1> DEFINE f == Filter(op, of, <<a>>, to)
           x == Carries(open, media, a)
           in == [i \in DOMAIN f.from |-> Carries(open, media, f.from[i])]
<1>1. f.op = op /\ f.of = of /\ f.from = <<a>>
  BY DEF Filter
<1>2. in[1] = x
  <2>1. DOMAIN f.from = {1} /\ f.from[1] = a
    BY <1>1, OneAlone
  <2> HIDE DEF f
  <2> QED  BY <2>1
<1>3. Gives(open, media, f) =
        CASE f.op \in {"keep", "split", "fit"} -> in[1]
          [] f.op \in {"overlay", "mix", "concat"} -> FlattenSeq(in)
          [] f.op = "matte" -> << >>
          [] f.op = "shadow" -> << <<"shadow", f.of>> >>
          [] f.op = "duck" -> Append(in[1], <<IF in[2] = << <<"narration", 0>> >> THEN "ducked" ELSE "squeezed", 0>>)
          [] OTHER -> Append(in[1], <<f.op, f.of>>)
  BY DEF Gives
<1> HIDE DEF in, x, f
<1>4. Gives(open, media, f) = Made(op, of, x)
  <2>1. CASE op \in {"keep", "split"}
    BY <1>1, <1>2, <1>3, <2>1 DEF Made
  <2>2. CASE op = "matte"
    BY <1>1, <1>2, <1>3, <2>2 DEF Made
  <2>3. CASE op = "shadow"
    BY <1>1, <1>2, <1>3, <2>3 DEF Made
  <2>4. CASE op \in {"cut", "wrap", "shake", "grade", "subtitles"}
    BY <1>1, <1>2, <1>3, <2>4 DEF Made
  <2> QED  BY <2>1, <2>2, <2>3, <2>4 DEF Ops
<1> QED  BY <1>4 DEF f, x

LEMMA GivesOfTwo ==
  ASSUME NEW open, NEW media, NEW f, NEW op \in {"fit", "overlay", "mix", "matte", "duck", "cut", "wrap"},
         NEW of, NEW a, NEW b, f.op = op, f.of = of, f.from = <<a, b>>,
         Carries(open, media, a) \in Seq(Layers), Carries(open, media, b) \in Seq(Layers)
  PROVE  Gives(open, media, f) = Met(op, of, Carries(open, media, a), Carries(open, media, b))
<1> DEFINE x == Carries(open, media, a)
           y == Carries(open, media, b)
           in == [i \in DOMAIN f.from |-> Carries(open, media, f.from[i])]
<1>1. f.op = op /\ f.of = of /\ f.from = <<a, b>>
  OBVIOUS
<1>2. DOMAIN f.from = {1, 2} /\ f.from[1] = a /\ f.from[2] = b
  BY <1>1, TwoTogether
<1>3. in = <<x, y>> /\ in[1] = x /\ in[2] = y
  <2>1. DOMAIN in = {1, 2} /\ in[1] = x /\ in[2] = y /\ in = [i \in DOMAIN in |-> in[i]]
    <3> QED  BY <1>2
  <2>2. DOMAIN <<x, y>> = {1, 2} /\ <<x, y>>[1] = x /\ <<x, y>>[2] = y
    BY TwoTogether
  <2> DEFINE s == <<x, y>>
  <2>3. s = [i \in DOMAIN s |-> s[i]]
    OBVIOUS
  <2> HIDE DEF in, x, y, s
  <2>4. in = s
    BY <2>1, <2>2, <2>3 DEF s
  <2> QED  BY <2>1, <2>4 DEF s
<1>4. Gives(open, media, f) =
        CASE f.op \in {"keep", "split", "fit"} -> in[1]
          [] f.op \in {"overlay", "mix", "concat"} -> FlattenSeq(in)
          [] f.op = "matte" -> << >>
          [] f.op = "shadow" -> << <<"shadow", f.of>> >>
          [] f.op = "duck" -> Append(in[1], <<IF in[2] = << <<"narration", 0>> >> THEN "ducked" ELSE "squeezed", 0>>)
          [] OTHER -> Append(in[1], <<f.op, f.of>>)
  BY DEF Gives
<1>5. x \in Seq(Layers) /\ y \in Seq(Layers)
  OBVIOUS
<1> HIDE DEF in, x, y
<1>6. FlattenSeq(in) = x \o y
  BY <1>3, <1>5, TwoFlattened
<1>7. Gives(open, media, f) = Met(op, of, x, y)
  <2>1. CASE op = "fit"
    BY <1>1, <1>3, <1>4, <2>1 DEF Met
  <2>2. CASE op \in {"overlay", "mix"}
    BY <1>1, <1>6, <1>4, <2>2 DEF Met
  <2>3. CASE op = "matte"
    BY <1>1, <1>4, <2>3 DEF Met
  <2>4. CASE op = "duck"
    BY <1>1, <1>3, <1>4, <2>4 DEF Met
  <2>5. CASE op \in {"cut", "wrap"}
    BY <1>1, <1>3, <1>4, <2>5 DEF Met
  <2> QED  BY <2>1, <2>2, <2>3, <2>4, <2>5
<1> QED  BY <1>7 DEF x, y


LEMMA OneToOne ==
  ASSUME NEW w, NEW media, NEW put, NEW open, Wires(w, media, put, open),
         NEW op \in Ops \ {"fit", "overlay", "mix", "concat", "duck"}, NEW of \in Nat, NEW a \in Pads,
         NEW b \in LabelPads,
         b \notin put, IsFile(a) \/ a \in DOMAIN open
  PROVE  \E next : /\ Wires(Append(w, Filter(op, of, <<a>>, <<b>>)), media, put \cup {b}, next)
                   /\ Swaps(open, next, {a}, {b}, Made(op, of, Carries(open, media, a)))
<1> DEFINE f == Filter(op, of, <<a>>, <<b>>)
<1>1. f.op = op /\ f.of = of /\ f.from = <<a>> /\ f.to = <<b>>
  BY DEF Filter
<1>2. f \in Filters
  <2>1. op \in Ops
    BY DEF Ops
  <2>2. <<a>> \in Seq(Pads) /\ <<b>> \in Seq(LabelPads)
    <3> HIDE DEF Pads, LabelPads
    <3> QED  OBVIOUS
  <2> HIDE DEF Ops, Pads, LabelPads
  <2> QED  BY <2>1, <2>2 DEF Filters, Filter
<1>4. ToSet(f.from) = {a} /\ ToSet(f.to) = {b} /\ DOMAIN f.from = {1} /\ f.from[1] = a /\ Len(f.from) = 1
  BY <1>1, OneAlone
<1>3. Full(f)
  BY <1>1, <1>4 DEF Full
<1>5. Fits(f, DOMAIN open, put)
  <2>1. \A m \in DOMAIN f.from : f.from[m] = a
    BY <1>4
  <2>2. \A m, l \in DOMAIN f.from : f.from[m] = f.from[l] => m = l
    BY <1>4
  <2>3. \A m \in DOMAIN f.from : IsFile(f.from[m]) \/ f.from[m] \in DOMAIN open
    BY <2>1
  <2> HIDE DEF f
  <2> QED  BY <1>2, <1>3, <1>4, <2>3, <2>2 DEF Fits
<1>6. Gives(open, media, f) = Made(op, of, Carries(open, media, a))
  BY GivesOfOne
<1> HIDE DEF f
<1>7. PICK next : Wires(Append(w, f), media, put \cup ToSet(f.to), next) /\ After(next, open, media, f)
  BY <1>5, OneFilter
<1>8. Swaps(open, next, {a}, {b}, Made(op, of, Carries(open, media, a)))
  BY <1>4, <1>6, <1>7 DEF After, Swaps
<1> QED  BY <1>4, <1>7, <1>8 DEF f


LEMMA OneToTwo ==
  ASSUME NEW w, NEW media, NEW put, NEW open, Wires(w, media, put, open),
         NEW op \in Ops \ {"fit", "overlay", "mix", "concat", "duck"}, NEW of \in Nat, NEW a \in Pads,
         NEW b \in LabelPads, NEW c \in LabelPads,
         b \notin put, c \notin put, IsFile(a) \/ a \in DOMAIN open
  PROVE  \E next : /\ Wires(Append(w, Filter(op, of, <<a>>, <<b, c>>)), media, put \cup {b, c}, next)
                   /\ Swaps(open, next, {a}, {b, c}, Made(op, of, Carries(open, media, a)))
<1> DEFINE f == Filter(op, of, <<a>>, <<b, c>>)
<1>1. f.op = op /\ f.of = of /\ f.from = <<a>> /\ f.to = <<b, c>>
  BY DEF Filter
<1>2. f \in Filters
  <2>1. op \in Ops
    BY DEF Ops
  <2>2. <<a>> \in Seq(Pads) /\ <<b, c>> \in Seq(LabelPads)
    <3> HIDE DEF Pads, LabelPads
    <3> QED  OBVIOUS
  <2> HIDE DEF Ops, Pads, LabelPads
  <2> QED  BY <2>1, <2>2 DEF Filters, Filter
<1>4. ToSet(f.from) = {a} /\ ToSet(f.to) = {b, c} /\ DOMAIN f.from = {1} /\ f.from[1] = a /\ Len(f.from) = 1
  BY <1>1, OneAlone, TwoTogether
<1>3. Full(f)
  BY <1>1, <1>4 DEF Full
<1>5. Fits(f, DOMAIN open, put)
  <2>1. \A m \in DOMAIN f.from : f.from[m] = a
    BY <1>4
  <2>2. \A m, l \in DOMAIN f.from : f.from[m] = f.from[l] => m = l
    BY <1>4
  <2>3. \A m \in DOMAIN f.from : IsFile(f.from[m]) \/ f.from[m] \in DOMAIN open
    BY <2>1
  <2> HIDE DEF f
  <2> QED  BY <1>2, <1>3, <1>4, <2>3, <2>2 DEF Fits
<1>6. Gives(open, media, f) = Made(op, of, Carries(open, media, a))
  BY GivesOfOne
<1> HIDE DEF f
<1>7. PICK next : Wires(Append(w, f), media, put \cup ToSet(f.to), next) /\ After(next, open, media, f)
  BY <1>5, OneFilter
<1>8. Swaps(open, next, {a}, {b, c}, Made(op, of, Carries(open, media, a)))
  BY <1>4, <1>6, <1>7 DEF After, Swaps
<1> QED  BY <1>4, <1>7, <1>8 DEF f


LEMMA TwoToOne ==
  ASSUME NEW w, NEW media, NEW put, NEW open, Wires(w, media, put, open),
         NEW op \in {"fit", "overlay", "mix", "matte", "duck", "cut", "wrap"}, NEW of \in Nat, NEW a \in Pads,
         NEW b \in Pads, NEW c \in LabelPads,
         c \notin put, IsFile(a) \/ a \in DOMAIN open, IsFile(b) \/ b \in DOMAIN open, a # b
  PROVE  \E next : /\ Wires(Append(w, Filter(op, of, <<a, b>>, <<c>>)), media, put \cup {c}, next)
                   /\ Swaps(open, next, {a, b}, {c}, Met(op, of, Carries(open, media, a), Carries(open, media, b)))
<1> DEFINE f == Filter(op, of, <<a, b>>, <<c>>)
<1>1. f.op = op /\ f.of = of /\ f.from = <<a, b>> /\ f.to = <<c>>
  BY DEF Filter
<1>2. f \in Filters
  <2>1. op \in Ops
    BY DEF Ops
  <2>2. <<a, b>> \in Seq(Pads) /\ <<c>> \in Seq(LabelPads)
    <3> HIDE DEF Pads, LabelPads
    <3> QED  OBVIOUS
  <2> HIDE DEF Ops, Pads, LabelPads
  <2> QED  BY <2>1, <2>2 DEF Filters, Filter
<1>4. ToSet(f.from) = {a, b} /\ ToSet(f.to) = {c} /\ DOMAIN f.from = {1, 2} /\ f.from[1] = a /\ f.from[2] = b
      /\ Len(f.from) = 2
  BY <1>1, OneAlone, TwoTogether
<1>3. Full(f)
  BY <1>1, <1>4 DEF Full
<1>5. Fits(f, DOMAIN open, put)
  <2>1. \A m \in DOMAIN f.from : f.from[m] = a \/ f.from[m] = b
    BY <1>4
  <2>2. \A m, l \in DOMAIN f.from : f.from[m] = f.from[l] => m = l
    BY <1>4
  <2>3. \A m \in DOMAIN f.from : IsFile(f.from[m]) \/ f.from[m] \in DOMAIN open
    BY <2>1
  <2> HIDE DEF f
  <2> QED  BY <1>2, <1>3, <1>4, <2>3, <2>2 DEF Fits
<1>6. Gives(open, media, f) = Met(op, of, Carries(open, media, a), Carries(open, media, b))
  <2>1. Carries(open, media, a) \in Seq(Layers) /\ Carries(open, media, b) \in Seq(Layers)
    BY CarriedAre
  <2> HIDE DEF f
  <2> QED  BY <1>1, <2>1, GivesOfTwo
<1> HIDE DEF f
<1>7. PICK next : Wires(Append(w, f), media, put \cup ToSet(f.to), next) /\ After(next, open, media, f)
  BY <1>5, OneFilter
<1>8. Swaps(open, next, {a, b}, {c}, Met(op, of, Carries(open, media, a), Carries(open, media, b)))
  BY <1>4, <1>6, <1>7 DEF After, Swaps
<1> QED  BY <1>4, <1>7, <1>8 DEF f


LEMMA TwoToTwo ==
  ASSUME NEW w, NEW media, NEW put, NEW open, Wires(w, media, put, open),
         NEW op \in {"fit", "overlay", "mix", "matte", "duck", "cut", "wrap"}, NEW of \in Nat, NEW a \in Pads,
         NEW b \in Pads, NEW c \in LabelPads, NEW d \in LabelPads,
         c \notin put, d \notin put, IsFile(a) \/ a \in DOMAIN open, IsFile(b) \/ b \in DOMAIN open, a # b
  PROVE  \E next : /\ Wires(Append(w, Filter(op, of, <<a, b>>, <<c, d>>)), media, put \cup {c, d}, next)
                   /\ Swaps(open, next, {a, b}, {c, d}, Met(op, of, Carries(open, media, a), Carries(open, media, b)))
<1> DEFINE f == Filter(op, of, <<a, b>>, <<c, d>>)
<1>1. f.op = op /\ f.of = of /\ f.from = <<a, b>> /\ f.to = <<c, d>>
  BY DEF Filter
<1>2. f \in Filters
  <2>1. op \in Ops
    BY DEF Ops
  <2>2. <<a, b>> \in Seq(Pads) /\ <<c, d>> \in Seq(LabelPads)
    <3> HIDE DEF Pads, LabelPads
    <3> QED  OBVIOUS
  <2> HIDE DEF Ops, Pads, LabelPads
  <2> QED  BY <2>1, <2>2 DEF Filters, Filter
<1>4. ToSet(f.from) = {a, b} /\ ToSet(f.to) = {c, d} /\ DOMAIN f.from = {1, 2} /\ f.from[1] = a /\ f.from[2] = b
      /\ Len(f.from) = 2
  BY <1>1, TwoTogether
<1>3. Full(f)
  BY <1>1, <1>4 DEF Full
<1>5. Fits(f, DOMAIN open, put)
  <2>1. \A m \in DOMAIN f.from : f.from[m] = a \/ f.from[m] = b
    BY <1>4
  <2>2. \A m, l \in DOMAIN f.from : f.from[m] = f.from[l] => m = l
    BY <1>4
  <2>3. \A m \in DOMAIN f.from : IsFile(f.from[m]) \/ f.from[m] \in DOMAIN open
    BY <2>1
  <2> HIDE DEF f
  <2> QED  BY <1>2, <1>3, <1>4, <2>3, <2>2 DEF Fits
<1>6. Gives(open, media, f) = Met(op, of, Carries(open, media, a), Carries(open, media, b))
  <2>1. Carries(open, media, a) \in Seq(Layers) /\ Carries(open, media, b) \in Seq(Layers)
    BY CarriedAre
  <2> HIDE DEF f
  <2> QED  BY <1>1, <2>1, GivesOfTwo
<1> HIDE DEF f
<1>7. PICK next : Wires(Append(w, f), media, put \cup ToSet(f.to), next) /\ After(next, open, media, f)
  BY <1>5, OneFilter
<1>8. Swaps(open, next, {a, b}, {c, d}, Met(op, of, Carries(open, media, a), Carries(open, media, b)))
  BY <1>4, <1>6, <1>7 DEF After, Swaps
<1> QED  BY <1>4, <1>7, <1>8 DEF f


LEMMA NoneToOne ==
  ASSUME NEW w, NEW media, NEW put, NEW open, Wires(w, media, put, open),
         NEW op \in {"matte"}, NEW of \in Nat, NEW b \in LabelPads,
         b \notin put
  PROVE  \E next : /\ Wires(Append(w, Filter(op, of, << >>, <<b>>)), media, put \cup {b}, next)
                   /\ Swaps(open, next, {}, {b}, << >>)
<1> DEFINE f == Filter(op, of, << >>, <<b>>)
<1>1. f.op = op /\ f.of = of /\ f.from = << >> /\ f.to = <<b>>
  BY DEF Filter
<1>2. f \in Filters
  <2>1. op \in Ops
    BY DEF Ops
  <2>2. << >> \in Seq(Pads) /\ <<b>> \in Seq(LabelPads)
    <3> HIDE DEF Pads, LabelPads
    <3> QED  OBVIOUS
  <2> HIDE DEF Ops, Pads, LabelPads
  <2> QED  BY <2>1, <2>2 DEF Filters, Filter
<1>4. ToSet(f.from) = {} /\ ToSet(f.to) = {b} /\ DOMAIN f.from = {}
  BY <1>1, NoneAtAll, OneAlone
<1>3. Full(f)
  BY <1>1, <1>4 DEF Full
<1>5. Fits(f, DOMAIN open, put)
  <2>1. \A m \in DOMAIN f.from : FALSE
    BY <1>4
  <2>2. \A m, l \in DOMAIN f.from : f.from[m] = f.from[l] => m = l
    BY <1>4
  <2>3. \A m \in DOMAIN f.from : IsFile(f.from[m]) \/ f.from[m] \in DOMAIN open
    BY <2>1
  <2> HIDE DEF f
  <2> QED  BY <1>2, <1>3, <1>4, <2>3, <2>2 DEF Fits
<1>6. Gives(open, media, f) = << >>
  BY <1>1 DEF Gives
<1> HIDE DEF f
<1>7. PICK next : Wires(Append(w, f), media, put \cup ToSet(f.to), next) /\ After(next, open, media, f)
  BY <1>5, OneFilter
<1>8. Swaps(open, next, {}, {b}, << >>)
  BY <1>4, <1>6, <1>7 DEF After, Swaps
<1> QED  BY <1>4, <1>7, <1>8 DEF f

-----------------------------------------------------------------------------
(* The filters of one card.                                                  *)

LEMMA OneOnMore ==
  ASSUME NEW S, NEW w \in Seq(S), NEW s \in Seq(S), NEW f \in S
  PROVE  w \o Append(s, f) = Append(w \o s, f)
OBVIOUS


LEMMA Chain1 ==
  ASSUME NEW S, NEW w \in Seq(S), NEW f1
  PROVE  w \o <<f1>> = Append(w, f1)
<1> DEFINE T == S \cup {f1}
<1>1. w \in Seq(T) /\ f1 \in T
  OBVIOUS
<1> HIDE DEF T
<1>2. << >> \in Seq(T) /\ w \o << >> = w
  BY <1>1, ConcatEmptySeq
<1>3. <<f1>> = Append(<< >>, f1) /\ <<f1>> \in Seq(T)
  BY <1>1
<1>4. w \o <<f1>> = Append(w, f1)
  <2>1. w \o Append(<< >>, f1) = Append(w \o << >>, f1)
    BY <1>1, <1>2, OneOnMore
  <2> QED  BY <1>3, <1>2, <2>1
<1> QED  BY <1>4


LEMMA Chain2 ==
  ASSUME NEW S, NEW w \in Seq(S), NEW f1, NEW f2
  PROVE  w \o <<f1, f2>> = Append(Append(w, f1), f2)
<1> DEFINE T == S \cup {f1, f2}
<1>1. w \in Seq(T) /\ f1 \in T /\ f2 \in T
  OBVIOUS
<1> HIDE DEF T
<1>2. << >> \in Seq(T) /\ w \o << >> = w
  BY <1>1, ConcatEmptySeq
<1>3. <<f1>> = Append(<< >>, f1) /\ <<f1>> \in Seq(T)
  BY <1>1
<1>4. w \o <<f1>> = Append(w, f1)
  <2>1. w \o Append(<< >>, f1) = Append(w \o << >>, f1)
    BY <1>1, <1>2, OneOnMore
  <2> QED  BY <1>3, <1>2, <2>1
<1>5. <<f1, f2>> = Append(<<f1>>, f2) /\ <<f1, f2>> \in Seq(T)
  BY <1>1
<1>6. w \o <<f1, f2>> = Append(Append(w, f1), f2)
  <2>1. w \o Append(<<f1>>, f2) = Append(w \o <<f1>>, f2)
    BY <1>1, <1>3, OneOnMore
  <2> QED  BY <1>5, <1>4, <2>1
<1> QED  BY <1>6


LEMMA Chain3 ==
  ASSUME NEW S, NEW w \in Seq(S), NEW f1, NEW f2, NEW f3
  PROVE  w \o <<f1, f2, f3>> = Append(Append(Append(w, f1), f2), f3)
<1> DEFINE T == S \cup {f1, f2, f3}
<1>1. w \in Seq(T) /\ f1 \in T /\ f2 \in T /\ f3 \in T
  OBVIOUS
<1> HIDE DEF T
<1>2. << >> \in Seq(T) /\ w \o << >> = w
  BY <1>1, ConcatEmptySeq
<1>3. <<f1>> = Append(<< >>, f1) /\ <<f1>> \in Seq(T)
  BY <1>1
<1>4. w \o <<f1>> = Append(w, f1)
  <2>1. w \o Append(<< >>, f1) = Append(w \o << >>, f1)
    BY <1>1, <1>2, OneOnMore
  <2> QED  BY <1>3, <1>2, <2>1
<1>5. <<f1, f2>> = Append(<<f1>>, f2) /\ <<f1, f2>> \in Seq(T)
  BY <1>1
<1>6. w \o <<f1, f2>> = Append(Append(w, f1), f2)
  <2>1. w \o Append(<<f1>>, f2) = Append(w \o <<f1>>, f2)
    BY <1>1, <1>3, OneOnMore
  <2> QED  BY <1>5, <1>4, <2>1
<1>7. <<f1, f2, f3>> = Append(<<f1, f2>>, f3) /\ <<f1, f2, f3>> \in Seq(T)
  BY <1>1
<1>8. w \o <<f1, f2, f3>> = Append(Append(Append(w, f1), f2), f3)
  <2>1. w \o Append(<<f1, f2>>, f3) = Append(w \o <<f1, f2>>, f3)
    BY <1>1, <1>5, OneOnMore
  <2> QED  BY <1>7, <1>6, <2>1
<1> QED  BY <1>8


LEMMA Chain4 ==
  ASSUME NEW S, NEW w \in Seq(S), NEW f1, NEW f2, NEW f3, NEW f4
  PROVE  w \o <<f1, f2, f3, f4>> = Append(Append(Append(Append(w, f1), f2), f3), f4)
<1> DEFINE T == S \cup {f1, f2, f3, f4}
<1>1. w \in Seq(T) /\ f1 \in T /\ f2 \in T /\ f3 \in T /\ f4 \in T
  OBVIOUS
<1> HIDE DEF T
<1>2. << >> \in Seq(T) /\ w \o << >> = w
  BY <1>1, ConcatEmptySeq
<1>3. <<f1>> = Append(<< >>, f1) /\ <<f1>> \in Seq(T)
  BY <1>1
<1>4. w \o <<f1>> = Append(w, f1)
  <2>1. w \o Append(<< >>, f1) = Append(w \o << >>, f1)
    BY <1>1, <1>2, OneOnMore
  <2> QED  BY <1>3, <1>2, <2>1
<1>5. <<f1, f2>> = Append(<<f1>>, f2) /\ <<f1, f2>> \in Seq(T)
  BY <1>1
<1>6. w \o <<f1, f2>> = Append(Append(w, f1), f2)
  <2>1. w \o Append(<<f1>>, f2) = Append(w \o <<f1>>, f2)
    BY <1>1, <1>3, OneOnMore
  <2> QED  BY <1>5, <1>4, <2>1
<1>7. <<f1, f2, f3>> = Append(<<f1, f2>>, f3) /\ <<f1, f2, f3>> \in Seq(T)
  BY <1>1
<1>8. w \o <<f1, f2, f3>> = Append(Append(Append(w, f1), f2), f3)
  <2>1. w \o Append(<<f1, f2>>, f3) = Append(w \o <<f1, f2>>, f3)
    BY <1>1, <1>5, OneOnMore
  <2> QED  BY <1>7, <1>6, <2>1
<1>9. <<f1, f2, f3, f4>> = Append(<<f1, f2, f3>>, f4) /\ <<f1, f2, f3, f4>> \in Seq(T)
  BY <1>1
<1>10. w \o <<f1, f2, f3, f4>> = Append(Append(Append(Append(w, f1), f2), f3), f4)
  <2>1. w \o Append(<<f1, f2, f3>>, f4) = Append(w \o <<f1, f2, f3>>, f4)
    BY <1>1, <1>7, OneOnMore
  <2> QED  BY <1>9, <1>8, <2>1
<1> QED  BY <1>10


LEMMA Chain5 ==
  ASSUME NEW S, NEW w \in Seq(S), NEW f1, NEW f2, NEW f3, NEW f4, NEW f5
  PROVE  w \o <<f1, f2, f3, f4, f5>> = Append(Append(Append(Append(Append(w, f1), f2), f3), f4), f5)
<1> DEFINE T == S \cup {f1, f2, f3, f4, f5}
<1>1. w \in Seq(T) /\ f1 \in T /\ f2 \in T /\ f3 \in T /\ f4 \in T /\ f5 \in T
  OBVIOUS
<1> HIDE DEF T
<1>2. << >> \in Seq(T) /\ w \o << >> = w
  BY <1>1, ConcatEmptySeq
<1>3. <<f1>> = Append(<< >>, f1) /\ <<f1>> \in Seq(T)
  BY <1>1
<1>4. w \o <<f1>> = Append(w, f1)
  <2>1. w \o Append(<< >>, f1) = Append(w \o << >>, f1)
    BY <1>1, <1>2, OneOnMore
  <2> QED  BY <1>3, <1>2, <2>1
<1>5. <<f1, f2>> = Append(<<f1>>, f2) /\ <<f1, f2>> \in Seq(T)
  BY <1>1
<1>6. w \o <<f1, f2>> = Append(Append(w, f1), f2)
  <2>1. w \o Append(<<f1>>, f2) = Append(w \o <<f1>>, f2)
    BY <1>1, <1>3, OneOnMore
  <2> QED  BY <1>5, <1>4, <2>1
<1>7. <<f1, f2, f3>> = Append(<<f1, f2>>, f3) /\ <<f1, f2, f3>> \in Seq(T)
  BY <1>1
<1>8. w \o <<f1, f2, f3>> = Append(Append(Append(w, f1), f2), f3)
  <2>1. w \o Append(<<f1, f2>>, f3) = Append(w \o <<f1, f2>>, f3)
    BY <1>1, <1>5, OneOnMore
  <2> QED  BY <1>7, <1>6, <2>1
<1>9. <<f1, f2, f3, f4>> = Append(<<f1, f2, f3>>, f4) /\ <<f1, f2, f3, f4>> \in Seq(T)
  BY <1>1
<1>10. w \o <<f1, f2, f3, f4>> = Append(Append(Append(Append(w, f1), f2), f3), f4)
  <2>1. w \o Append(<<f1, f2, f3>>, f4) = Append(w \o <<f1, f2, f3>>, f4)
    BY <1>1, <1>7, OneOnMore
  <2> QED  BY <1>9, <1>8, <2>1
<1>11. <<f1, f2, f3, f4, f5>> = Append(<<f1, f2, f3, f4>>, f5) /\ <<f1, f2, f3, f4, f5>> \in Seq(T)
  BY <1>1
<1>12. w \o <<f1, f2, f3, f4, f5>> = Append(Append(Append(Append(Append(w, f1), f2), f3), f4), f5)
  <2>1. w \o Append(<<f1, f2, f3, f4>>, f5) = Append(w \o <<f1, f2, f3, f4>>, f5)
    BY <1>1, <1>9, OneOnMore
  <2> QED  BY <1>11, <1>10, <2>1
<1> QED  BY <1>12


LEMMA Chain6 ==
  ASSUME NEW S, NEW w \in Seq(S), NEW f1, NEW f2, NEW f3, NEW f4, NEW f5, NEW f6
  PROVE  w \o <<f1, f2, f3, f4, f5, f6>> = Append(Append(Append(Append(Append(Append(w, f1), f2), f3), f4), f5), f6)
<1> DEFINE T == S \cup {f1, f2, f3, f4, f5, f6}
<1>1. w \in Seq(T) /\ f1 \in T /\ f2 \in T /\ f3 \in T /\ f4 \in T /\ f5 \in T /\ f6 \in T
  OBVIOUS
<1> HIDE DEF T
<1>2. << >> \in Seq(T) /\ w \o << >> = w
  BY <1>1, ConcatEmptySeq
<1>3. <<f1>> = Append(<< >>, f1) /\ <<f1>> \in Seq(T)
  BY <1>1
<1>4. w \o <<f1>> = Append(w, f1)
  <2>1. w \o Append(<< >>, f1) = Append(w \o << >>, f1)
    BY <1>1, <1>2, OneOnMore
  <2> QED  BY <1>3, <1>2, <2>1
<1>5. <<f1, f2>> = Append(<<f1>>, f2) /\ <<f1, f2>> \in Seq(T)
  BY <1>1
<1>6. w \o <<f1, f2>> = Append(Append(w, f1), f2)
  <2>1. w \o Append(<<f1>>, f2) = Append(w \o <<f1>>, f2)
    BY <1>1, <1>3, OneOnMore
  <2> QED  BY <1>5, <1>4, <2>1
<1>7. <<f1, f2, f3>> = Append(<<f1, f2>>, f3) /\ <<f1, f2, f3>> \in Seq(T)
  BY <1>1
<1>8. w \o <<f1, f2, f3>> = Append(Append(Append(w, f1), f2), f3)
  <2>1. w \o Append(<<f1, f2>>, f3) = Append(w \o <<f1, f2>>, f3)
    BY <1>1, <1>5, OneOnMore
  <2> QED  BY <1>7, <1>6, <2>1
<1>9. <<f1, f2, f3, f4>> = Append(<<f1, f2, f3>>, f4) /\ <<f1, f2, f3, f4>> \in Seq(T)
  BY <1>1
<1>10. w \o <<f1, f2, f3, f4>> = Append(Append(Append(Append(w, f1), f2), f3), f4)
  <2>1. w \o Append(<<f1, f2, f3>>, f4) = Append(w \o <<f1, f2, f3>>, f4)
    BY <1>1, <1>7, OneOnMore
  <2> QED  BY <1>9, <1>8, <2>1
<1>11. <<f1, f2, f3, f4, f5>> = Append(<<f1, f2, f3, f4>>, f5) /\ <<f1, f2, f3, f4, f5>> \in Seq(T)
  BY <1>1
<1>12. w \o <<f1, f2, f3, f4, f5>> = Append(Append(Append(Append(Append(w, f1), f2), f3), f4), f5)
  <2>1. w \o Append(<<f1, f2, f3, f4>>, f5) = Append(w \o <<f1, f2, f3, f4>>, f5)
    BY <1>1, <1>9, OneOnMore
  <2> QED  BY <1>11, <1>10, <2>1
<1>13. <<f1, f2, f3, f4, f5, f6>> = Append(<<f1, f2, f3, f4, f5>>, f6) /\ <<f1, f2, f3, f4, f5, f6>> \in Seq(T)
  BY <1>1
<1>14. w \o <<f1, f2, f3, f4, f5, f6>> = Append(Append(Append(Append(Append(Append(w, f1), f2), f3), f4), f5), f6)
  <2>1. w \o Append(<<f1, f2, f3, f4, f5>>, f6) = Append(w \o <<f1, f2, f3, f4, f5>>, f6)
    BY <1>1, <1>11, OneOnMore
  <2> QED  BY <1>13, <1>12, <2>1
<1> QED  BY <1>14


OccludedPads(k) == {<<"om_a", k>>, <<"om_b", k>>, <<"om_alpha", k>>, <<"om_mask", k>>, <<"om_alpha2", k>>,
      <<"om", k>>}
LEMMA OccludedRuns ==
  ASSUME NEW w, NEW media, NEW put, NEW open, Wires(w, media, put, open), NEW k \in Nat, NEW who \in Nat,
         \A p \in OccludedPads(k) : p \notin put
  PROVE  \E next :
           /\ Wires(w \o Occluded(k, who), media, put \cup OccludedPads(k), next)
           /\ Swaps(open, next, {}, {<<"om", k>>}, Append(Carries(open, media, <<"v", k>>), <<"cut", who>>))
<1> DEFINE l_om_a == <<"om_a", k>>
           l_om_b == <<"om_b", k>>
           l_om_alpha == <<"om_alpha", k>>
           l_om_mask == <<"om_mask", k>>
           l_om_alpha2 == <<"om_alpha2", k>>
           l_om == <<"om", k>>
           R == DOMAIN open
           v == <<"v", k>>
           x == Carries(open, media, v)
           g1 == Filter("split", 0, <<v>>, <<l_om_a, l_om_b>>)
           g2 == Filter("matte", 0, <<l_om_a>>, <<l_om_alpha>>)
           g3 == Filter("matte", 0, << >>, <<l_om_mask>>)
           g4 == Filter("matte", 0, <<l_om_alpha, l_om_mask>>, <<l_om_alpha2>>)
           g5 == Filter("cut", who, <<l_om_b, l_om_alpha2>>, <<l_om>>)
           w1 == Append(w, g1)
           w2 == Append(w1, g2)
           w3 == Append(w2, g3)
           w4 == Append(w3, g4)
           w5 == Append(w4, g5)
           put1 == put \cup {l_om_a, l_om_b}
           put2 == put1 \cup {l_om_alpha}
           put3 == put2 \cup {l_om_mask}
           put4 == put3 \cup {l_om_alpha2}
           put5 == put4 \cup {l_om}
<1>1. l_om_a \in LabelPads /\ l_om_b \in LabelPads /\ l_om_alpha \in LabelPads /\ l_om_mask \in LabelPads
      /\ l_om_alpha2 \in LabelPads /\ l_om \in LabelPads
  BY DEF LabelPads, LabelNames, CardNames
<1>2. /\ l_om_a # l_om_b /\ l_om_a # l_om_alpha /\ l_om_a # l_om_mask /\ l_om_a # l_om_alpha2 /\ l_om_a # l_om
      /\ l_om_b # l_om_alpha /\ l_om_b # l_om_mask /\ l_om_b # l_om_alpha2 /\ l_om_b # l_om /\ l_om_alpha # l_om_mask
      /\ l_om_alpha # l_om_alpha2 /\ l_om_alpha # l_om /\ l_om_mask # l_om_alpha2 /\ l_om_mask # l_om
           /\ l_om_alpha2 # l_om
  OBVIOUS
<1>3. l_om_a \in Pads /\ ~IsFile(l_om_a) /\ l_om_b \in Pads /\ ~IsFile(l_om_b) /\ l_om_alpha \in Pads
      /\ ~IsFile(l_om_alpha) /\ l_om_mask \in Pads /\ ~IsFile(l_om_mask) /\ l_om_alpha2 \in Pads
      /\ ~IsFile(l_om_alpha2) /\ l_om \in Pads /\ ~IsFile(l_om)
  BY <1>1, LabelsArePads, LabelsAreNoFiles
<1>4. l_om_a \notin put /\ l_om_b \notin put /\ l_om_alpha \notin put /\ l_om_mask \notin put
      /\ l_om_alpha2 \notin put /\ l_om \notin put
  BY DEF OccludedPads
<1>5. DOMAIN open \subseteq put /\ \A p \in put : p \in LabelPads /\ ~IsFile(p)
  BY OpenAreLabels
<1>6. v \in Pads /\ IsFile(v) /\ v \notin DOMAIN open
  BY <1>4, <1>5, LabelsArePads
<1>7. l_om_a \notin R /\ l_om_b \notin R /\ l_om_alpha \notin R /\ l_om_mask \notin R /\ l_om_alpha2 \notin R
      /\ l_om \notin R /\ v \notin R
  BY <1>4, <1>5, <1>6
<1>8. DOMAIN open = R \cup {}
  OBVIOUS
<1> HIDE DEF l_om_a, l_om_b, l_om_alpha, l_om_mask, l_om_alpha2, l_om, R, put1, put2, put3, put4, put5, w1, w2,
      w3, w4, w5, g1, g2, g3, g4, g5, v, x
<1>9. PICK o1 : Wires(w1, media, put1, o1) /\ Swaps(open, o1, {v}, {l_om_a, l_om_b}, Made("split", 0,
      Carries(open, media, v)))
  <2>1. l_om_a \notin put /\ l_om_b \notin put /\ IsFile(v)
    BY <1>2, <1>4, <1>6, <1>8
  <2>2. Wires(w, media, put, open)
    BY <1>8
  <2>3. "split" \in Ops /\ 0 \in Nat /\ v \in Pads /\ l_om_a \in LabelPads /\ l_om_b \in LabelPads
    BY <1>1, <1>3, <1>6 DEF Ops
  <2> QED  BY <2>1, <2>2, <2>3, OneToTwo DEF w1, put1, g1
<1>10. DOMAIN o1 = R \cup {l_om_a, l_om_b} /\ o1[l_om_a] = x /\ o1[l_om_b] = x
      /\ \A p \in R : o1[p] = open[p]
  <2>1. Carries(open, media, v) = x
    BY <1>3, <1>6, <1>8 DEF Carries, x
  <2>2. Made("split", 0, Carries(open, media, v)) = x
    BY <2>1 DEF Made
  <2>3. DOMAIN o1 = (DOMAIN open \ {v}) \cup {l_om_a, l_om_b}
        /\ (\A p \in {l_om_a, l_om_b} : o1[p] = x) /\ \A p \in DOMAIN open \ {v} : o1[p] = open[p]
    BY <1>9, <2>2 DEF Swaps
  <2> QED  BY <1>2, <1>6, <1>7, <1>8, <2>3
<1>11. PICK o2 : Wires(w2, media, put2, o2) /\ Swaps(o1, o2, {l_om_a}, {l_om_alpha}, Made("matte", 0, Carries(o1,
      media, l_om_a)))
  <2>1. l_om_alpha \notin put1 /\ l_om_a \in DOMAIN o1
    BY <1>2, <1>4, <1>6, <1>10 DEF put1
  <2>2. Wires(w1, media, put1, o1)
    BY <1>9
  <2>3. "matte" \in Ops /\ 0 \in Nat /\ l_om_a \in Pads /\ l_om_alpha \in LabelPads
    BY <1>1, <1>3, <1>6 DEF Ops
  <2> QED  BY <2>1, <2>2, <2>3, OneToOne DEF w2, put2, g2
<1>12. DOMAIN o2 = R \cup {l_om_b, l_om_alpha} /\ o2[l_om_b] = x /\ o2[l_om_alpha] = << >>
      /\ \A p \in R : o2[p] = open[p]
  <2>1. Carries(o1, media, l_om_a) = x
    BY <1>3, <1>6, <1>10 DEF Carries
  <2>2. Made("matte", 0, Carries(o1, media, l_om_a)) = << >>
    BY <2>1 DEF Made
  <2>3. DOMAIN o2 = (DOMAIN o1 \ {l_om_a}) \cup {l_om_alpha}
        /\ (\A p \in {l_om_alpha} : o2[p] = << >>) /\ \A p \in DOMAIN o1 \ {l_om_a} : o2[p] = o1[p]
    BY <1>11, <2>2 DEF Swaps
  <2> QED  BY <1>2, <1>6, <1>7, <1>10, <2>3
<1>13. PICK o3 : Wires(w3, media, put3, o3) /\ Swaps(o2, o3, {}, {l_om_mask}, << >>)
  <2>1. l_om_mask \notin put2
    BY <1>2, <1>4, <1>6, <1>12 DEF put1, put2
  <2>2. Wires(w2, media, put2, o2)
    BY <1>11
  <2>3. "matte" \in Ops /\ 0 \in Nat /\ l_om_mask \in LabelPads
    BY <1>1, <1>3, <1>6 DEF Ops
  <2> QED  BY <2>1, <2>2, <2>3, NoneToOne DEF w3, put3, g3
<1>14. DOMAIN o3 = R \cup {l_om_b, l_om_alpha, l_om_mask} /\ o3[l_om_b] = x /\ o3[l_om_alpha] = << >>
      /\ o3[l_om_mask] = << >>
      /\ \A p \in R : o3[p] = open[p]
  <2>3. DOMAIN o3 = (DOMAIN o2 \ {}) \cup {l_om_mask}
        /\ (\A p \in {l_om_mask} : o3[p] = << >>) /\ \A p \in DOMAIN o2 \ {} : o3[p] = o2[p]
    BY <1>13 DEF Swaps
  <2> QED  BY <1>2, <1>6, <1>7, <1>12, <2>3
<1>15. PICK o4 : Wires(w4, media, put4, o4) /\ Swaps(o3, o4, {l_om_alpha, l_om_mask}, {l_om_alpha2}, Met("matte",
      0, Carries(o3, media, l_om_alpha), Carries(o3, media, l_om_mask)))
  <2>1. l_om_alpha2 \notin put3 /\ l_om_alpha \in DOMAIN o3 /\ l_om_mask \in DOMAIN o3 /\ l_om_alpha # l_om_mask
    BY <1>2, <1>4, <1>6, <1>14 DEF put1, put2, put3
  <2>2. Wires(w3, media, put3, o3)
    BY <1>13
  <2>3. "matte" \in Ops /\ 0 \in Nat /\ l_om_alpha \in Pads /\ l_om_mask \in Pads /\ l_om_alpha2 \in LabelPads
    BY <1>1, <1>3, <1>6 DEF Ops
  <2> QED  BY <2>1, <2>2, <2>3, TwoToOne DEF w4, put4, g4
<1>16. DOMAIN o4 = R \cup {l_om_b, l_om_alpha2} /\ o4[l_om_b] = x /\ o4[l_om_alpha2] = << >>
      /\ \A p \in R : o4[p] = open[p]
  <2>1. Carries(o3, media, l_om_alpha) = << >> /\ Carries(o3, media, l_om_mask) = << >>
    BY <1>3, <1>6, <1>14 DEF Carries
  <2>2. Met("matte", 0, Carries(o3, media, l_om_alpha), Carries(o3, media, l_om_mask)) = << >>
    BY <2>1 DEF Met
  <2>3. DOMAIN o4 = (DOMAIN o3 \ {l_om_alpha, l_om_mask}) \cup {l_om_alpha2}
        /\ (\A p \in {l_om_alpha2} : o4[p] = << >>) /\ \A p \in DOMAIN o3 \ {l_om_alpha, l_om_mask} : o4[p] = o3[p]
    BY <1>15, <2>2 DEF Swaps
  <2> QED  BY <1>2, <1>6, <1>7, <1>14, <2>3
<1>17. PICK o5 : Wires(w5, media, put5, o5) /\ Swaps(o4, o5, {l_om_b, l_om_alpha2}, {l_om}, Met("cut", who,
      Carries(o4, media, l_om_b), Carries(o4, media, l_om_alpha2)))
  <2>1. l_om \notin put4 /\ l_om_b \in DOMAIN o4 /\ l_om_alpha2 \in DOMAIN o4 /\ l_om_b # l_om_alpha2
    BY <1>2, <1>4, <1>6, <1>16 DEF put1, put2, put3, put4
  <2>2. Wires(w4, media, put4, o4)
    BY <1>15
  <2>3. "cut" \in Ops /\ who \in Nat /\ l_om_b \in Pads /\ l_om_alpha2 \in Pads /\ l_om \in LabelPads
    BY <1>1, <1>3, <1>6 DEF Ops
  <2> QED  BY <2>1, <2>2, <2>3, TwoToOne DEF w5, put5, g5
<1>18. DOMAIN o5 = R \cup {l_om} /\ o5[l_om] = Append(x, <<"cut", who>>)
      /\ \A p \in R : o5[p] = open[p]
  <2>1. Carries(o4, media, l_om_b) = x /\ Carries(o4, media, l_om_alpha2) = << >>
    BY <1>3, <1>6, <1>16 DEF Carries
  <2>2. Met("cut", who, Carries(o4, media, l_om_b), Carries(o4, media, l_om_alpha2)) = Append(x, <<"cut", who>>)
    BY <2>1 DEF Met
  <2>3. DOMAIN o5 = (DOMAIN o4 \ {l_om_b, l_om_alpha2}) \cup {l_om}
        /\ (\A p \in {l_om} : o5[p] = Append(x, <<"cut", who>>))
             /\ \A p \in DOMAIN o4 \ {l_om_b, l_om_alpha2} : o5[p] = o4[p]
    BY <1>17, <2>2 DEF Swaps
  <2> QED  BY <1>2, <1>6, <1>7, <1>16, <2>3
<1>19. w5 = w \o Occluded(k, who)
  <2>1. w \in Seq(Filters)
    BY DEF Wires, Whole0
  <2>2. w5 = w \o << g1, g2, g3, g4, g5 >>
    BY <2>1, Chain5 DEF w1, w2, w3, w4, w5
  <2> QED  BY <2>2 DEF g1, g2, g3, g4, g5, Occluded, l_om_a, l_om_b, l_om_alpha, l_om_mask, l_om_alpha2, l_om, v
<1>20. put5 = put \cup OccludedPads(k)
  BY DEF put1, put2, put3, put4, put5, OccludedPads, l_om_a, l_om_b, l_om_alpha, l_om_mask, l_om_alpha2, l_om
<1>21. Swaps(open, o5, {}, {l_om}, Append(x, <<"cut", who>>))
  BY <1>18, <1>7 DEF Swaps, R, Swaps
<1> QED  BY <1>17, <1>19, <1>20, <1>21 DEF l_om_a, l_om_b, l_om_alpha, l_om_mask, l_om_alpha2, l_om, R, v, x


ShadowedPads(k) == {<<"sh_src", k>>, <<"sh", k>>, <<"shg", k>>}
LEMMA ShadowedRuns ==
  ASSUME NEW w, NEW media, NEW put, NEW open, Wires(w, media, put, open), NEW k \in Nat, NEW who \in Nat, NEW base,
         \A p \in ShadowedPads(k) : p \notin put,
         base \in DOMAIN open
  PROVE  \E next :
           /\ Wires(w \o Shadowed(k, who, base), media, put \cup ShadowedPads(k), next)
           /\ Swaps(open, next, {base}, {<<"shg", k>>}, open[base] \o << <<"shadow", who>> >>)
<1> DEFINE l_sh_src == <<"sh_src", k>>
           l_sh == <<"sh", k>>
           l_shg == <<"shg", k>>
           R == DOMAIN open \ {base}
           x == open[base]
           g1 == Filter("matte", 0, << >>, <<l_sh_src>>)
           g2 == Filter("shadow", who, <<l_sh_src>>, <<l_sh>>)
           g3 == Filter("overlay", 0, <<base, l_sh>>, <<l_shg>>)
           w1 == Append(w, g1)
           w2 == Append(w1, g2)
           w3 == Append(w2, g3)
           put1 == put \cup {l_sh_src}
           put2 == put1 \cup {l_sh}
           put3 == put2 \cup {l_shg}
<1>1. l_sh_src \in LabelPads /\ l_sh \in LabelPads /\ l_shg \in LabelPads
  BY DEF LabelPads, LabelNames, CardNames
<1>2. /\ l_sh_src # l_sh /\ l_sh_src # l_shg /\ l_sh # l_shg
  OBVIOUS
<1>3. l_sh_src \in Pads /\ ~IsFile(l_sh_src) /\ l_sh \in Pads /\ ~IsFile(l_sh) /\ l_shg \in Pads /\ ~IsFile(l_shg)
  BY <1>1, LabelsArePads, LabelsAreNoFiles
<1>4. l_sh_src \notin put /\ l_sh \notin put /\ l_shg \notin put
  BY DEF ShadowedPads
<1>5. DOMAIN open \subseteq put /\ \A p \in put : p \in LabelPads /\ ~IsFile(p)
  BY OpenAreLabels
<1>6. base \in Pads /\ ~IsFile(base) /\ base # l_sh_src /\ base # l_sh /\ base # l_shg
  BY <1>4, <1>5, LabelsArePads
<1>7. l_sh_src \notin R /\ l_sh \notin R /\ l_shg \notin R /\ base \notin R
  BY <1>4, <1>5, <1>6
<1>8. DOMAIN open = R \cup {base} /\ open[base] = x
  OBVIOUS
<1> HIDE DEF l_sh_src, l_sh, l_shg, R, put1, put2, put3, w1, w2, w3, g1, g2, g3, x
<1>9. PICK o1 : Wires(w1, media, put1, o1) /\ Swaps(open, o1, {}, {l_sh_src}, << >>)
  <2>1. l_sh_src \notin put
    BY <1>2, <1>4, <1>6, <1>8
  <2>2. Wires(w, media, put, open)
    BY <1>8
  <2>3. "matte" \in Ops /\ 0 \in Nat /\ l_sh_src \in LabelPads
    BY <1>1, <1>3, <1>6 DEF Ops
  <2> QED  BY <2>1, <2>2, <2>3, NoneToOne DEF w1, put1, g1
<1>10. DOMAIN o1 = R \cup {base, l_sh_src} /\ o1[base] = x /\ o1[l_sh_src] = << >>
      /\ \A p \in R : o1[p] = open[p]
  <2>3. DOMAIN o1 = (DOMAIN open \ {}) \cup {l_sh_src}
        /\ (\A p \in {l_sh_src} : o1[p] = << >>) /\ \A p \in DOMAIN open \ {} : o1[p] = open[p]
    BY <1>9 DEF Swaps
  <2> QED  BY <1>2, <1>6, <1>7, <1>8, <2>3
<1>11. PICK o2 : Wires(w2, media, put2, o2) /\ Swaps(o1, o2, {l_sh_src}, {l_sh}, Made("shadow", who, Carries(o1,
      media, l_sh_src)))
  <2>1. l_sh \notin put1 /\ l_sh_src \in DOMAIN o1
    BY <1>2, <1>4, <1>6, <1>10 DEF put1
  <2>2. Wires(w1, media, put1, o1)
    BY <1>9
  <2>3. "shadow" \in Ops /\ who \in Nat /\ l_sh_src \in Pads /\ l_sh \in LabelPads
    BY <1>1, <1>3, <1>6 DEF Ops
  <2> QED  BY <2>1, <2>2, <2>3, OneToOne DEF w2, put2, g2
<1>12. DOMAIN o2 = R \cup {base, l_sh} /\ o2[base] = x /\ o2[l_sh] = << <<"shadow", who>> >>
      /\ \A p \in R : o2[p] = open[p]
  <2>1. Carries(o1, media, l_sh_src) = << >>
    BY <1>3, <1>6, <1>10 DEF Carries
  <2>2. Made("shadow", who, Carries(o1, media, l_sh_src)) = << <<"shadow", who>> >>
    BY <2>1 DEF Made
  <2>3. DOMAIN o2 = (DOMAIN o1 \ {l_sh_src}) \cup {l_sh}
        /\ (\A p \in {l_sh} : o2[p] = << <<"shadow", who>> >>) /\ \A p \in DOMAIN o1 \ {l_sh_src} : o2[p] = o1[p]
    BY <1>11, <2>2 DEF Swaps
  <2> QED  BY <1>2, <1>6, <1>7, <1>10, <2>3
<1>13. PICK o3 : Wires(w3, media, put3, o3) /\ Swaps(o2, o3, {base, l_sh}, {l_shg}, Met("overlay", 0, Carries(o2,
      media, base), Carries(o2, media, l_sh)))
  <2>1. l_shg \notin put2 /\ base \in DOMAIN o2 /\ l_sh \in DOMAIN o2 /\ base # l_sh
    BY <1>2, <1>4, <1>6, <1>12 DEF put1, put2
  <2>2. Wires(w2, media, put2, o2)
    BY <1>11
  <2>3. "overlay" \in Ops /\ 0 \in Nat /\ base \in Pads /\ l_sh \in Pads /\ l_shg \in LabelPads
    BY <1>1, <1>3, <1>6 DEF Ops
  <2> QED  BY <2>1, <2>2, <2>3, TwoToOne DEF w3, put3, g3
<1>14. DOMAIN o3 = R \cup {l_shg} /\ o3[l_shg] = x \o << <<"shadow", who>> >>
      /\ \A p \in R : o3[p] = open[p]
  <2>1. Carries(o2, media, base) = x /\ Carries(o2, media, l_sh) = << <<"shadow", who>> >>
    BY <1>3, <1>6, <1>12 DEF Carries
  <2>2. Met("overlay", 0, Carries(o2, media, base), Carries(o2, media, l_sh)) = x \o << <<"shadow", who>> >>
    BY <2>1 DEF Met
  <2>3. DOMAIN o3 = (DOMAIN o2 \ {base, l_sh}) \cup {l_shg}
        /\ (\A p \in {l_shg} : o3[p] = x \o << <<"shadow", who>> >>)
             /\ \A p \in DOMAIN o2 \ {base, l_sh} : o3[p] = o2[p]
    BY <1>13, <2>2 DEF Swaps
  <2> QED  BY <1>2, <1>6, <1>7, <1>12, <2>3
<1>15. w3 = w \o Shadowed(k, who, base)
  <2>1. w \in Seq(Filters)
    BY DEF Wires, Whole0
  <2>2. w3 = w \o << g1, g2, g3 >>
    BY <2>1, Chain3 DEF w1, w2, w3
  <2> QED  BY <2>2 DEF g1, g2, g3, Shadowed, l_sh_src, l_sh, l_shg
<1>16. put3 = put \cup ShadowedPads(k)
  BY DEF put1, put2, put3, ShadowedPads, l_sh_src, l_sh, l_shg
<1>17. Swaps(open, o3, {base}, {l_shg}, x \o << <<"shadow", who>> >>)
  BY <1>14, <1>7 DEF Swaps, R, x
<1> QED  BY <1>13, <1>15, <1>16, <1>17 DEF l_sh_src, l_sh, l_shg, R, x


WrappedPads(k) == {<<"cw_c1", k>>, <<"cw_c2", k>>, <<"cw_mask", k>>, <<"cw_raw", k>>, <<"cw_c2ref", k>>,
      <<"cw_edge", k>>, <<"cw_bleed", k>>, <<"cw", k>>}
LEMMA WrappedRuns ==
  ASSUME NEW w, NEW media, NEW put, NEW open, Wires(w, media, put, open), NEW k \in Nat, NEW who \in Nat,
         NEW base, NEW card,
         \A p \in WrappedPads(k) : p \notin put,
         base \in DOMAIN open,
         card \in DOMAIN open,
         base # card,
         card = <<"c", k>>
  PROVE  \E next :
           /\ Wires(w \o WrappedUnsplit(k, who, base), media, put \cup WrappedPads(k), next)
           /\ Swaps(open, next, {base, card}, {<<"cw", k>>}, Append(open[card], <<"wrap", who>>))
<1> DEFINE l_cw_c1 == <<"cw_c1", k>>
           l_cw_c2 == <<"cw_c2", k>>
           l_cw_mask == <<"cw_mask", k>>
           l_cw_raw == <<"cw_raw", k>>
           l_cw_c2ref == <<"cw_c2ref", k>>
           l_cw_edge == <<"cw_edge", k>>
           l_cw_bleed == <<"cw_bleed", k>>
           l_cw == <<"cw", k>>
           R == DOMAIN open \ {base, card}
           x == open[base]
           y == open[card]
           g1 == Filter("split", 0, <<card>>, <<l_cw_c1, l_cw_c2>>)
           g2 == Filter("matte", 0, <<l_cw_c1>>, <<l_cw_mask>>)
           g3 == Filter("matte", 0, <<base>>, <<l_cw_raw>>)
           g4 == Filter("fit", 0, <<l_cw_c2, l_cw_raw>>, <<l_cw_c2ref, l_cw_edge>>)
           g5 == Filter("matte", 0, <<l_cw_edge, l_cw_mask>>, <<l_cw_bleed>>)
           g6 == Filter("wrap", who, <<l_cw_c2ref, l_cw_bleed>>, <<l_cw>>)
           w1 == Append(w, g1)
           w2 == Append(w1, g2)
           w3 == Append(w2, g3)
           w4 == Append(w3, g4)
           w5 == Append(w4, g5)
           w6 == Append(w5, g6)
           put1 == put \cup {l_cw_c1, l_cw_c2}
           put2 == put1 \cup {l_cw_mask}
           put3 == put2 \cup {l_cw_raw}
           put4 == put3 \cup {l_cw_c2ref, l_cw_edge}
           put5 == put4 \cup {l_cw_bleed}
           put6 == put5 \cup {l_cw}
<1>1. l_cw_c1 \in LabelPads /\ l_cw_c2 \in LabelPads /\ l_cw_mask \in LabelPads /\ l_cw_raw \in LabelPads
      /\ l_cw_c2ref \in LabelPads /\ l_cw_edge \in LabelPads /\ l_cw_bleed \in LabelPads /\ l_cw \in LabelPads
  BY DEF LabelPads, LabelNames, CardNames
<1>2. /\ l_cw_c1 # l_cw_c2 /\ l_cw_c1 # l_cw_mask /\ l_cw_c1 # l_cw_raw /\ l_cw_c1 # l_cw_c2ref /\ l_cw_c1 # l_cw_edge
      /\ l_cw_c1 # l_cw_bleed /\ l_cw_c1 # l_cw /\ l_cw_c2 # l_cw_mask /\ l_cw_c2 # l_cw_raw /\ l_cw_c2 # l_cw_c2ref
      /\ l_cw_c2 # l_cw_edge /\ l_cw_c2 # l_cw_bleed /\ l_cw_c2 # l_cw /\ l_cw_mask # l_cw_raw
           /\ l_cw_mask # l_cw_c2ref
      /\ l_cw_mask # l_cw_edge /\ l_cw_mask # l_cw_bleed /\ l_cw_mask # l_cw /\ l_cw_raw # l_cw_c2ref
           /\ l_cw_raw # l_cw_edge
      /\ l_cw_raw # l_cw_bleed /\ l_cw_raw # l_cw /\ l_cw_c2ref # l_cw_edge /\ l_cw_c2ref # l_cw_bleed
           /\ l_cw_c2ref # l_cw
      /\ l_cw_edge # l_cw_bleed /\ l_cw_edge # l_cw /\ l_cw_bleed # l_cw
  OBVIOUS
<1>3. l_cw_c1 \in Pads /\ ~IsFile(l_cw_c1) /\ l_cw_c2 \in Pads /\ ~IsFile(l_cw_c2) /\ l_cw_mask \in Pads
      /\ ~IsFile(l_cw_mask) /\ l_cw_raw \in Pads /\ ~IsFile(l_cw_raw) /\ l_cw_c2ref \in Pads
      /\ ~IsFile(l_cw_c2ref) /\ l_cw_edge \in Pads /\ ~IsFile(l_cw_edge) /\ l_cw_bleed \in Pads
      /\ ~IsFile(l_cw_bleed) /\ l_cw \in Pads /\ ~IsFile(l_cw)
  BY <1>1, LabelsArePads, LabelsAreNoFiles
<1>4. l_cw_c1 \notin put /\ l_cw_c2 \notin put /\ l_cw_mask \notin put /\ l_cw_raw \notin put
      /\ l_cw_c2ref \notin put /\ l_cw_edge \notin put /\ l_cw_bleed \notin put /\ l_cw \notin put
  BY DEF WrappedPads
<1>5. DOMAIN open \subseteq put /\ \A p \in put : p \in LabelPads /\ ~IsFile(p)
  BY OpenAreLabels
<1>6. base \in Pads /\ ~IsFile(base) /\ base # l_cw_c1 /\ base # l_cw_c2 /\ base # l_cw_mask /\ base # l_cw_raw
      /\ base # l_cw_c2ref /\ base # l_cw_edge /\ base # l_cw_bleed /\ base # l_cw /\ card \in Pads
      /\ ~IsFile(card) /\ card # l_cw_c1 /\ card # l_cw_c2 /\ card # l_cw_mask /\ card # l_cw_raw
      /\ card # l_cw_c2ref /\ card # l_cw_edge /\ card # l_cw_bleed /\ card # l_cw
  BY <1>4, <1>5, LabelsArePads
<1>7. l_cw_c1 \notin R /\ l_cw_c2 \notin R /\ l_cw_mask \notin R /\ l_cw_raw \notin R /\ l_cw_c2ref \notin R
      /\ l_cw_edge \notin R /\ l_cw_bleed \notin R /\ l_cw \notin R /\ base \notin R /\ card \notin R
  BY <1>4, <1>5, <1>6
<1>8. DOMAIN open = R \cup {base, card} /\ open[base] = x /\ open[card] = y
  OBVIOUS
<1> HIDE DEF l_cw_c1, l_cw_c2, l_cw_mask, l_cw_raw, l_cw_c2ref, l_cw_edge, l_cw_bleed, l_cw, R, put1, put2, put3,
      put4, put5, put6, w1, w2, w3, w4, w5, w6, g1, g2, g3, g4, g5, g6, x, y
<1>9. PICK o1 : Wires(w1, media, put1, o1) /\ Swaps(open, o1, {card}, {l_cw_c1, l_cw_c2}, Made("split", 0,
      Carries(open, media, card)))
  <2>1. l_cw_c1 \notin put /\ l_cw_c2 \notin put /\ card \in DOMAIN open
    BY <1>2, <1>4, <1>6, <1>8
  <2>2. Wires(w, media, put, open)
    BY <1>8
  <2>3. "split" \in Ops /\ 0 \in Nat /\ card \in Pads /\ l_cw_c1 \in LabelPads /\ l_cw_c2 \in LabelPads
    BY <1>1, <1>3, <1>6 DEF Ops
  <2> QED  BY <2>1, <2>2, <2>3, OneToTwo DEF w1, put1, g1
<1>10. DOMAIN o1 = R \cup {base, l_cw_c1, l_cw_c2} /\ o1[base] = x /\ o1[l_cw_c1] = y /\ o1[l_cw_c2] = y
      /\ \A p \in R : o1[p] = open[p]
  <2>1. Carries(open, media, card) = y
    BY <1>3, <1>6, <1>8 DEF Carries
  <2>2. Made("split", 0, Carries(open, media, card)) = y
    BY <2>1 DEF Made
  <2>3. DOMAIN o1 = (DOMAIN open \ {card}) \cup {l_cw_c1, l_cw_c2}
        /\ (\A p \in {l_cw_c1, l_cw_c2} : o1[p] = y) /\ \A p \in DOMAIN open \ {card} : o1[p] = open[p]
    BY <1>9, <2>2 DEF Swaps
  <2> QED  BY <1>2, <1>6, <1>7, <1>8, <2>3
<1>11. PICK o2 : Wires(w2, media, put2, o2) /\ Swaps(o1, o2, {l_cw_c1}, {l_cw_mask}, Made("matte", 0, Carries(o1,
      media, l_cw_c1)))
  <2>1. l_cw_mask \notin put1 /\ l_cw_c1 \in DOMAIN o1
    BY <1>2, <1>4, <1>6, <1>10 DEF put1
  <2>2. Wires(w1, media, put1, o1)
    BY <1>9
  <2>3. "matte" \in Ops /\ 0 \in Nat /\ l_cw_c1 \in Pads /\ l_cw_mask \in LabelPads
    BY <1>1, <1>3, <1>6 DEF Ops
  <2> QED  BY <2>1, <2>2, <2>3, OneToOne DEF w2, put2, g2
<1>12. DOMAIN o2 = R \cup {base, l_cw_c2, l_cw_mask} /\ o2[base] = x /\ o2[l_cw_c2] = y /\ o2[l_cw_mask] = << >>
      /\ \A p \in R : o2[p] = open[p]
  <2>1. Carries(o1, media, l_cw_c1) = y
    BY <1>3, <1>6, <1>10 DEF Carries
  <2>2. Made("matte", 0, Carries(o1, media, l_cw_c1)) = << >>
    BY <2>1 DEF Made
  <2>3. DOMAIN o2 = (DOMAIN o1 \ {l_cw_c1}) \cup {l_cw_mask}
        /\ (\A p \in {l_cw_mask} : o2[p] = << >>) /\ \A p \in DOMAIN o1 \ {l_cw_c1} : o2[p] = o1[p]
    BY <1>11, <2>2 DEF Swaps
  <2> QED  BY <1>2, <1>6, <1>7, <1>10, <2>3
<1>13. PICK o3 : Wires(w3, media, put3, o3) /\ Swaps(o2, o3, {base}, {l_cw_raw}, Made("matte", 0, Carries(o2,
      media, base)))
  <2>1. l_cw_raw \notin put2 /\ base \in DOMAIN o2
    BY <1>2, <1>4, <1>6, <1>12 DEF put1, put2
  <2>2. Wires(w2, media, put2, o2)
    BY <1>11
  <2>3. "matte" \in Ops /\ 0 \in Nat /\ base \in Pads /\ l_cw_raw \in LabelPads
    BY <1>1, <1>3, <1>6 DEF Ops
  <2> QED  BY <2>1, <2>2, <2>3, OneToOne DEF w3, put3, g3
<1>14. DOMAIN o3 = R \cup {l_cw_c2, l_cw_mask, l_cw_raw} /\ o3[l_cw_c2] = y /\ o3[l_cw_mask] = << >>
      /\ o3[l_cw_raw] = << >>
      /\ \A p \in R : o3[p] = open[p]
  <2>1. Carries(o2, media, base) = x
    BY <1>3, <1>6, <1>12 DEF Carries
  <2>2. Made("matte", 0, Carries(o2, media, base)) = << >>
    BY <2>1 DEF Made
  <2>3. DOMAIN o3 = (DOMAIN o2 \ {base}) \cup {l_cw_raw}
        /\ (\A p \in {l_cw_raw} : o3[p] = << >>) /\ \A p \in DOMAIN o2 \ {base} : o3[p] = o2[p]
    BY <1>13, <2>2 DEF Swaps
  <2> QED  BY <1>2, <1>6, <1>7, <1>12, <2>3
<1>15. PICK o4 : Wires(w4, media, put4, o4) /\ Swaps(o3, o4, {l_cw_c2, l_cw_raw}, {l_cw_c2ref, l_cw_edge},
      Met("fit", 0, Carries(o3, media, l_cw_c2), Carries(o3, media, l_cw_raw)))
  <2>1. l_cw_c2ref \notin put3 /\ l_cw_edge \notin put3 /\ l_cw_c2 \in DOMAIN o3 /\ l_cw_raw \in DOMAIN o3
        /\ l_cw_c2 # l_cw_raw
    BY <1>2, <1>4, <1>6, <1>14 DEF put1, put2, put3
  <2>2. Wires(w3, media, put3, o3)
    BY <1>13
  <2>3. "fit" \in Ops /\ 0 \in Nat /\ l_cw_c2 \in Pads /\ l_cw_raw \in Pads /\ l_cw_c2ref \in LabelPads
        /\ l_cw_edge \in LabelPads
    BY <1>1, <1>3, <1>6 DEF Ops
  <2> QED  BY <2>1, <2>2, <2>3, TwoToTwo DEF w4, put4, g4
<1>16. DOMAIN o4 = R \cup {l_cw_mask, l_cw_c2ref, l_cw_edge} /\ o4[l_cw_mask] = << >> /\ o4[l_cw_c2ref] = y
      /\ o4[l_cw_edge] = y
      /\ \A p \in R : o4[p] = open[p]
  <2>1. Carries(o3, media, l_cw_c2) = y /\ Carries(o3, media, l_cw_raw) = << >>
    BY <1>3, <1>6, <1>14 DEF Carries
  <2>2. Met("fit", 0, Carries(o3, media, l_cw_c2), Carries(o3, media, l_cw_raw)) = y
    BY <2>1 DEF Met
  <2>3. DOMAIN o4 = (DOMAIN o3 \ {l_cw_c2, l_cw_raw}) \cup {l_cw_c2ref, l_cw_edge}
        /\ (\A p \in {l_cw_c2ref, l_cw_edge} : o4[p] = y) /\ \A p \in DOMAIN o3 \ {l_cw_c2, l_cw_raw} : o4[p] = o3[p]
    BY <1>15, <2>2 DEF Swaps
  <2> QED  BY <1>2, <1>6, <1>7, <1>14, <2>3
<1>17. PICK o5 : Wires(w5, media, put5, o5) /\ Swaps(o4, o5, {l_cw_edge, l_cw_mask}, {l_cw_bleed}, Met("matte",
      0, Carries(o4, media, l_cw_edge), Carries(o4, media, l_cw_mask)))
  <2>1. l_cw_bleed \notin put4 /\ l_cw_edge \in DOMAIN o4 /\ l_cw_mask \in DOMAIN o4 /\ l_cw_edge # l_cw_mask
    BY <1>2, <1>4, <1>6, <1>16 DEF put1, put2, put3, put4
  <2>2. Wires(w4, media, put4, o4)
    BY <1>15
  <2>3. "matte" \in Ops /\ 0 \in Nat /\ l_cw_edge \in Pads /\ l_cw_mask \in Pads /\ l_cw_bleed \in LabelPads
    BY <1>1, <1>3, <1>6 DEF Ops
  <2> QED  BY <2>1, <2>2, <2>3, TwoToOne DEF w5, put5, g5
<1>18. DOMAIN o5 = R \cup {l_cw_c2ref, l_cw_bleed} /\ o5[l_cw_c2ref] = y /\ o5[l_cw_bleed] = << >>
      /\ \A p \in R : o5[p] = open[p]
  <2>1. Carries(o4, media, l_cw_edge) = y /\ Carries(o4, media, l_cw_mask) = << >>
    BY <1>3, <1>6, <1>16 DEF Carries
  <2>2. Met("matte", 0, Carries(o4, media, l_cw_edge), Carries(o4, media, l_cw_mask)) = << >>
    BY <2>1 DEF Met
  <2>3. DOMAIN o5 = (DOMAIN o4 \ {l_cw_edge, l_cw_mask}) \cup {l_cw_bleed}
        /\ (\A p \in {l_cw_bleed} : o5[p] = << >>) /\ \A p \in DOMAIN o4 \ {l_cw_edge, l_cw_mask} : o5[p] = o4[p]
    BY <1>17, <2>2 DEF Swaps
  <2> QED  BY <1>2, <1>6, <1>7, <1>16, <2>3
<1>19. PICK o6 : Wires(w6, media, put6, o6) /\ Swaps(o5, o6, {l_cw_c2ref, l_cw_bleed}, {l_cw}, Met("wrap", who,
      Carries(o5, media, l_cw_c2ref), Carries(o5, media, l_cw_bleed)))
  <2>1. l_cw \notin put5 /\ l_cw_c2ref \in DOMAIN o5 /\ l_cw_bleed \in DOMAIN o5 /\ l_cw_c2ref # l_cw_bleed
    BY <1>2, <1>4, <1>6, <1>18 DEF put1, put2, put3, put4, put5
  <2>2. Wires(w5, media, put5, o5)
    BY <1>17
  <2>3. "wrap" \in Ops /\ who \in Nat /\ l_cw_c2ref \in Pads /\ l_cw_bleed \in Pads /\ l_cw \in LabelPads
    BY <1>1, <1>3, <1>6 DEF Ops
  <2> QED  BY <2>1, <2>2, <2>3, TwoToOne DEF w6, put6, g6
<1>20. DOMAIN o6 = R \cup {l_cw} /\ o6[l_cw] = Append(y, <<"wrap", who>>)
      /\ \A p \in R : o6[p] = open[p]
  <2>1. Carries(o5, media, l_cw_c2ref) = y /\ Carries(o5, media, l_cw_bleed) = << >>
    BY <1>3, <1>6, <1>18 DEF Carries
  <2>2. Met("wrap", who, Carries(o5, media, l_cw_c2ref), Carries(o5, media, l_cw_bleed)) = Append(y, <<"wrap", who>>)
    BY <2>1 DEF Met
  <2>3. DOMAIN o6 = (DOMAIN o5 \ {l_cw_c2ref, l_cw_bleed}) \cup {l_cw}
        /\ (\A p \in {l_cw} : o6[p] = Append(y, <<"wrap", who>>))
             /\ \A p \in DOMAIN o5 \ {l_cw_c2ref, l_cw_bleed} : o6[p] = o5[p]
    BY <1>19, <2>2 DEF Swaps
  <2> QED  BY <1>2, <1>6, <1>7, <1>18, <2>3
<1>21. w6 = w \o WrappedUnsplit(k, who, base)
  <2>1. w \in Seq(Filters)
    BY DEF Wires, Whole0
  <2>2. w6 = w \o << g1, g2, g3, g4, g5, g6 >>
    <3>1. w \o <<g1, g2, g3, g4, g5, g6>> = Append(Append(Append(Append(Append(Append(w, g1), g2), g3), g4), g5), g6)
      BY ONLY <2>1, Chain6
    <3> QED  BY <3>1 DEF w1, w2, w3, w4, w5, w6
  <2> QED  BY <2>2 DEF g1, g2, g3, g4, g5, g6, WrappedUnsplit, l_cw_c1, l_cw_c2, l_cw_mask, l_cw_raw, l_cw_c2ref,
        l_cw_edge, l_cw_bleed, l_cw
<1>22. put6 = put \cup WrappedPads(k)
  BY DEF put1, put2, put3, put4, put5, put6, WrappedPads, l_cw_c1, l_cw_c2, l_cw_mask, l_cw_raw, l_cw_c2ref,
        l_cw_edge, l_cw_bleed, l_cw
<1>23. Swaps(open, o6, {base, card}, {l_cw}, Append(y, <<"wrap", who>>))
  BY <1>20, <1>7 DEF Swaps, R, x, y
<1> QED  BY <1>19, <1>21, <1>22, <1>23 DEF l_cw_c1, l_cw_c2, l_cw_mask, l_cw_raw, l_cw_c2ref, l_cw_edge,
      l_cw_bleed, l_cw, R, x, y

-----------------------------------------------------------------------------
(* A card laid on the picture.                                               *)

CardPads(k) == {<<name, k>> : name \in CardNames}
CardPad(k) == {<<"c", k>>}
HalfPads(k) == {<<"wbg_a", k>>, <<"wbg_b", k>>}
PicturePad(k) == {<<"o", k>>}

LEMMA PadsApart ==
  ASSUME NEW k \in Nat
  PROVE  /\ OccludedPads(k) \subseteq CardPads(k) /\ ShadowedPads(k) \subseteq CardPads(k)
         /\ WrappedPads(k) \subseteq CardPads(k) /\ CardPad(k) \subseteq CardPads(k)
         /\ HalfPads(k) \subseteq CardPads(k) /\ PicturePad(k) \subseteq CardPads(k)
         /\ \A p \in CardPad(k) : p \notin OccludedPads(k)
         /\ \A p \in ShadowedPads(k) : p \notin OccludedPads(k) /\ p \notin CardPad(k)
         /\ \A p \in HalfPads(k) : p \notin OccludedPads(k) /\ p \notin CardPad(k) /\ p \notin ShadowedPads(k)
         /\ \A p \in WrappedPads(k) : p \notin OccludedPads(k) /\ p \notin CardPad(k) /\ p \notin ShadowedPads(k)
                                      /\ p \notin HalfPads(k)
         /\ \A p \in PicturePad(k) : p \notin OccludedPads(k) /\ p \notin CardPad(k) /\ p \notin ShadowedPads(k)
                                      /\ p \notin HalfPads(k) /\ p \notin WrappedPads(k)
<1>1. /\ OccludedPads(k) \subseteq CardPads(k) /\ ShadowedPads(k) \subseteq CardPads(k)
      /\ WrappedPads(k) \subseteq CardPads(k) /\ CardPad(k) \subseteq CardPads(k)
      /\ HalfPads(k) \subseteq CardPads(k) /\ PicturePad(k) \subseteq CardPads(k)
  BY DEF OccludedPads, ShadowedPads, WrappedPads, CardPad, HalfPads, PicturePad, CardPads, CardNames
<1>2. \A p \in CardPad(k) : p \notin OccludedPads(k)
  BY DEF OccludedPads, CardPad
<1>3. \A p \in ShadowedPads(k) : p \notin OccludedPads(k) /\ p \notin CardPad(k)
  BY DEF OccludedPads, ShadowedPads, CardPad
<1>4. \A p \in HalfPads(k) : p \notin OccludedPads(k) /\ p \notin CardPad(k) /\ p \notin ShadowedPads(k)
  BY DEF OccludedPads, ShadowedPads, CardPad, HalfPads
<1>5. \A p \in WrappedPads(k) : p \notin OccludedPads(k) /\ p \notin CardPad(k) /\ p \notin ShadowedPads(k)
                                /\ p \notin HalfPads(k)
  BY DEF OccludedPads, ShadowedPads, WrappedPads, CardPad, HalfPads
<1>6. \A p \in PicturePad(k) : p \notin OccludedPads(k) /\ p \notin CardPad(k) /\ p \notin ShadowedPads(k)
                                /\ p \notin HalfPads(k) /\ p \notin WrappedPads(k)
  BY DEF OccludedPads, ShadowedPads, WrappedPads, CardPad, HalfPads, PicturePad
<1> QED  BY <1>1, <1>2, <1>3, <1>4, <1>5, <1>6

LEMMA SplitOff ==
  ASSUME NEW S, NEW w \in Seq(S), NEW g, NEW f1, NEW f2, NEW f3, NEW f4, NEW f5, NEW f6
  PROVE  w \o (<<g>> \o <<f1, f2, f3, f4, f5, f6>>) = (w \o <<g>>) \o <<f1, f2, f3, f4, f5, f6>>
<1> DEFINE T == S \cup {g, f1, f2, f3, f4, f5, f6}
           s == <<f1, f2, f3, f4, f5, f6>>
           h == <<g>>
<1>1. w \in Seq(T) /\ h \in Seq(T)
  OBVIOUS
<1>2. s \in Seq(T)
  <2>1. f1 \in T /\ f2 \in T /\ f3 \in T /\ f4 \in T /\ f5 \in T /\ f6 \in T
    OBVIOUS
  <2> HIDE DEF T
  <2> QED  BY <2>1
<1> HIDE DEF T, s, h
<1>3. w \o (h \o s) = (w \o h) \o s
  BY <1>1, <1>2, ConcatAssociative
<1> QED  BY <1>3 DEF h, s

LEMMA WrappedIsOn ==
  ASSUME NEW w \in Seq(Filters), NEW k, NEW who, NEW base
  PROVE  w \o Wrapped(k, who, base)
           = Append(w, Filter("split", 0, <<base>>, << <<"wbg_a", k>>, <<"wbg_b", k>> >>))
               \o WrappedUnsplit(k, who, <<"wbg_a", k>>)
<1> DEFINE g == Filter("split", 0, <<base>>, << <<"wbg_a", k>>, <<"wbg_b", k>> >>)
           u == WrappedUnsplit(k, who, <<"wbg_a", k>>)
<1>1. w \o (<<g>> \o u) = (w \o <<g>>) \o u
  <2> DEFINE f1 == Filter("split", 0, << <<"c", k>> >>, << <<"cw_c1", k>>, <<"cw_c2", k>> >>)
             f2 == Filter("matte", 0, << <<"cw_c1", k>> >>, << <<"cw_mask", k>> >>)
             f3 == Filter("matte", 0, << <<"wbg_a", k>> >>, << <<"cw_raw", k>> >>)
             f4 == Filter("fit", 0, << <<"cw_c2", k>>, <<"cw_raw", k>> >>, << <<"cw_c2ref", k>>, <<"cw_edge", k>> >>)
             f5 == Filter("matte", 0, << <<"cw_edge", k>>, <<"cw_mask", k>> >>, << <<"cw_bleed", k>> >>)
             f6 == Filter("wrap", who, << <<"cw_c2ref", k>>, <<"cw_bleed", k>> >>, << <<"cw", k>> >>)
  <2>1. u = <<f1, f2, f3, f4, f5, f6>>
    BY DEF WrappedUnsplit
  <2> HIDE DEF g, u, f1, f2, f3, f4, f5, f6
  <2>2. w \o (<<g>> \o <<f1, f2, f3, f4, f5, f6>>) = (w \o <<g>>) \o <<f1, f2, f3, f4, f5, f6>>
    BY SplitOff
  <2> QED  BY <2>1, <2>2
<1>2. w \o <<g>> = Append(w, g)
  <2> HIDE DEF g
  <2> QED  BY Chain1
<1>3. Wrapped(k, who, base) = <<g>> \o u
  BY DEF Wrapped
<1> HIDE DEF g, u
<1> QED  BY <1>1, <1>2, <1>3 DEF g, u

\* The filters of a card, and the figure they add to the picture.
Masked(w, k, who, hidden) == w \o (IF hidden THEN Occluded(k, who) ELSE << >>)
SpriteOf(k, hidden) == IF hidden THEN <<"om", k>> ELSE <<"v", k>>
Sprite(who, hidden) == << <<"card", who>> >> \o (IF hidden THEN << <<"cut", who>> >> ELSE << >>)
Grounded(pic, k, tier) == IF tier >= 1 THEN <<"shg", k>> ELSE pic
UnderCard(pic, k, tier) == IF tier >= 2 THEN <<"wbg_b", k>> ELSE Grounded(pic, k, tier)
OverCard(k, tier) == IF tier >= 2 THEN <<"cw", k>> ELSE <<"c", k>>
Laid(w, k, who, hidden, tier, pic) ==
  Masked(w, k, who, hidden)
    \o <<Filter("keep", 0, <<SpriteOf(k, hidden)>>, << <<"c", k>> >>)>>
    \o (IF tier >= 1 THEN Shadowed(k, who, pic) ELSE << >>)
    \o (IF tier >= 2 THEN Wrapped(k, who, Grounded(pic, k, tier)) ELSE << >>)
    \o <<Filter("overlay", 0, <<UnderCard(pic, k, tier), OverCard(k, tier)>>, << <<"o", k>> >>)>>
FigureOf(who, hidden, tier) ==
  (IF tier >= 1 THEN << <<"shadow", who>> >> ELSE << >>) \o << <<"card", who>> >>
    \o (IF hidden THEN << <<"cut", who>> >> ELSE << >>)
    \o (IF tier >= 2 THEN << <<"wrap", who>> >> ELSE << >>)

LEMMA OneByOne ==
  ASSUME NEW T, NEW a \in T, NEW b \in T, NEW c \in T, NEW d \in T
  PROVE  /\ << >> \in Seq(T) /\ <<a>> \in Seq(T) /\ <<a, b>> \in Seq(T) /\ <<a, b, c>> \in Seq(T)
         /\ <<a>> = Append(<< >>, a) /\ <<a, b>> = Append(<<a>>, b) /\ <<a, b, c>> = Append(<<a, b>>, c)
         /\ <<a, b, c, d>> = Append(<<a, b, c>>, d)
<1>1. << >> \in Seq(T) /\ <<a>> \in Seq(T) /\ <<a, b>> \in Seq(T) /\ <<a, b, c>> \in Seq(T)
  OBVIOUS
<1>2. <<a>> = Append(<< >>, a)
  BY <1>1
<1>3. <<a, b>> = Append(<<a>>, b)
  BY <1>1
<1>4. <<a, b, c>> = Append(<<a, b>>, c)
  BY <1>1
<1>5. <<a, b, c, d>> = Append(<<a, b, c>>, d)
  BY <1>1
<1> QED  BY <1>1, <1>2, <1>3, <1>4, <1>5

LEMMA FigureAdds ==
  ASSUME NEW S, NEW base \in Seq(S), NEW who, NEW hidden \in BOOLEAN, NEW tier \in 0 .. 2
  PROVE  (IF tier >= 1 THEN base \o << <<"shadow", who>> >> ELSE base)
           \o (IF tier >= 2 THEN Append(Sprite(who, hidden), <<"wrap", who>>) ELSE Sprite(who, hidden))
         = base \o FigureOf(who, hidden, tier)
<1> DEFINE a == <<"shadow", who>>
           b == <<"card", who>>
           c == <<"cut", who>>
           d == <<"wrap", who>>
           T == S \cup {a, b, c, d}
<1>1. base \in Seq(T) /\ a \in T /\ b \in T /\ c \in T /\ d \in T
  OBVIOUS
<1>2. Sprite(who, hidden) = <<b>> \o (IF hidden THEN <<c>> ELSE << >>)
  BY DEF Sprite
<1>3. FigureOf(who, hidden, tier) =
        ((IF tier >= 1 THEN <<a>> ELSE << >>) \o <<b>>) \o (IF hidden THEN <<c>> ELSE << >>) \o (IF tier >= 2 THEN <<d>> ELSE << >>)
  BY DEF FigureOf
<1> HIDE DEF a, b, c, d, T
<1>4. tier >= 2 => tier >= 1
  OBVIOUS
<1>5. CASE tier >= 2
  <2>1. CASE hidden
    <3>1. Sprite(who, hidden) = <<b, c>>
      <4>1. <<b>> \o <<c>> = Append(<<b>>, c)
        BY <1>1, Chain1
      <4>2. <<b, c>> = Append(<<b>>, c)
        BY <1>1, OneByOne
      <4> QED  BY <1>2, <1>5, <2>1, <4>1, <4>2
    <3>2. FigureOf(who, hidden, tier) = <<a, b, c, d>>
      <4>1. <<a>> \o <<b>> = <<a, b>>
        <5>1. <<a>> \in Seq(T) /\ <<a, b>> = Append(<<a>>, b)
          BY <1>1, OneByOne
        <5> QED  BY <5>1, Chain1
      <4>2. <<a, b>> \o <<c>> = <<a, b, c>>
        <5>1. <<a, b>> \in Seq(T) /\ <<a, b, c>> = Append(<<a, b>>, c)
          BY <1>1, OneByOne
        <5> QED  BY <5>1, Chain1
      <4>3. <<a, b, c>> \o <<d>> = <<a, b, c, d>>
        <5>1. <<a, b, c>> \in Seq(T) /\ <<a, b, c, d>> = Append(<<a, b, c>>, d)
          BY <1>1, OneByOne
        <5> QED  BY <5>1, Chain1
      <4> QED  BY <1>3, <1>4, <1>5, <2>1, <4>1, <4>2, <4>3
    <3>3. (base \o <<a>>) \o <<b, c, d>> = base \o <<a, b, c, d>>
      <4>1. base \o <<a>> = Append(base, a) /\ Append(base, a) \in Seq(T)
        BY <1>1, Chain1
      <4>2. Append(base, a) \o <<b, c, d>> = Append(Append(Append(Append(base, a), b), c), d)
        BY <4>1, Chain3
      <4>3. base \o <<a, b, c, d>> = Append(Append(Append(Append(base, a), b), c), d)
        BY <1>1, Chain4
      <4> QED  BY <4>1, <4>2, <4>3
    <3>4. <<b, c, d>> = Append(Sprite(who, hidden), d)
      BY <1>1, <3>1, OneByOne
    <3> QED  BY <1>4, <1>5, <2>1, <3>1, <3>2, <3>3, <3>4 DEF a, d
  <2>2. CASE ~hidden
    <3>1. Sprite(who, hidden) = <<b>>
      <4>1. <<b>> \o << >> = <<b>>
        BY <1>1, ConcatEmptySeq
      <4> QED  BY <1>2, <1>5, <2>2, <4>1
    <3>2. FigureOf(who, hidden, tier) = <<a, b, d>>
      <4>1. <<a>> \o <<b>> = <<a, b>>
        <5>1. <<a>> \in Seq(T) /\ <<a, b>> = Append(<<a>>, b)
          BY <1>1, OneByOne
        <5> QED  BY <5>1, Chain1
      <4>2. <<a, b>> \o << >> = <<a, b>>
        <5>1. <<a, b>> \in Seq(T)
          BY <1>1, OneByOne
        <5> QED  BY <5>1, ConcatEmptySeq
      <4>3. <<a, b>> \o <<d>> = <<a, b, d>>
        <5>1. <<a, b>> \in Seq(T) /\ <<a, b, d>> = Append(<<a, b>>, d)
          BY <1>1, OneByOne
        <5> QED  BY <5>1, Chain1
      <4> QED  BY <1>3, <1>4, <1>5, <2>2, <4>1, <4>2, <4>3
    <3>3. (base \o <<a>>) \o <<b, d>> = base \o <<a, b, d>>
      <4>1. base \o <<a>> = Append(base, a) /\ Append(base, a) \in Seq(T)
        BY <1>1, Chain1
      <4>2. Append(base, a) \o <<b, d>> = Append(Append(Append(base, a), b), d)
        BY <4>1, Chain2
      <4>3. base \o <<a, b, d>> = Append(Append(Append(base, a), b), d)
        BY <1>1, Chain3
      <4> QED  BY <4>1, <4>2, <4>3
    <3>4. <<b, d>> = Append(Sprite(who, hidden), d)
      BY <1>1, <3>1, OneByOne
    <3> QED  BY <1>4, <1>5, <2>2, <3>1, <3>2, <3>3, <3>4 DEF a, d
  <2> QED  BY <2>1, <2>2
<1>6. CASE tier >= 1 /\ ~(tier >= 2)
  <2>1. CASE hidden
    <3>1. Sprite(who, hidden) = <<b, c>>
      <4>1. <<b>> \o <<c>> = Append(<<b>>, c)
        BY <1>1, Chain1
      <4>2. <<b, c>> = Append(<<b>>, c)
        BY <1>1, OneByOne
      <4> QED  BY <1>2, <1>6, <2>1, <4>1, <4>2
    <3>2. FigureOf(who, hidden, tier) = <<a, b, c>>
      <4>1. <<a>> \o <<b>> = <<a, b>>
        <5>1. <<a>> \in Seq(T) /\ <<a, b>> = Append(<<a>>, b)
          BY <1>1, OneByOne
        <5> QED  BY <5>1, Chain1
      <4>2. <<a, b>> \o <<c>> = <<a, b, c>>
        <5>1. <<a, b>> \in Seq(T) /\ <<a, b, c>> = Append(<<a, b>>, c)
          BY <1>1, OneByOne
        <5> QED  BY <5>1, Chain1
      <4>3. <<a, b, c>> \o << >> = <<a, b, c>>
        <5>1. <<a, b, c>> \in Seq(T)
          BY <1>1, OneByOne
        <5> QED  BY <5>1, ConcatEmptySeq
      <4> QED  BY <1>3, <1>4, <1>6, <2>1, <4>1, <4>2, <4>3
    <3>3. (base \o <<a>>) \o <<b, c>> = base \o <<a, b, c>>
      <4>1. base \o <<a>> = Append(base, a) /\ Append(base, a) \in Seq(T)
        BY <1>1, Chain1
      <4>2. Append(base, a) \o <<b, c>> = Append(Append(Append(base, a), b), c)
        BY <4>1, Chain2
      <4>3. base \o <<a, b, c>> = Append(Append(Append(base, a), b), c)
        BY <1>1, Chain3
      <4> QED  BY <4>1, <4>2, <4>3
    <3> QED  BY <1>4, <1>6, <2>1, <3>1, <3>2, <3>3 DEF a
  <2>2. CASE ~hidden
    <3>1. Sprite(who, hidden) = <<b>>
      <4>1. <<b>> \o << >> = <<b>>
        BY <1>1, ConcatEmptySeq
      <4> QED  BY <1>2, <1>6, <2>2, <4>1
    <3>2. FigureOf(who, hidden, tier) = <<a, b>>
      <4>1. <<a>> \o <<b>> = <<a, b>>
        <5>1. <<a>> \in Seq(T) /\ <<a, b>> = Append(<<a>>, b)
          BY <1>1, OneByOne
        <5> QED  BY <5>1, Chain1
      <4>2. <<a, b>> \o << >> = <<a, b>>
        <5>1. <<a, b>> \in Seq(T)
          BY <1>1, OneByOne
        <5> QED  BY <5>1, ConcatEmptySeq
      <4>3. <<a, b>> \o << >> = <<a, b>>
        <5>1. <<a, b>> \in Seq(T)
          BY <1>1, OneByOne
        <5> QED  BY <5>1, ConcatEmptySeq
      <4> QED  BY <1>3, <1>4, <1>6, <2>2, <4>1, <4>2, <4>3
    <3>3. (base \o <<a>>) \o <<b>> = base \o <<a, b>>
      <4>1. base \o <<a>> = Append(base, a) /\ Append(base, a) \in Seq(T)
        BY <1>1, Chain1
      <4>2. Append(base, a) \o <<b>> = Append(Append(base, a), b)
        BY <4>1, Chain1
      <4>3. base \o <<a, b>> = Append(Append(base, a), b)
        BY <1>1, Chain2
      <4> QED  BY <4>1, <4>2, <4>3
    <3> QED  BY <1>4, <1>6, <2>2, <3>1, <3>2, <3>3 DEF a
  <2> QED  BY <2>1, <2>2
<1>7. CASE ~(tier >= 1)
  <2>1. CASE hidden
    <3>1. Sprite(who, hidden) = <<b, c>>
      <4>1. <<b>> \o <<c>> = Append(<<b>>, c)
        BY <1>1, Chain1
      <4>2. <<b, c>> = Append(<<b>>, c)
        BY <1>1, OneByOne
      <4> QED  BY <1>2, <1>7, <2>1, <4>1, <4>2
    <3>2. FigureOf(who, hidden, tier) = <<b, c>>
      <4>1. << >> \o <<b>> = <<b>>
        <5>1. << >> \in Seq(T) /\ <<b>> = Append(<< >>, b)
          BY <1>1, OneByOne
        <5> QED  BY <5>1, Chain1
      <4>2. <<b>> \o <<c>> = <<b, c>>
        <5>1. <<b>> \in Seq(T) /\ <<b, c>> = Append(<<b>>, c)
          BY <1>1, OneByOne
        <5> QED  BY <5>1, Chain1
      <4>3. <<b, c>> \o << >> = <<b, c>>
        <5>1. <<b, c>> \in Seq(T)
          BY <1>1, OneByOne
        <5> QED  BY <5>1, ConcatEmptySeq
      <4> QED  BY <1>3, <1>4, <1>7, <2>1, <4>1, <4>2, <4>3
    <3>3. base \o <<b, c>> = base \o <<b, c>>
      OBVIOUS
    <3> QED  BY <1>4, <1>7, <2>1, <3>1, <3>2, <3>3 DEF a
  <2>2. CASE ~hidden
    <3>1. Sprite(who, hidden) = <<b>>
      <4>1. <<b>> \o << >> = <<b>>
        BY <1>1, ConcatEmptySeq
      <4> QED  BY <1>2, <1>7, <2>2, <4>1
    <3>2. FigureOf(who, hidden, tier) = <<b>>
      <4>1. << >> \o <<b>> = <<b>>
        <5>1. << >> \in Seq(T) /\ <<b>> = Append(<< >>, b)
          BY <1>1, OneByOne
        <5> QED  BY <5>1, Chain1
      <4>2. <<b>> \o << >> = <<b>>
        <5>1. <<b>> \in Seq(T)
          BY <1>1, OneByOne
        <5> QED  BY <5>1, ConcatEmptySeq
      <4>3. <<b>> \o << >> = <<b>>
        <5>1. <<b>> \in Seq(T)
          BY <1>1, OneByOne
        <5> QED  BY <5>1, ConcatEmptySeq
      <4> QED  BY <1>3, <1>4, <1>7, <2>2, <4>1, <4>2, <4>3
    <3>3. base \o <<b>> = base \o <<b>>
      OBVIOUS
    <3> QED  BY <1>4, <1>7, <2>2, <3>1, <3>2, <3>3 DEF a
  <2> QED  BY <2>1, <2>2
<1> QED  BY <1>5, <1>6, <1>7


\* The card of file k; what laying a card gives.
CardFile(media, k, who) == FileShows(media, <<"v", k>>) = << <<"card", who>> >>
GoesOn(w, media, put, k, x) ==
  \E all, next : /\ Wires(w, media, all, next) /\ all \subseteq put \cup CardPads(k)
                 /\ DOMAIN next = {<<"o", k>>} /\ next[<<"o", k>>] = x

LEMMA CardIsLaid ==
  ASSUME NEW w, NEW media, NEW put, NEW open, Wires(w, media, put, open), NEW pic, DOMAIN open = {pic},
         NEW k \in Nat, \A p \in CardPads(k) : p \notin put, NEW who \in Nat,
         NEW hidden \in BOOLEAN, NEW tier \in 0 .. 2, CardFile(media, k, who)
  PROVE  GoesOn(Laid(w, k, who, hidden, tier, pic), media, put, k, open[pic] \o FigureOf(who, hidden, tier))
<1> DEFINE base == open[pic]
           v == <<"v", k>>
           om == <<"om", k>>
           c == <<"c", k>>
           shg == <<"shg", k>>
           wa == <<"wbg_a", k>>
           wb == <<"wbg_b", k>>
           cw == <<"cw", k>>
           o == <<"o", k>>
           w1 == Masked(w, k, who, hidden)
           w2 == w1 \o <<Filter("keep", 0, <<SpriteOf(k, hidden)>>, <<c>>)>>
           w3 == w2 \o (IF tier >= 1 THEN Shadowed(k, who, pic) ELSE << >>)
           w4 == w3 \o (IF tier >= 2 THEN Wrapped(k, who, Grounded(pic, k, tier)) ELSE << >>)
           w5 == w4 \o <<Filter("overlay", 0, <<UnderCard(pic, k, tier), OverCard(k, tier)>>, <<o>>)>>
<1>1. /\ om \in CardPads(k) /\ c \in CardPads(k) /\ shg \in CardPads(k) /\ wa \in CardPads(k) /\ wb \in CardPads(k)
      /\ cw \in CardPads(k) /\ o \in CardPads(k)
  BY DEF CardPads, CardNames
<1>2. \A p \in CardPads(k) : p \in LabelPads /\ p \in Pads /\ ~IsFile(p)
  <2>1. \A p \in CardPads(k) : p \in LabelPads
    BY DEF CardPads, LabelPads, LabelNames
  <2> QED  BY <2>1, LabelsArePads, LabelsAreNoFiles
<1>3. /\ om # c /\ shg # c /\ wa # wb /\ wa # c /\ wb # c /\ wa # shg /\ wb # shg /\ cw # wb /\ cw # wa /\ cw # c
      /\ o # c /\ o # cw /\ o # wb /\ o # shg
  OBVIOUS
<1>4. v \in Pads /\ IsFile(v)
  BY LabelsArePads
<1>5. pic \in put /\ pic \in LabelPads /\ pic \in Pads /\ ~IsFile(pic) /\ \A p \in CardPads(k) : p # pic
  BY OpenAreLabels, LabelsArePads
<1>6. /\ c \in CardPad(k) /\ wa \in HalfPads(k) /\ wb \in HalfPads(k) /\ o \in PicturePad(k)
      /\ om \in OccludedPads(k) /\ shg \in ShadowedPads(k) /\ cw \in WrappedPads(k)
  BY DEF CardPad, HalfPads, PicturePad, OccludedPads, ShadowedPads, WrappedPads
<1>7. CardPad(k) = {c} /\ HalfPads(k) = {wa, wb} /\ PicturePad(k) = {o}
  BY DEF CardPad, HalfPads, PicturePad
<1>8. SpriteOf(k, hidden) = IF hidden THEN om ELSE v
  BY DEF SpriteOf
<1>9. /\ Grounded(pic, k, tier) = IF tier >= 1 THEN shg ELSE pic
      /\ UnderCard(pic, k, tier) = IF tier >= 2 THEN wb ELSE IF tier >= 1 THEN shg ELSE pic
      /\ OverCard(k, tier) = IF tier >= 2 THEN cw ELSE c
  BY DEF Grounded, UnderCard, OverCard
<1>10. Laid(w, k, who, hidden, tier, pic) = w5
  BY DEF Laid
<1> DEFINE x == << <<"card", who>> >>
           sprite == Sprite(who, hidden)
           ground == IF tier >= 1 THEN base \o << <<"shadow", who>> >> ELSE base
           over == IF tier >= 2 THEN Append(sprite, <<"wrap", who>>) ELSE sprite
<1>11. sprite = IF hidden THEN Append(x, <<"cut", who>>) ELSE x
  <2> DEFINE b == <<"card", who>>
             d == <<"cut", who>>
             T == {b, d}
  <2>1. Sprite(who, hidden) = <<b>> \o (IF hidden THEN <<d>> ELSE << >>) /\ x = <<b>>
    BY DEF Sprite
  <2> HIDE DEF b, d
  <2>2. <<b>> \in Seq(T)
    OBVIOUS
  <2> HIDE DEF T, x
  <2>3. <<b>> \o <<d>> = Append(<<b>>, d) /\ <<b>> \o << >> = <<b>>
    BY <2>2, Chain1, ConcatEmptySeq
  <2>4. Sprite(who, hidden) = IF hidden THEN Append(<<b>>, d) ELSE <<b>>
    BY <2>1, <2>3
  <2> QED  BY <2>1, <2>4 DEF d
<1> HIDE DEF v, om, c, shg, wa, wb, cw, o, base, x, sprite
<1>12. \E p1, o1 : /\ Wires(w1, media, p1, o1) /\ p1 \subseteq put \cup OccludedPads(k)
                   /\ DOMAIN o1 = {pic} \cup (IF hidden THEN {om} ELSE {}) /\ o1[pic] = base
                   /\ (IF hidden THEN o1[om] ELSE x) = sprite
  <2>1. CASE ~hidden
    <3>1. w1 = w
      <4>1. w \in Seq(Filters)
        BY DEF Wires, Whole0
      <4> QED  BY <2>1, <4>1, ConcatEmptySeq DEF Masked
    <3> QED  BY <1>11, <2>1, <3>1 DEF base
  <2>2. CASE hidden
    <3>1. \A p \in OccludedPads(k) : p \notin put
      BY PadsApart
    <3>2. PICK next : /\ Wires(w \o Occluded(k, who), media, put \cup OccludedPads(k), next)
                      /\ Swaps(open, next, {}, {om}, Append(Carries(open, media, v), <<"cut", who>>))
      BY <3>1, OccludedRuns DEF om, v
    <3>3. Carries(open, media, v) = x
      BY <1>4 DEF Carries, CardFile, x, v
    <3>4. w1 = w \o Occluded(k, who)
      BY <2>2 DEF Masked
    <3>5. /\ DOMAIN next = DOMAIN open \cup {om} /\ next[om] = Append(x, <<"cut", who>>)
          /\ \A p \in DOMAIN open : next[p] = open[p]
      BY <3>2, <3>3 DEF Swaps
    <3> QED  BY <1>11, <2>2, <3>2, <3>4, <3>5 DEF base
  <2> QED  BY <2>1, <2>2
<1>13. PICK p1, o1 : /\ Wires(w1, media, p1, o1) /\ p1 \subseteq put \cup OccludedPads(k)
                     /\ DOMAIN o1 = {pic} \cup (IF hidden THEN {om} ELSE {}) /\ o1[pic] = base
                     /\ (IF hidden THEN o1[om] ELSE x) = sprite
  BY <1>12
<1> HIDE DEF w1
<1>14. \E o2 : /\ Wires(w2, media, p1 \cup {c}, o2) /\ DOMAIN o2 = {pic, c} /\ o2[pic] = base /\ o2[c] = sprite
  <2> DEFINE a == SpriteOf(k, hidden)
  <2>1. a = IF hidden THEN om ELSE v
    BY <1>8
  <2>2. a \in Pads /\ (IsFile(a) \/ a \in DOMAIN o1)
    BY <1>1, <1>2, <1>4, <1>13, <2>1
  <2>3. Carries(o1, media, a) = sprite
    <3>1. CASE hidden
      BY <1>1, <1>2, <1>13, <2>1, <3>1 DEF Carries
    <3>2. CASE ~hidden
      BY <1>4, <1>13, <2>1, <3>2 DEF Carries, CardFile, x, v
    <3> QED  BY <3>1, <3>2
  <2>4. c \notin p1 /\ c \in LabelPads /\ a # pic
    BY <1>1, <1>2, <1>4, <1>5, <1>6, <1>13, <2>1, PadsApart
  <2>5. "keep" \in Ops \ {"fit", "overlay", "mix", "concat", "duck"} /\ 0 \in Nat
    BY DEF Ops
  <2> HIDE DEF a
  <2>6. PICK o2 : /\ Wires(Append(w1, Filter("keep", 0, <<a>>, <<c>>)), media, p1 \cup {c}, o2)
                  /\ Swaps(o1, o2, {a}, {c}, Made("keep", 0, Carries(o1, media, a)))
    BY <1>13, <2>2, <2>4, <2>5, OneToOne
  <2>7. Made("keep", 0, Carries(o1, media, a)) = sprite
    BY <2>3 DEF Made
  <2>8. DOMAIN o2 = (DOMAIN o1 \ {a}) \cup {c} /\ o2[c] = sprite /\ \A p \in DOMAIN o1 \ {a} : o2[p] = o1[p]
    BY <2>6, <2>7 DEF Swaps
  <2>9. pic # c
    BY <1>1, <1>5
  <2>10. DOMAIN o2 = {pic, c}
    <3>1. v # pic /\ v # om
      BY <1>1, <1>2, <1>4, <1>5
    <3> QED  BY <1>13, <2>1, <2>4, <2>8, <3>1
  <2>11. w2 = Append(w1, Filter("keep", 0, <<a>>, <<c>>))
    <3> DEFINE g == Filter("keep", 0, <<a>>, <<c>>)
    <3>1. w1 \in Seq(Filters)
      BY <1>13 DEF Wires, Whole0
    <3> HIDE DEF g
    <3>2. w1 \o <<g>> = Append(w1, g)
      BY <3>1, Chain1
    <3> QED  BY <3>2 DEF g, a
  <2> HIDE DEF w2
  <2> QED  BY <1>13, <2>4, <2>6, <2>8, <2>9, <2>10, <2>11
<1>15. PICK o2 : /\ Wires(w2, media, p1 \cup {c}, o2) /\ DOMAIN o2 = {pic, c} /\ o2[pic] = base /\ o2[c] = sprite
  BY <1>14
<1>16. pic # c
  BY <1>1, <1>5
<1> HIDE DEF w2
<1> DEFINE ground0 == Grounded(pic, k, tier)
<1>17. \E p3, o3 : /\ Wires(w3, media, p3, o3) /\ p3 \subseteq p1 \cup {c} \cup ShadowedPads(k)
                   /\ DOMAIN o3 = {ground0, c} /\ o3[ground0] = ground /\ o3[c] = sprite
  <2>1. CASE ~(tier >= 1)
    <3>1. w3 = w2
      <4>1. w2 \in Seq(Filters)
        BY <1>15 DEF Wires, Whole0
      <4> QED  BY <2>1, <4>1, ConcatEmptySeq
    <3> QED  BY <1>9, <1>15, <2>1, <3>1
  <2>2. CASE tier >= 1
    <3>1. \A p \in ShadowedPads(k) : p \notin p1 \cup {c}
      BY <1>7, <1>13, PadsApart
    <3>2. PICK next : /\ Wires(w2 \o Shadowed(k, who, pic), media, (p1 \cup {c}) \cup ShadowedPads(k), next)
                      /\ Swaps(o2, next, {pic}, {shg}, o2[pic] \o << <<"shadow", who>> >>)
      <4>1. pic \in DOMAIN o2
        BY <1>15
      <4> QED  BY <1>15, <3>1, <4>1, ShadowedRuns DEF shg
    <3>3. ground0 = shg /\ ground = base \o << <<"shadow", who>> >>
      BY <1>9, <2>2
    <3>4. w3 = w2 \o Shadowed(k, who, pic)
      BY <2>2
    <3> HIDE DEF w3, ground, ground0
    <3>5. DOMAIN next = {ground0, c} /\ next[ground0] = ground /\ next[c] = sprite
      BY <1>15, <1>16, <3>2, <3>3 DEF Swaps
    <3> QED  BY <3>2, <3>4, <3>5
  <2> QED  BY <2>1, <2>2
<1>18. PICK p3, o3 : /\ Wires(w3, media, p3, o3) /\ p3 \subseteq p1 \cup {c} \cup ShadowedPads(k)
                     /\ DOMAIN o3 = {ground0, c} /\ o3[ground0] = ground /\ o3[c] = sprite
  BY <1>17
<1>19. /\ ground0 # c /\ ground0 # wa /\ ground0 # wb /\ ground0 # cw /\ ground0 # o
  <2>1. shg # cw
    BY DEF shg, cw
  <2> QED  BY <1>1, <1>3, <1>5, <1>9, <2>1
<1>20. w3 \in Seq(Filters)
  BY <1>18 DEF Wires, Whole0
<1>21. ground0 \in Pads /\ ~IsFile(ground0)
  BY <1>1, <1>2, <1>5, <1>9
<1> HIDE DEF w3, ground, ground0
<1> DEFINE under == UnderCard(pic, k, tier)
           above == OverCard(k, tier)
<1>22. under = (IF tier >= 2 THEN wb ELSE ground0) /\ above = IF tier >= 2 THEN cw ELSE c
  BY <1>9 DEF ground0
<1>23. \E p4, o4 : /\ Wires(w4, media, p4, o4) /\ p4 \subseteq p3 \cup HalfPads(k) \cup WrappedPads(k)
                   /\ DOMAIN o4 = {under, above} /\ o4[under] = ground /\ o4[above] = over
  <2>1. CASE ~(tier >= 2)
    <3>1. w4 = w3
      BY <1>20, <2>1, ConcatEmptySeq
    <3> QED  BY <1>18, <1>22, <2>1, <3>1
  <2>2. CASE tier >= 2
    <3>1. wa \notin p3 /\ wb \notin p3 /\ wa \in LabelPads /\ wb \in LabelPads
      BY <1>1, <1>2, <1>6, <1>7, <1>13, <1>18, PadsApart
    <3>2. "split" \in Ops \ {"fit", "overlay", "mix", "concat", "duck"} /\ 0 \in Nat /\ ground0 \in DOMAIN o3
      BY <1>18 DEF Ops
    <3> DEFINE ws == Append(w3, Filter("split", 0, <<ground0>>, <<wa, wb>>))
    <3>3. PICK os : /\ Wires(ws, media, p3 \cup {wa, wb}, os)
                    /\ Swaps(o3, os, {ground0}, {wa, wb}, Made("split", 0, Carries(o3, media, ground0)))
      BY <1>18, <1>21, <3>1, <3>2, OneToTwo
    <3> HIDE DEF ws
    <3>4. Made("split", 0, Carries(o3, media, ground0)) = ground
      <4>1. Carries(o3, media, ground0) = ground
        BY <1>18, <1>21, <3>2 DEF Carries
      <4> QED  BY <4>1 DEF Made
    <3>5. DOMAIN os = {c, wa, wb} /\ os[wa] = ground /\ os[wb] = ground /\ os[c] = sprite
      <4>1. DOMAIN os = (DOMAIN o3 \ {ground0}) \cup {wa, wb} /\ (\A p \in {wa, wb} : os[p] = ground)
            /\ \A p \in DOMAIN o3 \ {ground0} : os[p] = o3[p]
        BY <3>3, <3>4 DEF Swaps
      <4> QED  BY <1>3, <1>18, <1>19, <4>1
    <3>6. \A p \in WrappedPads(k) : p \notin p3 \cup {wa, wb}
      BY <1>7, <1>13, <1>18, PadsApart
    <3>7. PICK next : /\ Wires(ws \o WrappedUnsplit(k, who, wa), media, (p3 \cup {wa, wb}) \cup WrappedPads(k), next)
                      /\ Swaps(os, next, {wa, c}, {cw}, Append(os[c], <<"wrap", who>>))
      <4>1. wa \in DOMAIN os /\ c \in DOMAIN os /\ wa # c /\ c = <<"c", k>>
        BY <1>3, <3>5 DEF c
      <4> QED  BY <3>3, <3>6, <4>1, WrappedRuns DEF cw
    <3>8. DOMAIN next = {wb, cw} /\ next[wb] = ground /\ next[cw] = over
      BY <1>3, <2>2, <3>5, <3>7 DEF Swaps
    <3>9. w4 = ws \o WrappedUnsplit(k, who, wa)
      <4>1. w4 = w3 \o Wrapped(k, who, ground0)
        BY <2>2 DEF ground0
      <4>2. w3 \o Wrapped(k, who, ground0) = ws \o WrappedUnsplit(k, who, wa)
        BY <1>20, WrappedIsOn DEF ws, wa, wb
      <4> QED  BY <4>1, <4>2
    <3>10. under = wb /\ above = cw
      BY <1>22, <2>2
    <3> HIDE DEF w4, over, under, above
    <3> QED  BY <1>7, <3>7, <3>8, <3>9, <3>10
  <2> QED  BY <2>1, <2>2
<1>24. PICK p4, o4 : /\ Wires(w4, media, p4, o4) /\ p4 \subseteq p3 \cup HalfPads(k) \cup WrappedPads(k)
                     /\ DOMAIN o4 = {under, above} /\ o4[under] = ground /\ o4[above] = over
  BY <1>23
<1>25. /\ under # above /\ under \in Pads /\ above \in Pads /\ ~IsFile(under) /\ ~IsFile(above)
  BY <1>1, <1>2, <1>3, <1>19, <1>21, <1>22
<1>26. w4 \in Seq(Filters)
  BY <1>24 DEF Wires, Whole0
<1> HIDE DEF w4, over, under, above
<1>27. o \notin p4 /\ o \in LabelPads
  BY <1>1, <1>2, <1>6, <1>7, <1>13, <1>18, <1>24, PadsApart
<1>28. PICK next : /\ Wires(Append(w4, Filter("overlay", 0, <<under, above>>, <<o>>)), media, p4 \cup {o}, next)
                   /\ Swaps(o4, next, {under, above}, {o}, Met("overlay", 0, Carries(o4, media, under),
                        Carries(o4, media, above)))
  <2>1. under \in DOMAIN o4 /\ above \in DOMAIN o4
    BY <1>24
  <2> QED  BY <1>24, <1>25, <1>27, <2>1, TwoToOne
<1>29. DOMAIN next = {o} /\ next[o] = ground \o over
  <2>1. Carries(o4, media, under) = ground /\ Carries(o4, media, above) = over
    BY <1>24, <1>25 DEF Carries
  <2>2. Met("overlay", 0, Carries(o4, media, under), Carries(o4, media, above)) = ground \o over
    BY <2>1 DEF Met
  <2> QED  BY <1>24, <1>28, <2>2 DEF Swaps
<1>30. ground \o over = base \o FigureOf(who, hidden, tier)
  <2>1. base \in Seq(Layers)
    <3>1. Carries(open, media, pic) \in Seq(Layers)
      BY <1>5, CarriedAre
    <3>2. Carries(open, media, pic) = open[pic]
      BY <1>5 DEF Carries
    <3> QED  BY <3>1, <3>2 DEF base
  <2> QED  BY <2>1, FigureAdds DEF ground, over, sprite
<1>31. w5 = Append(w4, Filter("overlay", 0, <<under, above>>, <<o>>))
  <2> DEFINE g == Filter("overlay", 0, <<under, above>>, <<o>>)
  <2> HIDE DEF g
  <2>1. w4 \o <<g>> = Append(w4, g)
    BY <1>26, Chain1
  <2> QED  BY <2>1 DEF g, under, above
<1>32. p4 \cup {o} \subseteq put \cup CardPads(k)
  BY <1>1, <1>7, <1>13, <1>18, <1>24, PadsApart
<1> HIDE DEF w5
<1>33. \E q, r :
           /\ Wires(Laid(w, k, who, hidden, tier, pic), media, q, r) /\ q \subseteq put \cup CardPads(k)
           /\ DOMAIN r = {<<"o", k>>} /\ r[<<"o", k>>] = open[pic] \o FigureOf(who, hidden, tier)
  BY <1>10, <1>28, <1>29, <1>30, <1>31, <1>32 DEF o, base
<1> QED  BY <1>33 DEF GoesOn

-----------------------------------------------------------------------------
(* Filters in a row: clips and beds, their join, what comes over the picture. *)

LEMMA Unwired ==
  ASSUME NEW media \in Seq(Layers)
  PROVE  Wires(<< >>, media, {}, << >>)
<1>1. Whole0(<< >>)
  BY DEF Whole0
<1>2. Ran(<< >>, media) = << >>
  <2>1. PICK g : Runs(g, << >>, media) /\ Ran(<< >>, media) = g[Len(<< >>)]
    BY <1>1, RanIs
  <2>2. Len(<< >>) = 0
    OBVIOUS
  <2> QED  BY <2>1, <2>2 DEF Runs
<1>3. DOMAIN << >> = {}
  OBVIOUS
<1>4. Carried(<< >>, media, {}, << >>)
  BY <1>2, <1>3 DEF Carried
<1>5. PutOnce(<< >>, {}) /\ TakenOnce(<< >>, {}, DOMAIN << >>) /\ InOrder(<< >>)
  BY <1>3 DEF PutOnce, TakenOnce, InOrder
<1> QED  BY <1>1, <1>4, <1>5 DEF Wires

LEMMA SinglesFlattened ==
  ASSUME NEW n \in Nat, NEW S, NEW x \in [1 .. n -> S], NEW q \in [1 .. n -> Seq(S)],
         \A i \in 1 .. n : q[i] = <<x[i]>>
  PROVE  FlattenSeq(q) = x
<1>1. PICK f \in [0 .. n -> Seq(S)] : Flattens(f, q, n) /\ FlattenSeq(q) = f[n]
  BY FlattenedIs
<1>2. f[0] = << >> /\ \A i \in 1 .. n : f[i] = f[i - 1] \o q[i]
  BY <1>1 DEF Flattens
<1> DEFINE P == {m \in 0 .. n : f[m] = [i \in 1 .. m |-> x[i]]}
<1>3. 0 \in P
  <2>1. [i \in 1 .. 0 |-> x[i]] = << >>
    OBVIOUS
  <2> QED  BY <1>2, <2>1
<1>4. \A m \in 1 .. n : m - 1 \in P => m \in P
  <2>z. \A m \in 1 .. n : m \in 0 .. n
    OBVIOUS
  <2> SUFFICES ASSUME NEW m \in 1 .. n, m - 1 \in P  PROVE f[m] = [i \in 1 .. m |-> x[i]]
    BY <2>z, Zenon
  <2> DEFINE g == [i \in 1 .. m - 1 |-> x[i]]
  <2>1. f[m] = f[m - 1] \o q[m] /\ f[m - 1] = g
    BY <1>2
  <2>2. q[m] = <<x[m]>> /\ x[m] \in S
    OBVIOUS
  <2>3. 1 .. m - 1 \subseteq 1 .. n
    OBVIOUS
  <2>4. g \in Seq(S) /\ Len(g) = m - 1
    BY <2>3
  <2>5. g \o <<x[m]>> = Append(g, x[m])
    <3> HIDE DEF g
    <3> QED  BY <2>4, Chain1
  <2>6. Append(g, x[m]) = [i \in 1 .. m |-> x[i]]
    <3>1. DOMAIN Append(g, x[m]) = 1 .. m /\ \A i \in 1 .. m : Append(g, x[m])[i] = IF i = m THEN x[m] ELSE g[i]
      <4> HIDE DEF g
      <4> QED  BY <2>2, <2>4
    <3>2. \A i \in 1 .. m : i # m => g[i] = x[i]
      OBVIOUS
    <3>3. Append(g, x[m]) = [i \in 1 .. m |-> Append(g, x[m])[i]]
      <4> DEFINE h == Append(g, x[m])
      <4>1. h \in Seq(S)
        <5> HIDE DEF g
        <5> QED  BY <2>2, <2>4
      <4> HIDE DEF h
      <4>2. h = [i \in DOMAIN h |-> h[i]]
        BY <4>1
      <4> QED  BY <3>1, <4>2 DEF h
    <3> HIDE DEF g
    <3> QED  BY <3>1, <3>2, <3>3
  <2> QED  BY <2>1, <2>2, <2>5, <2>6
<1> HIDE DEF P
<1>5. \A m \in 0 .. n : m \in P
  BY <1>3, <1>4, FromEachToTheNext
<1>6. f[n] = [i \in 1 .. n |-> x[i]]
  BY <1>5 DEF P
<1> QED  BY <1>1, <1>6

\* A row of filters is its last after the others.
LEMMA RowGrows ==
  ASSUME NEW S, NEW w \in Seq(S), NEW T, NEW n \in Nat, NEW g \in [1 .. n -> T], NEW m \in 1 .. n
  PROVE  w \o [i \in 1 .. m |-> g[i]] = Append(w \o [i \in 1 .. m - 1 |-> g[i]], g[m])
<1> DEFINE U == S \cup T
           s == [i \in 1 .. m - 1 |-> g[i]]
           t == [i \in 1 .. m |-> g[i]]
<1>1. w \in Seq(U) /\ g[m] \in U
  OBVIOUS
<1>2. s \in Seq(U) /\ Len(s) = m - 1 /\ t \in Seq(U) /\ Len(t) = m
  <2>1. 1 .. m - 1 \subseteq 1 .. n /\ 1 .. m \subseteq 1 .. n
    OBVIOUS
  <2>2. \A i \in 1 .. n : g[i] \in U
    OBVIOUS
  <2> HIDE DEF U
  <2> QED  BY <2>1, <2>2
<1>3. \A i \in 1 .. m : t[i] = g[i]
  OBVIOUS
<1>4. \A i \in 1 .. m - 1 : s[i] = g[i]
  OBVIOUS
<1> HIDE DEF U, s, t
<1>5. t = Append(s, g[m])
  <2>1. DOMAIN t = 1 .. m /\ DOMAIN Append(s, g[m]) = 1 .. m
    BY <1>1, <1>2
  <2>2. \A i \in 1 .. m : Append(s, g[m])[i] = t[i]
    <3>1. \A i \in 1 .. m : i = m \/ i \in 1 .. m - 1
      OBVIOUS
    <3> QED  BY <1>1, <1>2, <1>3, <1>4, <3>1
  <2>3. Append(s, g[m]) \in Seq(U)
    BY <1>1, <1>2
  <2> QED  BY <1>2, <2>1, <2>2, <2>3
<1>6. w \o Append(s, g[m]) = Append(w \o s, g[m])
  BY <1>1, <1>2, OneOnMore
<1> QED  BY <1>5, <1>6 DEF s, t

\* Files kept each under a label of the name.
KeptPads(name, m) == {<<name, i>> : i \in 1 .. m}
KeptFiles(src, name, n) == [i \in 1 .. n |-> Filter("keep", 0, <<src[i]>>, << <<name, i>> >>)]
Holds(next, open, name, n, x) ==
  /\ DOMAIN next = DOMAIN open \cup KeptPads(name, n) /\ \A i \in 1 .. n : next[<<name, i>>] = <<x[i]>>
  /\ \A p \in DOMAIN open : next[p] = open[p]
LEMMA FilesAreKept ==
  ASSUME NEW w, NEW media, NEW put, NEW open, Wires(w, media, put, open), NEW n \in Nat,
         NEW src \in [1 .. n -> {"v", "a"} \X Nat], NEW name \in LabelNames, \A i \in 1 .. n : <<name, i>> \notin put,
         NEW x, \A i \in 1 .. n : FileShows(media, src[i]) = <<x[i]>>
  PROVE  \E next : /\ Wires(w \o KeptFiles(src, name, n), media, put \cup KeptPads(name, n), next)
                   /\ Holds(next, open, name, n, x)
<1> DEFINE g == KeptFiles(src, name, n)
           row(m) == [i \in 1 .. m |-> g[i]]
           Fair(m, next) == /\ Wires(w \o row(m), media, put \cup KeptPads(name, m), next)
                            /\ DOMAIN next = DOMAIN open \cup KeptPads(name, m)
                            /\ \A i \in 1 .. m : next[<<name, i>>] = <<x[i]>>
                            /\ \A p \in DOMAIN open : next[p] = open[p]
           P == {m \in 0 .. n : \E next : Fair(m, next)}
<1>1. w \in Seq(Filters) /\ DOMAIN open \subseteq put
  BY DEF Wires, Whole0, Carried
<1>2. 0 \in P
  <2>1. row(0) = << >> /\ KeptPads(name, 0) = {}
    BY DEF KeptPads
  <2>2. w \o << >> = w
    BY <1>1, ConcatEmptySeq
  <2>3. Fair(0, open)
    <3>1. put \cup {} = put /\ DOMAIN open \cup {} = DOMAIN open /\ 1 .. 0 = {}
      OBVIOUS
    <3> HIDE DEF row
    <3> QED  BY <2>1, <2>2, <3>1
  <2> HIDE DEF Fair
  <2> QED  BY <2>3
<1>3. \A m \in 1 .. n : m - 1 \in P => m \in P
  <2>z. \A m \in 1 .. n : m \in 0 .. n
    OBVIOUS
  <2> SUFFICES ASSUME NEW m \in 1 .. n, m - 1 \in P  PROVE \E next : Fair(m, next)
    BY <2>z, Zenon
  <2> DEFINE v == w \o row(m - 1)
             a == src[m]
             b == <<name, m>>
             all == put \cup KeptPads(name, m - 1)
  <2>1. PICK kept : Fair(m - 1, kept)
    OBVIOUS
  <2>2. KeptPads(name, m) = KeptPads(name, m - 1) \cup {b}
    <3>1. 1 .. m = 1 .. m - 1 \cup {m}
      OBVIOUS
    <3> QED  BY <3>1 DEF KeptPads
  <2>3. b \notin KeptPads(name, m - 1)
    BY DEF KeptPads
  <2>4. a \in Pads /\ IsFile(a) /\ b \in LabelPads /\ b \notin all
    <3>1. a \in {"v", "a"} \X Nat
      OBVIOUS
    <3>2. a[1] \in {"v", "a"}
      BY <3>1
    <3>3. b \in LabelPads
      BY DEF LabelPads
    <3> QED  BY <2>3, <3>1, <3>2, <3>3 DEF Pads, IsFile
  <2>5. "keep" \in Ops \ {"fit", "overlay", "mix", "concat", "duck"} /\ 0 \in Nat
    BY DEF Ops
  <2>6. Carries(kept, media, a) = <<x[m]>>
    BY <2>4 DEF Carries
  <2>7. w \o row(m) = Append(v, Filter("keep", 0, <<a>>, <<b>>))
    <3> DEFINE T == {g[i] : i \in 1 .. n}
    <3>1. g \in [1 .. n -> T]
      BY DEF KeptFiles
    <3>2. g[m] = Filter("keep", 0, <<a>>, <<b>>)
      BY DEF KeptFiles
    <3> HIDE DEF g, T
    <3>3. w \o row(m) = Append(w \o row(m - 1), g[m])
      BY <1>1, <3>1, RowGrows
    <3> QED  BY <3>2, <3>3
  <2>8. Wires(v, media, all, kept) /\ DOMAIN kept = DOMAIN open \cup KeptPads(name, m - 1)
        /\ (\A i \in 1 .. m - 1 : kept[<<name, i>>] = <<x[i]>>) /\ \A p \in DOMAIN open : kept[p] = open[p]
    BY <2>1
  <2> HIDE DEF v, a, b, all, Fair, row
  <2>9. PICK next : /\ Wires(Append(v, Filter("keep", 0, <<a>>, <<b>>)), media, all \cup {b}, next)
                    /\ Swaps(kept, next, {a}, {b}, Made("keep", 0, Carries(kept, media, a)))
    BY <2>4, <2>5, <2>8, OneToOne
  <2>10. Made("keep", 0, Carries(kept, media, a)) = <<x[m]>>
    BY <2>6 DEF Made
  <2>11. a \notin DOMAIN kept
    BY <2>4, <2>8, OpenAreLabels
  <2>12. DOMAIN next = DOMAIN kept \cup {b} /\ next[b] = <<x[m]>> /\ \A p \in DOMAIN kept : next[p] = kept[p]
    BY <2>9, <2>10, <2>11 DEF Swaps
  <2>13. \A i \in 1 .. m : next[<<name, i>>] = <<x[i]>>
    <3> TAKE i \in 1 .. m
    <3>1. CASE i = m
      BY <2>12, <3>1 DEF b
    <3>2. CASE i # m
      <4>1. i \in 1 .. m - 1
        BY <3>2
      <4>2. <<name, i>> \in DOMAIN kept
        BY <2>8, <4>1 DEF KeptPads
      <4> QED  BY <2>8, <2>12, <4>1, <4>2
    <3> QED  BY <3>1, <3>2
  <2>14. all \cup {b} = put \cup KeptPads(name, m) /\ DOMAIN next = DOMAIN open \cup KeptPads(name, m)
    BY <2>2, <2>8, <2>12 DEF all
  <2>15. \A p \in DOMAIN open : next[p] = open[p]
    BY <2>8, <2>12
  <2> QED  BY <2>7, <2>9, <2>13, <2>14, <2>15 DEF Fair
<1> HIDE DEF P
<1>4. \A m \in 0 .. n : m \in P
  BY <1>2, <1>3, FromEachToTheNext
<1>5. n \in P
  BY <1>4
<1>6. PICK next : Fair(n, next)
  BY <1>5 DEF P
<1>7. row(n) = g
  BY DEF KeptFiles
<1> HIDE DEF row, g
<1>8. Holds(next, open, name, n, x)
  BY <1>6 DEF Holds
<1> QED  BY <1>6, <1>7, <1>8 DEF g

\* All of a name are joined.
LEMMA ManyToOne ==
  ASSUME NEW w, NEW media, NEW put, NEW open, Wires(w, media, put, open), NEW op \in {"concat", "mix"},
         NEW n \in Nat, n >= 1,
         NEW name \in LabelNames, KeptPads(name, n) \subseteq DOMAIN open, NEW c \in LabelPads, c \notin put,
         NEW x \in [1 .. n -> Layers], \A i \in 1 .. n : open[<<name, i>>] = <<x[i]>>
  PROVE  \E next : /\ Wires(Append(w, Filter(op, 0, [i \in 1 .. n |-> <<name, i>>], <<c>>)), media, put \cup {c},
                        next)
                   /\ Swaps(open, next, KeptPads(name, n), {c}, x)
<1> DEFINE from == [i \in 1 .. n |-> <<name, i>>]
           f == Filter(op, 0, from, <<c>>)
           in == [i \in DOMAIN f.from |-> Carries(open, media, f.from[i])]
<1>1. f.op = op /\ f.of = 0 /\ f.from = from /\ f.to = <<c>>
  BY DEF Filter
<1>2. \A i \in 1 .. n : <<name, i>> \in LabelPads /\ <<name, i>> \in Pads /\ ~IsFile(<<name, i>>)
      /\ <<name, i>> \in DOMAIN open
  <2> TAKE i \in 1 .. n
  <2>1. <<name, i>> \in LabelPads
    BY DEF LabelPads
  <2>2. <<name, i>> \in DOMAIN open
    BY DEF KeptPads
  <2> QED  BY <2>1, <2>2, LabelsArePads, LabelsAreNoFiles
<1>3. from \in Seq(Pads) /\ Len(from) = n /\ DOMAIN from = 1 .. n /\ \A i \in 1 .. n : from[i] = <<name, i>>
  BY <1>2
<1>4. in = [i \in 1 .. n |-> <<x[i]>>]
  <2>1. \A i \in 1 .. n : Carries(open, media, from[i]) = <<x[i]>>
    BY <1>2, <1>3 DEF Carries
  <2> HIDE DEF f, from
  <2> QED  BY <1>1, <1>3, <2>1
<1>5. FlattenSeq(in) = x
  <2> DEFINE q == [i \in 1 .. n |-> <<x[i]>>]
  <2>1. q \in [1 .. n -> Seq(Layers)]
    <3>1. \A i \in 1 .. n : x[i] \in Layers
      OBVIOUS
    <3>2. \A y \in Layers : <<y>> \in Seq(Layers)
      <4> HIDE DEF Layers
      <4> QED  OBVIOUS
    <3> QED  BY <3>1, <3>2
  <2>2. \A i \in 1 .. n : q[i] = <<x[i]>>
    OBVIOUS
  <2> HIDE DEF q, Layers
  <2>3. FlattenSeq(q) = x
    BY <2>1, <2>2, SinglesFlattened
  <2> QED  BY <1>4, <2>3 DEF q
<1>6. Gives(open, media, f) = x
  <2>1. Gives(open, media, f) =
          CASE f.op \in {"keep", "split", "fit"} -> in[1]
            [] f.op \in {"overlay", "mix", "concat"} -> FlattenSeq(in)
            [] f.op = "matte" -> << >>
            [] f.op = "shadow" -> << <<"shadow", f.of>> >>
            [] f.op = "duck" -> Append(in[1], <<IF in[2] = << <<"narration",
                  0>> >> THEN "ducked" ELSE "squeezed", 0>>)
            [] OTHER -> Append(in[1], <<f.op, f.of>>)
    BY DEF Gives
  <2> HIDE DEF in, f
  <2> QED  BY <1>1, <1>5, <2>1
<1>7. f \in Filters
  <2>1. op \in Ops /\ 0 \in Nat
    BY DEF Ops
  <2>2. <<c>> \in Seq(LabelPads)
    <3> HIDE DEF LabelPads
    <3> QED  OBVIOUS
  <2> HIDE DEF Ops, Pads, LabelPads, from
  <2> QED  BY <1>3, <2>1, <2>2 DEF Filters, Filter
<1>8. ToSet(f.from) = KeptPads(name, n)
  BY <1>1, <1>3 DEF ToSet, KeptPads
<1>9. ToSet(f.to) = {c}
  BY <1>1, OneAlone
<1> HIDE DEF from
<1>10. Full(f)
  BY <1>1, <1>3 DEF Full
<1>11. Fits(f, DOMAIN open, put)
  <2>1. \A m \in DOMAIN f.from : f.from[m] \in DOMAIN open
    BY <1>1, <1>2, <1>3
  <2>2. \A m, l \in DOMAIN f.from : f.from[m] = f.from[l] => m = l
    BY <1>1, <1>3
  <2> HIDE DEF f
  <2> QED  BY <1>7, <1>9, <1>10, <2>1, <2>2 DEF Fits
<1> HIDE DEF f
<1>12. PICK next : Wires(Append(w, f), media, put \cup ToSet(f.to), next) /\ After(next, open, media, f)
  BY <1>11, OneFilter
<1>13. Swaps(open, next, KeptPads(name, n), {c}, x)
  BY <1>6, <1>8, <1>9, <1>12 DEF After, Swaps
<1> QED  BY <1>9, <1>12, <1>13 DEF f, from

\* One over the other upon the picture.
Over0(ops, pic) == [i \in DOMAIN ops |-> Filter(ops[i], 0, <<IF i = 1 THEN pic ELSE <<"f", i - 1>> >>, << <<"f",
      i>> >>)]
LastOver(ops, pic) == IF Len(ops) = 0 THEN pic ELSE <<"f", Len(ops)>>
Covers(w, media, put, ops, pic, x) ==
  \E next : /\ Wires(w \o Over0(ops, pic), media, put \cup KeptPads("f", Len(ops)), next)
            /\ DOMAIN next = IF IsFile(LastOver(ops, pic)) THEN {} ELSE {LastOver(ops, pic)}
            /\ Carries(next, media, LastOver(ops, pic)) = x \o [i \in 1 .. Len(ops) |-> <<ops[i], 0>>]

LEMMA OverThePicture ==
  ASSUME NEW w, NEW media, NEW put, NEW open, Wires(w, media, put, open), NEW pic \in Pads,
         DOMAIN open = (IF IsFile(pic) THEN {} ELSE {pic}), NEW ops \in Seq({"shake", "grade", "subtitles"}),
         \A i \in 1 .. Len(ops) : <<"f", i>> \notin put
  PROVE  Covers(w, media, put, ops, pic, Carries(open, media, pic))
<1> DEFINE n == Len(ops)
           g == Over0(ops, pic)
           x == Carries(open, media, pic)
           lay == [i \in 1 .. n |-> <<ops[i], 0>>]
           row(m) == [i \in 1 .. m |-> g[i]]
           above(m) == [i \in 1 .. m |-> lay[i]]
           last(m) == IF m = 0 THEN pic ELSE <<"f", m>>
           Fair(m, next) == /\ Wires(w \o row(m), media, put \cup KeptPads("f", m), next)
                            /\ DOMAIN next = IF IsFile(last(m)) THEN {} ELSE {last(m)}
                            /\ Carries(next, media, last(m)) = x \o above(m)
           P == {m \in 0 .. n : \E next : Fair(m, next)}
<1>1. w \in Seq(Filters) /\ DOMAIN open \subseteq put
  BY DEF Wires, Whole0, Carried
<1>2. n \in Nat /\ DOMAIN ops = 1 .. n /\ \A i \in 1 .. n : ops[i] \in {"shake", "grade", "subtitles"}
  OBVIOUS
<1>3. x \in Seq(Layers)
  BY CarriedAre
<1>4. \A i \in 1 .. n : lay[i] = <<ops[i], 0>> /\ lay[i] \in Layers
  <2> TAKE i \in 1 .. n
  <2>1. ops[i] \in LayerNames
    BY <1>2 DEF LayerNames, Ops
  <2> QED  BY <2>1 DEF Layers
<1>5. lay \in [1 .. n -> Layers]
  BY <1>4
<1>6. \A i \in 1 .. n : g[i] = Filter(ops[i], 0, <<last(i - 1)>>, << <<"f", i>> >>)
  BY <1>2 DEF Over0
<1>7. DOMAIN g = 1 .. n
  BY <1>2 DEF Over0
<1>8. \A i \in 1 .. n : <<"f", i>> \in LabelPads /\ <<"f", i>> \in Pads /\ ~IsFile(<<"f", i>>)
  <2> TAKE i \in 1 .. n
  <2>1. <<"f", i>> \in LabelPads
    BY DEF LabelPads, LabelNames
  <2> QED  BY <2>1, LabelsArePads, LabelsAreNoFiles
<1> HIDE DEF n, g, x, lay
<1>9. 0 \in P
  <2>1. row(0) = << >> /\ above(0) = << >> /\ KeptPads("f", 0) = {} /\ last(0) = pic
    BY DEF KeptPads
  <2>2. w \o << >> = w /\ x \o << >> = x
    BY <1>1, <1>3, ConcatEmptySeq
  <2>3. put \cup {} = put /\ Carries(open, media, pic) = x /\ DOMAIN open = IF IsFile(pic) THEN {} ELSE {pic}
    BY DEF x
  <2> HIDE DEF row, above, last
  <2>4. Fair(0, open)
    BY <2>1, <2>2, <2>3
  <2> HIDE DEF Fair
  <2> QED  BY <1>2, <2>4
<1>10. \A m \in 1 .. n : m - 1 \in P => m \in P
  <2>z. \A m \in 1 .. n : m \in 0 .. n
    BY <1>2
  <2> SUFFICES ASSUME NEW m \in 1 .. n, m - 1 \in P  PROVE \E next : Fair(m, next)
    BY <2>z, Zenon
  <2> DEFINE v == w \o row(m - 1)
             op == ops[m]
             a == last(m - 1)
             b == <<"f", m>>
             all == put \cup KeptPads("f", m - 1)
  <2>0. m \in Nat /\ m >= 1 /\ m - 1 \in Nat
    BY <1>2
  <2>1. PICK was : Fair(m - 1, was)
    OBVIOUS
  <2>2. KeptPads("f", m) = KeptPads("f", m - 1) \cup {b}
    <3>1. 1 .. m = 1 .. m - 1 \cup {m}
      BY <2>0
    <3> QED  BY <3>1 DEF KeptPads
  <2>3. b \notin KeptPads("f", m - 1)
    BY <2>0 DEF KeptPads
  <2>4. a \in Pads /\ b \in LabelPads /\ ~IsFile(b) /\ b \notin all
    <3>1. CASE m = 1
      BY <1>8, <2>3, <3>1 DEF n
    <3>2. CASE m # 1
      <4>1. m - 1 \in 1 .. n
        BY <1>2, <3>2
      <4> QED  BY <1>8, <2>3, <4>1 DEF n
    <3> QED  BY <3>1, <3>2
  <2>5. op \in Ops \ {"fit", "overlay", "mix", "concat", "duck"} /\ 0 \in Nat
        /\ op \in {"shake", "grade", "subtitles"}
    BY <1>2 DEF Ops
  <2>6. w \o row(m) = Append(v, Filter(op, 0, <<a>>, <<b>>))
    <3> DEFINE T == {g[i] : i \in 1 .. n}
    <3>1. g \in [1 .. n -> T]
      BY <1>7 DEF g, Over0
    <3>2. g[m] = Filter(op, 0, <<a>>, <<b>>)
      BY <1>6
    <3> HIDE DEF T, a, b, op
    <3>3. w \o row(m) = Append(w \o row(m - 1), g[m])
      BY <1>1, <1>2, <3>1, RowGrows
    <3> QED  BY <3>2, <3>3
  <2>7. Wires(v, media, all, was) /\ DOMAIN was = (IF IsFile(a) THEN {} ELSE {a})
        /\ Carries(was, media, a) = x \o above(m - 1)
    BY <2>1
  <2>8. x \o above(m) = Append(x \o above(m - 1), <<op, 0>>)
    <3>1. x \o above(m) = Append(x \o above(m - 1), lay[m])
      BY <1>2, <1>3, <1>5, RowGrows
    <3> QED  BY <1>4, <3>1
  <2>9. last(m) = b
    BY <2>0
  <2> HIDE DEF v, a, b, op, all, Fair, row, above, last
  <2>10. PICK next : /\ Wires(Append(v, Filter(op, 0, <<a>>, <<b>>)), media, all \cup {b}, next)
                    /\ Swaps(was, next, {a}, {b}, Made(op, 0, Carries(was, media, a)))
    BY <2>4, <2>5, <2>7, OneToOne
  <2>11. Made(op, 0, Carries(was, media, a)) = x \o above(m)
    <3>1. Made(op, 0, Carries(was, media, a)) = Append(Carries(was, media, a), <<op, 0>>)
      BY <2>5 DEF Made
    <3> QED  BY <2>7, <2>8, <3>1
  <2>12. DOMAIN next = {b} /\ next[b] = x \o above(m)
    BY <2>7, <2>10, <2>11 DEF Swaps
  <2>13. Carries(next, media, b) = x \o above(m)
    BY <2>4, <2>12 DEF Carries
  <2>14. all \cup {b} = put \cup KeptPads("f", m)
    BY <2>2 DEF all
  <2> QED  BY <2>4, <2>6, <2>9, <2>10, <2>12, <2>13, <2>14 DEF Fair
<1> HIDE DEF P
<1>11. \A m \in 0 .. n : m \in P
  BY <1>2, <1>9, <1>10, FromEachToTheNext
<1>12. n \in P
  BY <1>2, <1>11
<1>13. PICK next : Fair(n, next)
  BY <1>12 DEF P
<1>14. row(n) = g /\ above(n) = [i \in 1 .. Len(ops) |-> <<ops[i], 0>>]
  <2>1. row(n) = [i \in DOMAIN g |-> g[i]] /\ above(n) = [i \in 1 .. n |-> lay[i]]
    BY <1>7
  <2>2. g = [i \in DOMAIN g |-> g[i]]
    BY DEF g, Over0
  <2> QED  BY <1>4, <2>1, <2>2 DEF n
<1> HIDE DEF row, above
<1> QED  BY <1>13, <1>14 DEF n, g, x, Covers, LastOver

-----------------------------------------------------------------------------
(* The farther before the nearer.                                            *)

TroupeCards == [depth : {"far", "mid", "near"}, hidden : BOOLEAN]

LEMMA LayersAre ==
  ASSUME NEW card \in TroupeCards
  PROVE  Layer(card) \in 1 .. 3
<1>1. Depths[1] = "far" /\ Depths[2] = "mid" /\ Depths[3] = "near" /\ card.depth \in {"far", "mid", "near"}
  BY DEF Depths, TroupeCards
<1>2. 1 \in 1 .. 3 /\ 2 \in 1 .. 3 /\ 3 \in 1 .. 3
  OBVIOUS
<1>3. \E d \in 1 .. 3 : Depths[d] = card.depth
  BY <1>1, <1>2
<1> QED  BY <1>3 DEF Layer

Sorted(troupe, order) ==
  /\ order \in [DOMAIN troupe -> DOMAIN troupe] /\ ToSet(order) = DOMAIN troupe
  /\ \A i, j \in DOMAIN order : i < j => Earlier(troupe, order[i], order[j])

LEMMA OrderedIsSorted ==
  ASSUME NEW troupe \in Seq(TroupeCards)
  PROVE  Sorted(troupe, Ordered(troupe))
<1> DEFINE n == Len(troupe)
           D == DOMAIN troupe
           L(i) == Layer(troupe[i])
           E(j, i) == Earlier(troupe, j, i)
           before(i) == {j \in D : E(j, i)}
           rank == [i \in D |-> Cardinality(before(i))]
           order == Ordered(troupe)
<1>1. n \in Nat /\ D = 1 .. n /\ \A i \in D : i \in Nat /\ troupe[i] \in TroupeCards
  OBVIOUS
<1>2. \A i \in D : L(i) \in Nat
  <2> TAKE i \in D
  <2>1. L(i) \in 1 .. 3
    BY <1>1, LayersAre
  <2> QED  BY <2>1
<1>3. \A i, j \in D : E(j, i) <=> L(j) < L(i) \/ (L(j) = L(i) /\ j < i)
  BY DEF Earlier
<1> HIDE DEF L, E
<1>4. /\ \A i \in D : ~E(i, i)
      /\ \A i, j \in D : i # j => E(i, j) \/ E(j, i)
      /\ \A i, j, k \in D : E(i, j) /\ E(j, k) => E(i, k)
  <2>1. \A i \in D : ~E(i, i)
    BY <1>1, <1>2, <1>3
  <2>2. \A i, j \in D : i # j => E(i, j) \/ E(j, i)
    BY <1>1, <1>2, <1>3
  <2>3. ASSUME NEW i \in D, NEW j \in D, NEW k \in D, E(i, j), E(j, k)  PROVE E(i, k)
    <3>1. L(i) < L(j) \/ (L(i) = L(j) /\ i < j)
      BY <1>3, <2>3
    <3>2. L(j) < L(k) \/ (L(j) = L(k) /\ j < k)
      BY <1>3, <2>3
    <3>3. L(i) < L(k) \/ (L(i) = L(k) /\ i < k)
      BY <1>1, <1>2, <3>1, <3>2
    <3> QED  BY <1>3, <3>3
  <2> QED  BY <2>1, <2>2, <2>3
<1>5. IsFiniteSet(D) /\ Cardinality(D) = n
  BY <1>1, FS_Interval
<1>6. \A i \in D : before(i) \in SUBSET (D \ {i})
  BY <1>4
<1>7. \A i \in D : IsFiniteSet(before(i)) /\ rank[i] \in 0 .. n - 1
  <2> TAKE i \in D
  <2>1. IsFiniteSet(D \ {i}) /\ Cardinality(D \ {i}) = n - 1
    BY <1>5, FS_RemoveElement
  <2>2. IsFiniteSet(before(i)) /\ Cardinality(before(i)) <= n - 1
    BY <1>6, <2>1, FS_Subset
  <2>3. Cardinality(before(i)) \in Nat
    BY <2>2, FS_CardinalityType
  <2> HIDE DEF before
  <2> QED  BY <1>1, <2>2, <2>3
<1>8. ASSUME NEW i \in D, NEW j \in D, E(j, i)  PROVE rank[j] < rank[i]
  <2>1. j \notin before(j) /\ IsFiniteSet(before(j)) /\ IsFiniteSet(before(i))
    BY <1>4, <1>7
  <2>2. Cardinality(before(j) \cup {j}) = Cardinality(before(j)) + 1
    BY <2>1, FS_AddElement
  <2>3. before(j) \cup {j} \in SUBSET before(i)
    BY <1>4, <1>8
  <2>4. Cardinality(before(j) \cup {j}) <= Cardinality(before(i))
    BY <2>1, <2>3, FS_Subset
  <2>5. rank[j] \in 0 .. n - 1 /\ rank[i] \in 0 .. n - 1 /\ rank[i] = Cardinality(before(i))
        /\ rank[j] = Cardinality(before(j))
    BY <1>7
  <2> HIDE DEF before, rank
  <2> QED  BY <1>1, <2>2, <2>4, <2>5
<1> HIDE DEF before
<1>9. \A i, j \in D : rank[i] = rank[j] => i = j
  <2> SUFFICES ASSUME NEW i \in D, NEW j \in D, rank[i] = rank[j], i # j  PROVE FALSE
    OBVIOUS
  <2>1. rank[i] < rank[j] \/ rank[j] < rank[i]
    BY <1>4, <1>8
  <2>2. rank[i] \in Nat /\ rank[j] \in Nat
    BY <1>1, <1>7
  <2> HIDE DEF rank
  <2> QED  BY <2>1, <2>2
<1>10. \A r \in 0 .. n - 1 : \E i \in D : rank[i] = r
  <2>1. rank \in [D -> 0 .. n - 1]
    <3>1. \A i \in D : Cardinality(before(i)) \in 0 .. n - 1
      BY <1>7
    <3> QED  BY <3>1
  <2>2. rank \in Injection(D, 0 .. n - 1)
    <3> HIDE DEF rank
    <3> QED  BY <1>9, <2>1 DEF Injection, IsInjective
  <2>3. IsFiniteSet(0 .. n - 1) /\ Cardinality(0 .. n - 1) = n
    <3>1. 0 \in Int /\ n - 1 \in Int
      BY <1>1
    <3>2. IsFiniteSet(0 .. n - 1) /\ Cardinality(0 .. n - 1) = IF 0 > n - 1 THEN 0 ELSE n - 1 - 0 + 1
      BY <3>1, FS_Interval
    <3> QED  BY <1>1, <3>2
  <2> DEFINE T == 0 .. n - 1
  <2> HIDE DEF T, rank
  <2>4. rank \in Injection(D, T) /\ IsFiniteSet(T) /\ Cardinality(D) = Cardinality(T)
    BY <1>5, <2>2, <2>3 DEF T
  <2>5. rank \in Surjection(D, T)
    BY <2>4, FS_Injection
  <2> QED  BY <2>5 DEF Surjection, T
<1>11. \A k \in D : order[k] \in D /\ rank[order[k]] = k - 1
  <2> TAKE k \in D
  <2>1. k - 1 \in 0 .. n - 1
    BY <1>1
  <2>2. PICK card \in D : rank[card] = k - 1
    BY <1>10, <2>1
  <2>3. \A i \in D : rank[i] = Cardinality({j \in D : Earlier(troupe, j, i)})
    BY DEF before, E
  <2>4. order[k] = CHOOSE i \in D : Cardinality({j \in D : Earlier(troupe, j, i)}) = k - 1
    BY DEF Ordered
  <2> HIDE DEF rank, order
  <2>5. \E i \in D : Cardinality({j \in D : Earlier(troupe, j, i)}) = k - 1
    BY <2>2, <2>3
  <2>6. order[k] \in D /\ Cardinality({j \in D : Earlier(troupe, j, order[k])}) = k - 1
    <3> HIDE DEF D
    <3> QED  BY <2>4, <2>5
  <2> QED  BY <2>3, <2>6
<1>12. DOMAIN order = D /\ order = [k \in D |-> order[k]]
  <2> DEFINE lo(k) == CHOOSE i \in D : Cardinality({j \in D : Earlier(troupe, j, i)}) = k - 1
  <2>1. order = [k \in D |-> lo(k)]
    BY DEF Ordered
  <2> HIDE DEF lo, order
  <2> QED  BY <2>1
<1> HIDE DEF rank, order
<1>13. order \in [D -> D]
  BY <1>11, <1>12
<1>14. ToSet(order) = D
  <2>1. ASSUME NEW i \in D  PROVE \E k \in D : order[k] = i
    <3>1. rank[i] \in 0 .. n - 1
      BY <1>7
    <3>2. rank[i] + 1 \in D /\ (rank[i] + 1) - 1 = rank[i]
      BY <1>1, <3>1
    <3>3. order[rank[i] + 1] \in D /\ rank[order[rank[i] + 1]] = rank[i]
      BY <1>11, <3>2
    <3>4. order[rank[i] + 1] = i
      BY <1>9, <3>3
    <3> QED  BY <3>2, <3>4
  <2> HIDE DEF D
  <2>2. \A k \in D : order[k] \in D
    BY <1>11
  <2> QED  BY <1>12, <2>1, <2>2 DEF ToSet
<1>15. ASSUME NEW i \in D, NEW j \in D, i < j  PROVE E(order[i], order[j])
  <2>1. order[i] \in D /\ order[j] \in D /\ rank[order[i]] = i - 1 /\ rank[order[j]] = j - 1
    BY <1>11
  <2>2. i \in Nat /\ j \in Nat
    BY <1>1
  <2>3. rank[order[i]] < rank[order[j]]
    BY <1>15, <2>1, <2>2
  <2>4. order[i] # order[j] /\ ~(rank[order[j]] < rank[order[i]])
    BY <1>15, <2>1, <2>2
  <2>5. ~E(order[j], order[i])
    BY <1>8, <2>1, <2>4
  <2> QED  BY <1>4, <2>1, <2>4, <2>5
<1>16. \A i, j \in DOMAIN order : i < j => Earlier(troupe, order[i], order[j])
  BY <1>12, <1>15 DEF E
<1> QED  BY <1>13, <1>14, <1>16 DEF Sorted, order

-----------------------------------------------------------------------------
(* What is heard.                                                            *)

BedFiles(n, lo) == [i \in 1 .. n |-> <<"a", lo + i - 1>>]
Sounding(n, lo, voice) ==
  KeptFiles(BedFiles(n, lo), "bed", n)
    \o << Filter("mix", 0, [i \in 1 .. n |-> <<"bed", i>>], << <<"bgmix", 0>> >>),
          Filter("duck", 0, << <<"bgmix", 0>>, voice>>, << <<"ducked", 0>> >>),
          Filter("mix", 0, << <<"ducked", 0>>, voice>>, << <<"aout", 0>> >>) >>
SoundPads(n) == KeptPads("bed", n) \cup {<<"bgmix", 0>>, <<"ducked", 0>>, <<"aout", 0>>}

LEMMA Regrouped ==
  ASSUME NEW S, NEW w \in Seq(S), NEW T, NEW g \in Seq(T), NEW V, NEW s \in Seq(V)
  PROVE  w \o (g \o s) = (w \o g) \o s /\ w \o g \in Seq(S \cup T)
<1> DEFINE U == S \cup T \cup V
<1>1. ASSUME NEW A, NEW q \in Seq(A), NEW B, A \subseteq B  PROVE q \in Seq(B)
  <2>1. q \in [1 .. Len(q) -> A] /\ Len(q) \in Nat
    OBVIOUS
  <2> DEFINE m == Len(q)
  <2>2. q \in [1 .. m -> B] /\ m \in Nat
    BY <1>1, <2>1
  <2> HIDE DEF m
  <2> QED  BY <2>2
<1>2. S \subseteq U /\ T \subseteq U /\ V \subseteq U
  OBVIOUS
<1> HIDE DEF U
<1>3. w \in Seq(U) /\ g \in Seq(U) /\ s \in Seq(U)
  BY <1>1, <1>2
<1>4. w \o (g \o s) = (w \o g) \o s
  BY <1>3, ConcatAssociative
<1>5. w \o g \in Seq(S \cup T)
  <2> DEFINE B == S \cup T
  <2>1. S \subseteq B /\ T \subseteq B
    OBVIOUS
  <2> HIDE DEF B
  <2>2. w \in Seq(B) /\ g \in Seq(B)
    BY <1>1, <2>1
  <2>3. w \o g \in Seq(B)
    BY <2>2, ConcatProperties
  <2> QED  BY <2>3 DEF B
<1> QED  BY <1>4, <1>5

Speaks(media, voice) == FileShows(media, voice) = << <<"narration", 0>> >>
Plays(media, n, lo, beds) == \A i \in 1 .. n : FileShows(media, <<"a", lo + i - 1>>) = <<beds[i]>>
Sounds(w, media, put, open, n, beds) ==
  \E next : /\ Wires(w, media, put \cup SoundPads(n), next)
            /\ DOMAIN next = DOMAIN open \cup {<<"aout", 0>>}
            /\ next[<<"aout", 0>>] = Append(beds, <<"ducked", 0>>) \o << <<"narration", 0>> >>
            /\ \A p \in DOMAIN open : next[p] = open[p]

LEMMA ItIsHeard ==
  ASSUME NEW w, NEW media, NEW put, NEW open, Wires(w, media, put, open), NEW n \in Nat, n >= 1, NEW lo \in Nat,
         lo >= 1,
         NEW beds \in [1 .. n -> Layers], Plays(media, n, lo, beds),
         NEW voice \in Pads, IsFile(voice), Speaks(media, voice),
         \A p \in SoundPads(n) : p \notin put
  PROVE  Sounds(w \o Sounding(n, lo, voice), media, put, open, n, beds)
<1> DEFINE src == BedFiles(n, lo)
           mixed == <<"bgmix", 0>>
           ducked == <<"ducked", 0>>
           heard == <<"aout", 0>>
           told == << <<"narration", 0>> >>
           w1 == w \o KeptFiles(src, "bed", n)
           w2 == Append(w1, Filter("mix", 0, [i \in 1 .. n |-> <<"bed", i>>], <<mixed>>))
           w3 == Append(w2, Filter("duck", 0, <<mixed, voice>>, <<ducked>>))
           w4 == Append(w3, Filter("mix", 0, <<ducked, voice>>, <<heard>>))
           put1 == put \cup KeptPads("bed", n)
<1>1. src \in [1 .. n -> {"v", "a"} \X Nat] /\ \A i \in 1 .. n : FileShows(media, src[i]) = <<beds[i]>>
  <2>1. \A i \in 1 .. n : lo + i - 1 \in Nat
    OBVIOUS
  <2>2. \A i \in 1 .. n : src[i] = <<"a", lo + i - 1>>
    BY DEF BedFiles
  <2> QED  BY <2>1, <2>2 DEF BedFiles, Plays
<1>2. "bed" \in LabelNames /\ mixed \in LabelPads /\ ducked \in LabelPads /\ heard \in LabelPads
  BY DEF LabelPads, LabelNames
<1>3. /\ mixed \in Pads /\ ~IsFile(mixed) /\ ducked \in Pads /\ ~IsFile(ducked) /\ heard \in Pads /\ ~IsFile(heard)
      /\ mixed # ducked /\ mixed # heard /\ ducked # heard
  <2>1. mixed # ducked /\ mixed # heard /\ ducked # heard
    OBVIOUS
  <2> HIDE DEF mixed, ducked, heard
  <2> QED  BY <1>2, <2>1, LabelsArePads, LabelsAreNoFiles
<1>4. mixed \notin put1 /\ ducked \notin put1 /\ heard \notin put1 /\ \A i \in 1 .. n : <<"bed", i>> \notin put
  <2>1. mixed \notin KeptPads("bed", n) /\ ducked \notin KeptPads("bed", n) /\ heard \notin KeptPads("bed", n)
    BY DEF KeptPads
  <2>2. \A i \in 1 .. n : <<"bed", i>> \in SoundPads(n)
    BY DEF SoundPads, KeptPads
  <2> QED  BY <2>1, <2>2 DEF SoundPads
<1>5. SoundPads(n) = KeptPads("bed", n) \cup {mixed, ducked, heard}
  BY DEF SoundPads
<1>6. w \o Sounding(n, lo, voice) = w4
  <2> DEFINE f1 == Filter("mix", 0, [i \in 1 .. n |-> <<"bed", i>>], <<mixed>>)
             f2 == Filter("duck", 0, <<mixed, voice>>, <<ducked>>)
             f3 == Filter("mix", 0, <<ducked, voice>>, <<heard>>)
             g == KeptFiles(src, "bed", n)
             T == {g[i] : i \in 1 .. n}
  <2>1. g \in Seq(T)
    <3>1. g \in [1 .. n -> T]
      BY DEF KeptFiles
    <3> HIDE DEF g, T
    <3> QED  BY <3>1
  <2>2. Sounding(n, lo, voice) = g \o <<f1, f2, f3>> /\ w4 = Append(Append(Append(w \o g, f1), f2), f3)
    BY DEF Sounding
  <2>3. w \in Seq(Filters)
    BY DEF Wires, Whole0
  <2> DEFINE s == <<f1, f2, f3>>
             V == {f1, f2, f3}
  <2> HIDE DEF f1, f2, f3, g, T, w4
  <2>4. s \in Seq(V)
    OBVIOUS
  <2> HIDE DEF s, V
  <2>5. w \o (g \o s) = (w \o g) \o s /\ w \o g \in Seq(Filters \cup T)
    BY <2>1, <2>3, <2>4, Regrouped
  <2>6. (w \o g) \o <<f1, f2, f3>> = Append(Append(Append(w \o g, f1), f2), f3)
    BY <2>5, Chain3
  <2> QED  BY <2>2, <2>5, <2>6 DEF s
<1> HIDE DEF src, mixed, ducked, heard, w1
<1>0. PICK o1 : Wires(w1, media, put1, o1) /\ Holds(o1, open, "bed", n, beds)
  BY <1>1, <1>2, <1>4, FilesAreKept DEF w1
<1>7. /\ Wires(w1, media, put1, o1) /\ DOMAIN o1 = DOMAIN open \cup KeptPads("bed", n)
      /\ \A i \in 1 .. n : o1[<<"bed", i>>] = <<beds[i]>>
      /\ \A p \in DOMAIN open : o1[p] = open[p]
  BY <1>0 DEF Holds
<1>8. KeptPads("bed", n) \subseteq DOMAIN o1
  BY <1>7
<1>9. PICK o2 : Wires(w2, media, put1 \cup {mixed}, o2) /\ Swaps(o1, o2, KeptPads("bed", n), {mixed}, beds)
  <2>1. "mix" \in {"concat", "mix"}
    OBVIOUS
  <2> HIDE DEF put1
  <2> QED  BY <1>2, <1>4, <1>7, <1>8, <2>1, ManyToOne
<1>10. DOMAIN open \subseteq put /\ \A p \in KeptPads("bed", n) : p \notin put
  BY <1>5, OpenAreLabels
<1>11. DOMAIN o2 = DOMAIN open \cup {mixed} /\ o2[mixed] = beds /\ \A p \in DOMAIN open : o2[p] = open[p]
  BY <1>7, <1>9, <1>10 DEF Swaps
<1> HIDE DEF w2
<1> DEFINE squeezed == Append(beds, <<"ducked", 0>>)
<1>12. voice \notin DOMAIN o2 /\ Carries(o2, media, voice) = told /\ Carries(o2, media, mixed) = beds
  <2>1. voice \notin DOMAIN o2
    BY <1>9, OpenAreLabels
  <2> QED  BY <1>3, <1>11, <2>1 DEF Carries, Speaks
<1>13. PICK o3 : Wires(w3, media, put1 \cup {mixed} \cup {ducked}, o3)
      /\ Swaps(o2, o3, {mixed, voice}, {ducked}, squeezed)
  <2>1. ducked \notin put1 \cup {mixed} /\ mixed \in DOMAIN o2 /\ mixed # voice
    BY <1>3, <1>4, <1>11
  <2>2. "duck" \in {"fit", "overlay", "mix", "matte", "duck", "cut", "wrap"} /\ 0 \in Nat
    OBVIOUS
  <2> DEFINE all == put1 \cup {mixed}
  <2> HIDE DEF all, put1, w3
  <2>3. PICK o3 : /\ Wires(w3, media, all \cup {ducked}, o3)
                  /\ Swaps(o2, o3, {mixed, voice}, {ducked}, Met("duck", 0, Carries(o2, media, mixed),
                       Carries(o2, media, voice)))
    BY <1>2, <1>3, <1>9, <2>1, <2>2, TwoToOne DEF all, w3
  <2>4. Met("duck", 0, Carries(o2, media, mixed), Carries(o2, media, voice)) = squeezed
    BY <1>12 DEF Met
  <2> QED  BY <2>3, <2>4 DEF all
<1>14. DOMAIN open \subseteq DOMAIN o2 /\ mixed \notin DOMAIN open /\ ducked \notin DOMAIN open
      /\ heard \notin DOMAIN open
       /\ voice \notin DOMAIN open
  BY <1>4, <1>10, <1>11, <1>12
<1>15. DOMAIN o3 = DOMAIN open \cup {ducked} /\ o3[ducked] = squeezed /\ \A p \in DOMAIN open : o3[p] = open[p]
  BY <1>11, <1>12, <1>13, <1>14 DEF Swaps
<1> HIDE DEF w3, squeezed
<1>16. voice \notin DOMAIN o3 /\ Carries(o3, media, voice) = told /\ Carries(o3, media, ducked) = squeezed
  <2>1. voice \notin DOMAIN o3
    BY <1>13, OpenAreLabels
  <2> QED  BY <1>3, <1>15, <2>1 DEF Carries, Speaks
<1>17. PICK o4 : Wires(w4, media, put1 \cup {mixed} \cup {ducked} \cup {heard}, o4)
      /\ Swaps(o3, o4, {ducked, voice}, {heard}, squeezed \o told)
  <2>1. heard \notin put1 \cup {mixed} \cup {ducked} /\ ducked \in DOMAIN o3 /\ ducked # voice
    BY <1>3, <1>4, <1>15
  <2>2. "mix" \in {"fit", "overlay", "mix", "matte", "duck", "cut", "wrap"} /\ 0 \in Nat
    OBVIOUS
  <2> DEFINE all == put1 \cup {mixed} \cup {ducked}
  <2> HIDE DEF all, put1, w4, told
  <2>3. PICK o4 : /\ Wires(w4, media, all \cup {heard}, o4)
                  /\ Swaps(o3, o4, {ducked, voice}, {heard}, Met("mix", 0, Carries(o3, media, ducked),
                       Carries(o3, media, voice)))
    BY <1>2, <1>3, <1>13, <2>1, <2>2, TwoToOne DEF all, w4
  <2>4. Met("mix", 0, Carries(o3, media, ducked), Carries(o3, media, voice)) = squeezed \o told
    BY <1>16 DEF Met
  <2> QED  BY <2>3, <2>4 DEF all
<1>18. DOMAIN o4 = DOMAIN open \cup {heard} /\ o4[heard] = squeezed \o told /\ \A p \in DOMAIN open : o4[p] = open[p]
  BY <1>14, <1>15, <1>16, <1>17 DEF Swaps
<1>19. put1 \cup {mixed} \cup {ducked} \cup {heard} = put \cup SoundPads(n)
  BY <1>5
<1> HIDE DEF w4
<1> QED  BY <1>6, <1>17, <1>18, <1>19 DEF heard, squeezed, Sounds

-----------------------------------------------------------------------------
(* What a graph is while it is made.                                         *)

Jobs == [way : {"scene", "clip", "still", "join"}, troupe : Seq(TroupeCards), order : Seq(Nat), tier : 0 .. 2,
         shaken : BOOLEAN, graded : BOOLEAN, sound : BOOLEAN, stinger : BOOLEAN, clips : Nat]
JobInv ==
  /\ job \in Jobs /\ Sorted(job.troupe, job.order)
  /\ job.way = "join" => job.troupe = << >> /\ ~job.shaken
FeedsInv ==
  /\ feeds \in Seq(Layers) /\ Len(feeds) >= 1
  /\ job.way # "join" => Len(feeds) = Len(job.order) + 1
                         /\ \A k \in 1 .. Len(job.order) : feeds[k + 1] = <<"card", job.order[k]>>
FiguresOf(j) == [i \in DOMAIN j.order |-> FigureOf(j.order[i], j.troupe[j.order[i]].hidden, j.tier)]
UpTo(q, m) == [i \in 1 .. m |-> q[i]]
PictureOf(j, m) ==
  IF j.way = "join" THEN [i \in 1 .. j.clips |-> <<"clip", i>>]
  ELSE << <<"plate", 0>> >> \o FlattenSeq(UpTo(FiguresOf(j), m))
Before(p, m) == p[1] \in {"bg", "cn", "joined"} \/ (p[1] \in CardNames /\ p[2] \in 1 .. m)
Shows(w, media, pad, m, x) ==
  \E put, open : /\ Wires(w, media, put, open) /\ \A p \in put : Before(p, m)
                 /\ DOMAIN open = (IF IsFile(pad) THEN {} ELSE {pad})
                 /\ Carries(open, media, pad) = x
LayInv ==
  /\ job.way # "none" /\ mapped = NotMapped /\ JobInv /\ FeedsInv
  /\ laid \in 0 .. Len(job.order) /\ top \in Pads /\ (Len(job.order) > 0 => ~IsFile(top))
  /\ \A more \in Seq(Layers) : Shows(wires, feeds \o more, top, laid, PictureOf(job, laid))
\* What a whole graph shows and lets hear.
Named(ops) == [i \in 1 .. Len(ops) |-> <<ops[i], 0>>]
Atop(j) ==
  (IF j.shaken THEN <<"shake">> ELSE << >>)
    \o (IF j.graded /\ j.way \in {"scene", "join"} THEN <<"grade">> ELSE << >>)
    \o (IF j.way \in {"scene", "join"} THEN <<"subtitles">> ELSE << >>)
BedsOf(j) == << <<"bgm", 0>>, <<"ambient", 0>> >> \o (IF j.stinger THEN << <<"stinger", 0>> >> ELSE << >>)
WiredIn(w, picture, sound) ==
  /\ \A p \in UNION {ToSet(w[i].to) : i \in DOMAIN w} :
       /\ Cardinality(UsesOf(w, p)) + (IF p \in {picture, sound} THEN 1 ELSE 0) = 1
       /\ Cardinality(PutBy(w, p)) = 1
  /\ InOrder(w)
Told(j, w, media, m) ==
  /\ j \in Jobs /\ Sorted(j.troupe, j.order)
  /\ WiredIn(w, m.picture, m.sound)
  /\ PictureOf(j, Len(j.order)) \in Seq(Layers)
  /\ Carries(Ran(w, media), media, m.picture) = PictureOf(j, Len(j.order)) \o Named(Atop(j))
  /\ j.way \in {"scene", "join"} =>
       Carries(Ran(w, media), media, m.sound)
         = (IF j.sound THEN Append(BedsOf(j), <<"ducked", 0>>) ELSE << >>) \o << <<"narration", 0>> >>
  /\ j.sound => m.timed \/ j.way \notin {"scene", "join"}
GraphInv ==
  \/ job = NoJob /\ feeds = << >> /\ wires = << >> /\ laid = 0 /\ mapped = NotMapped
  \/ LayInv
  \/ job.way # "none" /\ mapped # NotMapped /\ laid = Len(job.order) /\ Told(job, wires, feeds, mapped)

LEMMA GraphBegins == GraphInit => GraphInv
BY DEF GraphInit, GraphInv

LEMMA MoreFiles ==
  ASSUME NEW S, NEW media \in Seq(S), NEW more \in Seq(S)
  PROVE  /\ media \o more \in Seq(S) /\ Len(media \o more) = Len(media) + Len(more)
         /\ \A i \in 1 .. Len(media) : (media \o more)[i] = media[i]
         /\ \A i \in 1 .. Len(more) : (media \o more)[Len(media) + i] = more[i]
<1>1. media \o more \in Seq(S) /\ Len(media \o more) = Len(media) + Len(more)
  BY ConcatProperties
<1>2. \A i \in 1 .. Len(media) : (media \o more)[i] = media[i]
  OBVIOUS
<1>3. \A i \in 1 .. Len(more) : (media \o more)[Len(media) + i] = more[i]
  OBVIOUS
<1> QED  BY <1>1, <1>2, <1>3

LEMMA FileIs ==
  ASSUME NEW S, NEW media \in Seq(S), NEW i \in Nat, i + 1 <= Len(media), NEW name
  PROVE  FileShows(media, <<name, i>>) = <<media[i + 1]>>
<1>1. i + 1 \in DOMAIN media
  OBVIOUS
<1>2. <<name, i>>[2] = i
  OBVIOUS
<1> QED  BY <1>1, <1>2 DEF FileShows

LEMMA FlattenGrows ==
  ASSUME NEW n \in Nat, NEW S, NEW q \in [1 .. n -> Seq(S)], NEW m \in 1 .. n
  PROVE  /\ FlattenSeq(UpTo(q, m - 1)) \in Seq(S)
         /\ FlattenSeq(UpTo(q, m)) = FlattenSeq(UpTo(q, m - 1)) \o q[m]
<1> DEFINE long == UpTo(q, m)
           short == UpTo(q, m - 1)
<1>1. m \in Nat /\ m - 1 \in Nat /\ long \in [1 .. m -> Seq(S)] /\ short \in [1 .. m - 1 -> Seq(S)]
      /\ \A i \in 1 .. m - 1 : long[i] = short[i]
  <2>1. 1 .. m \subseteq 1 .. n /\ 1 .. m - 1 \subseteq 1 .. n /\ 1 .. m - 1 \subseteq 1 .. m
    OBVIOUS
  <2> QED  BY <2>1 DEF UpTo
<1>2. long[m] = q[m]
  BY DEF UpTo
<1> HIDE DEF long, short
<1>3. PICK f \in [0 .. m -> Seq(S)] : Flattens(f, long, m) /\ FlattenSeq(long) = f[m]
  BY <1>1, FlattenedIs
<1>4. PICK g \in [0 .. m - 1 -> Seq(S)] : Flattens(g, short, m - 1) /\ FlattenSeq(short) = g[m - 1]
  BY <1>1, FlattenedIs
<1> DEFINE k == m - 1
           P == {i \in 0 .. k : f[i] = g[i]}
<1>5. 0 \in P
  BY <1>1, <1>3, <1>4 DEF Flattens
<1>6. \A i \in 1 .. k : i - 1 \in P => i \in P
  <2>z. \A i \in 1 .. k : i \in 0 .. k
    BY <1>1
  <2> SUFFICES ASSUME NEW i \in 1 .. k, i - 1 \in P  PROVE f[i] = g[i]
    BY <2>z, Zenon
  <2>1. f[i - 1] = g[i - 1] /\ long[i] = short[i]
    BY <1>1
  <2>2. i \in 1 .. m
    BY <1>1
  <2>3. f[i] = f[i - 1] \o long[i] /\ g[i] = g[i - 1] \o short[i]
    BY <1>3, <1>4, <2>2 DEF Flattens
  <2> QED  BY <2>1, <2>3
<1> HIDE DEF P
<1>7. \A i \in 0 .. k : i \in P
  BY <1>1, <1>5, <1>6, FromEachToTheNext
<1>8. f[m - 1] = g[m - 1]
  <2>1. k \in 0 .. k
    BY <1>1
  <2> QED  BY <1>7, <2>1 DEF P
<1>9. f[m] = f[m - 1] \o long[m]
  <2>1. m \in 1 .. m
    BY <1>1
  <2> QED  BY <1>3, <2>1 DEF Flattens
<1>10. g[m - 1] \in Seq(S)
  <2>1. m - 1 \in 0 .. m - 1
    BY <1>1
  <2> QED  BY <1>4, <2>1
<1> QED  BY <1>2, <1>3, <1>4, <1>8, <1>9, <1>10 DEF long, short

LEMMA NothingFlattened ==
  ASSUME NEW q
  PROVE  FlattenSeq(UpTo(q, 0)) = << >>
<1>1. UpTo(q, 0) \in [1 .. 0 -> Seq({})]
  BY DEF UpTo
<1> DEFINE s == UpTo(q, 0)
<1> HIDE DEF s
<1>2. PICK f \in [0 .. 0 -> Seq({})] : Flattens(f, s, 0) /\ FlattenSeq(s) = f[0]
  BY <1>1, FlattenedIs DEF s
<1> QED  BY <1>2 DEF Flattens, s

LEMMA FiguresAre ==
  ASSUME NEW j \in Jobs, Sorted(j.troupe, j.order)
  PROVE  /\ Len(j.order) \in Nat /\ DOMAIN j.order = 1 .. Len(j.order) /\ Len(j.troupe) = Len(j.order)
         /\ \A k \in 1 .. Len(j.order) : j.order[k] \in Nat /\ j.order[k] \in DOMAIN j.troupe
                                         /\ j.troupe[j.order[k]].hidden \in BOOLEAN
         /\ FiguresOf(j) \in [1 .. Len(j.order) -> Seq(Layers)]
<1> DEFINE n == Len(j.order)
<1>1. j.order \in Seq(Nat) /\ j.troupe \in Seq(TroupeCards) /\ j.tier \in 0 .. 2
  BY DEF Jobs
<1>2. n \in Nat /\ DOMAIN j.order = 1 .. n /\ \A k \in 1 .. n : j.order[k] \in Nat
  BY <1>1
<1>3. DOMAIN j.order = DOMAIN j.troupe /\ \A k \in DOMAIN j.order : j.order[k] \in DOMAIN j.troupe
  BY DEF Sorted
<1>4. Len(j.troupe) = n
  <2>1. Len(j.troupe) \in Nat /\ DOMAIN j.troupe = 1 .. Len(j.troupe)
    BY <1>1
  <2>2. 1 .. n = 1 .. Len(j.troupe)
    BY <1>2, <1>3, <2>1
  <2> HIDE DEF n
  <2> QED  BY <1>2, <2>1, <2>2
<1>5. \A k \in 1 .. n : j.troupe[j.order[k]].hidden \in BOOLEAN
  <2> TAKE k \in 1 .. n
  <2>1. j.troupe[j.order[k]] \in TroupeCards
    BY <1>1, <1>2, <1>3
  <2> QED  BY <2>1 DEF TroupeCards
<1>6. ASSUME NEW who \in Nat, NEW hidden, NEW tier  PROVE FigureOf(who, hidden, tier) \in Seq(Layers)
  <2> DEFINE a == <<"shadow", who>>
             b == <<"card", who>>
             c == <<"cut", who>>
             d == <<"wrap", who>>
  <2>1. a \in Layers /\ b \in Layers /\ c \in Layers /\ d \in Layers
    BY DEF Layers, LayerNames, Ops
  <2>2. FigureOf(who, hidden, tier) =
          (((IF tier >= 1 THEN <<a>> ELSE << >>) \o <<b>>) \o (IF hidden THEN <<c>> ELSE << >>)) \o (IF tier >= 2 THEN <<d>> ELSE << >>)
    BY DEF FigureOf
  <2> HIDE DEF a, b, c, d, Layers
  <2>3. (IF tier >= 1 THEN <<a>> ELSE << >>) \in Seq(Layers) /\ <<b>> \in Seq(Layers)
        /\ (IF hidden THEN <<c>> ELSE << >>) \in Seq(Layers) /\ (IF tier >= 2 THEN <<d>> ELSE << >>) \in Seq(Layers)
    <3>1. <<a>> \in Seq(Layers) /\ <<b>> \in Seq(Layers) /\ <<c>> \in Seq(Layers) /\ <<d>> \in Seq(Layers)
          /\ << >> \in Seq(Layers)
      BY <2>1
    <3> QED  BY <3>1
  <2> DEFINE A == IF tier >= 1 THEN <<a>> ELSE << >>
             B == <<b>>
             C == IF hidden THEN <<c>> ELSE << >>
             D == IF tier >= 2 THEN <<d>> ELSE << >>
  <2>4. FigureOf(who, hidden, tier) = ((A \o B) \o C) \o D /\ A \in Seq(Layers) /\ B \in Seq(Layers)
        /\ C \in Seq(Layers) /\ D \in Seq(Layers)
    BY <2>2, <2>3
  <2> HIDE DEF A, B, C, D
  <2>5. A \o B \in Seq(Layers)
    BY <2>4, ConcatProperties
  <2>6. (A \o B) \o C \in Seq(Layers)
    BY <2>4, <2>5, ConcatProperties
  <2>7. ((A \o B) \o C) \o D \in Seq(Layers)
    BY <2>4, <2>6, ConcatProperties
  <2> QED  BY <2>4, <2>7
<1>7. FiguresOf(j) \in [1 .. n -> Seq(Layers)]
  <2>1. \A k \in 1 .. n : FigureOf(j.order[k], j.troupe[j.order[k]].hidden, j.tier) \in Seq(Layers)
    BY <1>2, <1>6
  <2> HIDE DEF n
  <2> QED  BY <1>2, <2>1 DEF FiguresOf
<1> QED  BY <1>2, <1>3, <1>4, <1>5, <1>7

-----------------------------------------------------------------------------
(* A job is begun.                                                           *)

LEMMA Composed ==
  ASSUME NEW way \in {"scene", "clip", "still"}, NEW troupe \in Troupes, NEW tier \in 0 .. 2, NEW seen \in Seen,
         Compose(way, troupe, tier, seen), GraphInv
  PROVE  LayInv'
<1> DEFINE j == [way |-> way, troupe |-> troupe, order |-> Ordered(troupe), tier |-> tier,
                 shaken |-> way # "still" /\ seen.shaken, graded |-> seen.graded,
                 sound |-> seen.sound, stinger |-> seen.stinger, clips |-> 0]
           order == Ordered(troupe)
           floor == <<"plate", 0>>
           n == Len(troupe)
           v == <<"v", 0>>
           bg == <<"bg", 0>>
<1>1. job.way = "none" /\ job' = j /\ laid' = laid /\ mapped' = mapped
  BY DEF Compose
<1>2. laid = 0 /\ mapped = NotMapped
  BY <1>1 DEF GraphInv, LayInv
<1>3. troupe \in Seq(TroupeCards)
  BY TroupesKnown DEF TroupeCards
<1>4. Sorted(troupe, order)
  BY <1>3, OrderedIsSorted
<1>5. n \in Nat /\ DOMAIN troupe = 1 .. n
  BY <1>3
<1>6. order \in [1 .. n -> 1 .. n] /\ order \in Seq(Nat) /\ Len(order) = n
  <2>1. order \in [1 .. n -> 1 .. n]
    BY <1>4, <1>5 DEF Sorted
  <2> HIDE DEF order, n
  <2>2. order \in [1 .. n -> Nat]
    BY <1>5, <2>1
  <2> QED  BY <1>5, <2>1, <2>2
<1>7. j \in Jobs
  <2>1. seen.shaken \in BOOLEAN /\ seen.graded \in BOOLEAN /\ seen.sound \in BOOLEAN /\ seen.stinger \in BOOLEAN
    BY DEF Seen
  <2> HIDE DEF order
  <2> QED  BY <1>3, <1>6, <2>1 DEF Jobs, order
<1>8. JobInv'
  <2>1. j \in Jobs /\ Sorted(j.troupe, j.order) /\ j.way # "join"
    BY <1>4, <1>7
  <2> HIDE DEF j
  <2> QED  BY <1>1, <2>1 DEF JobInv
<1> DEFINE crowd == [i \in 1 .. n |-> <<"card", order[i]>>]
<1>9. feeds' = <<floor>> \o crowd
  BY <1>5 DEF Compose
<1>10. floor \in Layers /\ crowd \in Seq(Layers) /\ Len(crowd) = n
  <2>1. floor \in Layers /\ \A i \in 1 .. n : <<"card", order[i]>> \in Layers
    <3>1. \A i \in 1 .. n : order[i] \in Nat
      BY <1>6
    <3>2. "plate" \in LayerNames /\ "card" \in LayerNames
      BY DEF LayerNames
    <3> QED  BY <3>1, <3>2 DEF Layers
  <2> HIDE DEF Layers, n, floor, order
  <2> QED  BY <1>5, <2>1
<1>11. /\ feeds' \in Seq(Layers) /\ Len(feeds') = n + 1 /\ feeds'[1] = floor
       /\ \A k \in 1 .. n : feeds'[k + 1] = <<"card", order[k]>>
  <2>1. \A k \in 1 .. n : crowd[k] = <<"card", order[k]>>
    OBVIOUS
  <2> DEFINE s == <<floor>>
  <2> HIDE DEF Layers, floor, crowd, n, order
  <2>2. s \in Seq(Layers) /\ Len(s) = 1 /\ s[1] = floor
    BY <1>10
  <2> HIDE DEF s
  <2>3. /\ s \o crowd \in Seq(Layers) /\ Len(s \o crowd) = 1 + n
        /\ \A i \in 1 .. 1 : (s \o crowd)[i] = s[i]
        /\ \A i \in 1 .. n : (s \o crowd)[1 + i] = crowd[i]
    <3>0. s \in Seq(Layers) /\ crowd \in Seq(Layers)
      BY <1>10, <2>2
    <3>1. /\ s \o crowd \in Seq(Layers) /\ Len(s \o crowd) = Len(s) + Len(crowd)
          /\ \A i \in 1 .. Len(s) : (s \o crowd)[i] = s[i]
          /\ \A i \in 1 .. Len(crowd) : (s \o crowd)[Len(s) + i] = crowd[i]
      BY ONLY <3>0, MoreFiles
    <3>2. Len(s) = 1 /\ Len(crowd) = n
      BY <1>10, <2>2
    <3> QED  BY <3>1, <3>2
  <2>4. feeds' = s \o crowd
    BY <1>9 DEF s
  <2>5. \A k \in 1 .. n : 1 + k = k + 1
    BY <1>5
  <2>6. 1 + n = n + 1 /\ 1 \in 1 .. 1
    BY <1>5
  <2> QED  BY <2>1, <2>2, <2>3, <2>4, <2>5, <2>6
<1>12. FeedsInv'
  <2>1. job'.order = order /\ Len(order) = n /\ n + 1 >= 1
    BY <1>1, <1>5, <1>6
  <2> HIDE DEF n, order
  <2> QED  BY <1>11, <2>1 DEF FeedsInv
<1>13. PictureOf(j, 0) = <<floor>>
  <2>1. PictureOf(j, 0) = <<floor>> \o << >>
    <3>1. j.way # "join"
      OBVIOUS
    <3> HIDE DEF j
    <3> QED  BY <3>1, NothingFlattened DEF PictureOf
  <2>2. <<floor>> \in Seq(Layers)
    <3> HIDE DEF Layers, floor
    <3> QED  BY <1>10
  <2> QED  BY <2>1, <2>2, ConcatEmptySeq
<1> HIDE DEF floor, j, crowd
<1>14. ASSUME NEW more \in Seq(Layers)
       PROVE  /\ feeds' \o more \in Seq(Layers) /\ FileShows(feeds' \o more, v) = <<floor>>
  <2> DEFINE old == feeds'
             media == old \o more
  <2>1. old \in Seq(Layers) /\ Len(old) = n + 1 /\ old[1] = floor /\ Len(more) \in Nat
    BY <1>11
  <2> HIDE DEF old, Layers
  <2>2. media \in Seq(Layers) /\ Len(media) = n + 1 + Len(more) /\ media[1] = floor
    <3>1. media \in Seq(Layers) /\ Len(media) = Len(old) + Len(more) /\ \A i \in 1 .. Len(old) : media[i] = old[i]
      BY <2>1, MoreFiles
    <3>2. 1 \in 1 .. n + 1
      BY <1>5
    <3> QED  BY <2>1, <3>1, <3>2
  <2> HIDE DEF media
  <2>3. FileShows(media, v) = <<media[0 + 1]>>
    <3>1. 0 + 1 <= Len(media) /\ 0 \in Nat
      BY <1>5, <2>1, <2>2
    <3> QED  BY <2>2, <3>1, FileIs
  <2> QED  BY <2>2, <2>3 DEF media, old
<1>15. v \in Pads /\ IsFile(v) /\ bg \in LabelPads /\ bg \in Pads /\ ~IsFile(bg) /\ Before(bg, 0)
  <2>1. bg \in LabelPads
    BY DEF LabelPads, LabelNames
  <2>2. Before(bg, 0)
    BY DEF Before
  <2> QED  BY <2>1, <2>2, LabelsArePads, LabelsAreNoFiles
<1>16. CASE troupe = << >>
  <2>1. wires' = << >> /\ top' = v
    BY <1>16 DEF Compose
  <2>2. n = 0 /\ Len(job'.order) = 0
    <3>1. n = 0
      BY <1>16
    <3>2. job'.order = order
      BY <1>1 DEF j
    <3> QED  BY <1>6, <3>1, <3>2
  <2>3. ASSUME NEW more \in Seq(Layers)  PROVE Shows(wires', feeds' \o more, top', laid', PictureOf(job', laid'))
    <3>1. Wires(<< >>, feeds' \o more, {}, << >>)
      BY <1>14, Unwired
    <3>2. Carries(<< >>, feeds' \o more, v) = <<floor>>
      BY <1>14, <1>15 DEF Carries
    <3>3. DOMAIN << >> = {}
      OBVIOUS
    <3> HIDE DEF v
    <3> QED  BY <1>1, <1>2, <1>13, <1>15, <2>1, <3>1, <3>2, <3>3 DEF Shows
  <2>4. laid' \in 0 .. Len(job'.order) /\ top' \in Pads /\ ~(Len(job'.order) > 0)
    BY <1>1, <1>2, <1>15, <2>1, <2>2
  <2>5. job'.way # "none" /\ mapped' = NotMapped
    BY <1>1, <1>2 DEF j
  <2> HIDE DEF v
  <2> QED  BY <1>8, <1>12, <2>3, <2>4, <2>5 DEF LayInv
<1>17. CASE troupe # << >>
  <2> DEFINE f == Filter("keep", 0, <<v>>, <<bg>>)
  <2>1. wires' = <<f>> /\ top' = bg
    BY <1>17 DEF Compose
  <2>2. ASSUME NEW more \in Seq(Layers)  PROVE Shows(wires', feeds' \o more, top', laid', PictureOf(job', laid'))
    <3> DEFINE media == feeds' \o more
    <3>1. Wires(<< >>, media, {}, << >>)
      BY <1>14, Unwired
    <3>2. "keep" \in Ops \ {"fit", "overlay", "mix", "concat", "duck"} /\ 0 \in Nat /\ bg \notin {}
      BY DEF Ops
    <3> HIDE DEF media, v, bg
    <3>3. PICK next : /\ Wires(Append(<< >>, f), media, {} \cup {bg}, next)
                      /\ Swaps(<< >>, next, {v}, {bg}, Made("keep", 0, Carries(<< >>, media, v)))
      BY <1>15, <3>1, <3>2, OneToOne
    <3>4. Made("keep", 0, Carries(<< >>, media, v)) = <<floor>>
      BY <1>14, <1>15 DEF Made, Carries, media
    <3>5. DOMAIN next = {bg} /\ next[bg] = <<floor>>
      <4>1. DOMAIN << >> = {}
        OBVIOUS
      <4> QED  BY <3>3, <3>4, <4>1 DEF Swaps
    <3>6. Append(<< >>, f) = <<f>>
      <4> HIDE DEF f
      <4> QED  OBVIOUS
    <3>7. Carries(next, media, bg) = <<floor>>
      BY <1>15, <3>5 DEF Carries
    <3> HIDE DEF f
    <3>8. Wires(wires', media, {bg}, next)
      BY <2>1, <3>3, <3>6
    <3> QED  BY <1>1, <1>2, <1>13, <1>15, <2>1, <3>5, <3>7, <3>8 DEF Shows, media
  <2>3. laid' \in 0 .. Len(job'.order) /\ top' \in Pads /\ ~IsFile(top')
    <3>1. job'.order = order
      BY <1>1 DEF j
    <3> HIDE DEF order, n, bg
    <3> QED  BY <1>1, <1>2, <1>5, <1>6, <1>15, <2>1, <3>1
  <2>4. job'.way # "none" /\ mapped' = NotMapped
    BY <1>1, <1>2 DEF j
  <2> QED  BY <1>8, <1>12, <2>2, <2>3, <2>4 DEF LayInv
<1> QED  BY <1>16, <1>17

LEMMA NothingIsSorted == Sorted(<< >>, << >>)
<1>1. DOMAIN << >> = {} /\ ToSet(<< >>) = {}
  BY DEF ToSet
<1> QED  BY <1>1 DEF Sorted

LEMMA ClipsJoined ==
  ASSUME NEW clips \in 2 .. MostClips, NEW seen \in Seen, JoinClips(clips, seen), GraphInv
  PROVE  LayInv'
<1> DEFINE j == [way |-> "join", troupe |-> << >>, order |-> << >>, tier |-> 0, shaken |-> FALSE,
                 graded |-> seen.graded, sound |-> seen.sound, stinger |-> seen.stinger, clips |-> clips]
           x == [i \in 1 .. clips |-> <<"clip", i>>]
           src == [i \in 1 .. clips |-> <<"v", i - 1>>]
           c == <<"joined", 0>>
           cn == "cn"
           K == KeptFiles(src, cn, clips)
           g == Filter("concat", 0, [i \in 1 .. clips |-> <<cn, i>>], <<c>>)
<1>1. job.way = "none" /\ job' = j /\ feeds' = x /\ top' = c /\ laid' = laid /\ mapped' = mapped
  BY DEF JoinClips
<1>2. laid = 0 /\ mapped = NotMapped
  BY <1>1 DEF GraphInv, LayInv
<1>3. clips \in Nat /\ clips >= 1
  BY ClipsBounded
<1>4. j \in Jobs /\ Sorted(j.troupe, j.order) /\ j.troupe = << >> /\ ~j.shaken /\ j.way = "join" /\ Len(j.order) = 0
  <2>1. seen.graded \in BOOLEAN /\ seen.sound \in BOOLEAN /\ seen.stinger \in BOOLEAN
    BY DEF Seen
  <2>2. << >> \in Seq(TroupeCards) /\ << >> \in Seq(Nat)
    OBVIOUS
  <2>3. j \in Jobs
    BY <1>3, <2>1, <2>2 DEF Jobs
  <2>4. Len(j.order) = 0 /\ j.troupe = << >> /\ j.order = << >> /\ j.way = "join" /\ ~j.shaken
    OBVIOUS
  <2> HIDE DEF j
  <2> QED  BY <2>3, <2>4, NothingIsSorted
<1>5. x \in [1 .. clips -> Layers] /\ x \in Seq(Layers) /\ Len(x) = clips
      /\ \A i \in 1 .. clips : x[i] = <<"clip", i>>
  <2>1. \A i \in 1 .. clips : <<"clip", i>> \in Layers
    <3>1. "clip" \in LayerNames
      BY DEF LayerNames
    <3> QED  BY <1>3, <3>1 DEF Layers
  <2> HIDE DEF Layers
  <2> QED  BY <1>3, <2>1
<1>6. wires' = K \o <<g>>
  <2>1. \A i \in 1 .. clips : src[i] = <<"v", i - 1>>
    OBVIOUS
  <2> HIDE DEF src
  <2>2. K = [i \in 1 .. clips |-> Filter("keep", 0, << <<"v", i - 1>> >>, << <<"cn", i>> >>)]
    BY <2>1 DEF KeptFiles
  <2> HIDE DEF K
  <2> QED  BY <2>2 DEF JoinClips
<1>7. src \in [1 .. clips -> {"v", "a"} \X Nat]
  BY <1>3
<1>8. c \in LabelPads /\ c \in Pads /\ ~IsFile(c) /\ Before(c, 0) /\ cn \in LabelNames /\ cn # "joined"
  <2>1. c \in LabelPads /\ cn \in LabelNames /\ cn # "joined"
    BY DEF LabelPads, LabelNames
  <2>2. Before(c, 0)
    BY DEF Before
  <2> QED  BY <2>1, <2>2, LabelsArePads, LabelsAreNoFiles
<1>9. \A p \in KeptPads(cn, clips) : Before(p, 0) /\ p # c
  BY <1>8 DEF KeptPads, Before
<1>10. PictureOf(j, 0) = x
  BY <1>4 DEF PictureOf
<1>11. K \in Seq({K[i] : i \in 1 .. clips})
  <2>1. K \in [1 .. clips -> {K[i] : i \in 1 .. clips}]
    BY DEF KeptFiles
  <2> HIDE DEF K
  <2> QED  BY <1>3, <2>1
<1> DEFINE pads == [i \in 1 .. clips |-> <<cn, i>>]
<1> HIDE DEF x, j, src, c, cn, K
<1>12. ASSUME NEW more \in Seq(Layers)  PROVE Shows(wires', feeds' \o more, top', laid', PictureOf(job', laid'))
  <2> DEFINE media == x \o more
  <2>1. media \in Seq(Layers) /\ Len(media) = clips + Len(more) /\ \A i \in 1 .. clips : media[i] = x[i]
    <3>1. /\ x \o more \in Seq(Layers) /\ Len(x \o more) = Len(x) + Len(more)
          /\ \A i \in 1 .. Len(x) : (x \o more)[i] = x[i]
      BY <1>5, MoreFiles
    <3> QED  BY <1>5, <3>1
  <2> HIDE DEF media
  <2>2. \A i \in 1 .. clips : FileShows(media, src[i]) = <<x[i]>>
    <3> TAKE i \in 1 .. clips
    <3>1. i - 1 \in Nat /\ (i - 1) + 1 <= Len(media) /\ (i - 1) + 1 = i /\ Len(more) \in Nat
      BY <1>3, <2>1
    <3>2. src[i] = <<"v", i - 1>>
      BY DEF src
    <3> DEFINE l == i - 1
    <3> HIDE DEF l
    <3>3. FileShows(media, <<"v", l>>) = <<media[l + 1]>>
      BY <2>1, <3>1, FileIs DEF l
    <3> QED  BY <2>1, <3>1, <3>2, <3>3 DEF l
  <2>3. Wires(<< >>, media, {}, << >>)
    BY <2>1, Unwired
  <2>4. \A i \in 1 .. clips : <<cn, i>> \notin {}
    OBVIOUS
  <2>5. PICK open : /\ Wires(<< >> \o K, media, {} \cup KeptPads(cn, clips), open)
                    /\ Holds(open, << >>, cn, clips, x)
    <3> DEFINE none == << >>
    <3>1. Wires(none, media, {}, none)
      BY <2>3
    <3> HIDE DEF none
    <3>2. \E next : /\ Wires(none \o KeptFiles(src, cn, clips), media, {} \cup KeptPads(cn, clips), next)
                    /\ Holds(next, none, cn, clips, x)
      BY <1>3, <1>7, <1>8, <2>2, <2>4, <3>1, FilesAreKept
    <3> QED  BY <3>2 DEF K, none
  <2>6. DOMAIN open = KeptPads(cn, clips) /\ \A i \in 1 .. clips : open[<<cn, i>>] = <<x[i]>>
    <3>1. DOMAIN << >> = {}
      OBVIOUS
    <3> QED  BY <2>5, <3>1 DEF Holds
  <2>7. << >> \o K = K
    BY <1>11, ConcatEmptySeq
  <2>8. Wires(K, media, KeptPads(cn, clips), open)
    <3>1. {} \cup KeptPads(cn, clips) = KeptPads(cn, clips)
      OBVIOUS
    <3> QED  BY <2>5, <2>7, <3>1
  <2>9. KeptPads(cn, clips) \subseteq DOMAIN open /\ c \notin KeptPads(cn, clips) /\ "concat" \in {"concat", "mix"}
    BY <1>9, <2>6
  <2>10. PICK next : /\ Wires(Append(K, g), media, KeptPads(cn, clips) \cup {c}, next)
                     /\ Swaps(open, next, KeptPads(cn, clips), {c}, x)
    BY <1>3, <1>5, <1>8, <2>6, <2>8, <2>9, ManyToOne
  <2>11. DOMAIN next = {c} /\ next[c] = x
    BY <2>6, <2>10 DEF Swaps
  <2>12. wires' = Append(K, g)
    <3> HIDE DEF g
    <3> QED  BY <1>6, <1>11
  <2>13. Carries(next, media, c) = x
    BY <1>8, <2>11 DEF Carries
  <2>14. \A p \in KeptPads(cn, clips) \cup {c} : Before(p, 0)
    BY <1>8, <1>9
  <2> HIDE DEF g
  <2>15. Shows(Append(K, g), media, c, 0, x)
    BY <1>8, <2>10, <2>11, <2>13, <2>14 DEF Shows
  <2> QED  BY <1>1, <1>2, <1>10, <2>12, <2>15 DEF media
<1>13. JobInv'
  BY <1>1, <1>4 DEF JobInv
<1>14. FeedsInv'
  BY <1>1, <1>3, <1>4, <1>5 DEF FeedsInv
<1>15. laid' \in 0 .. Len(job'.order) /\ top' \in Pads /\ job'.way # "none" /\ mapped' = NotMapped
      /\ ~(Len(job'.order) > 0)
  BY <1>1, <1>2, <1>4, <1>8
<1> QED  BY <1>12, <1>13, <1>14, <1>15 DEF LayInv

-----------------------------------------------------------------------------
(* A card is laid.                                                           *)

LEMMA PictureGrows ==
  ASSUME NEW j \in Jobs, Sorted(j.troupe, j.order), j.way # "join", NEW m \in 1 .. Len(j.order)
  PROVE  PictureOf(j, m) = PictureOf(j, m - 1) \o FigureOf(j.order[m], j.troupe[j.order[m]].hidden, j.tier)
<1> DEFINE n == Len(j.order)
           q == FiguresOf(j)
           floor == << <<"plate", 0>> >>
           A == FlattenSeq(UpTo(q, m - 1))
           B == q[m]
<1>1. n \in Nat /\ q \in [1 .. n -> Seq(Layers)] /\ m \in 1 .. n
  BY FiguresAre
<1>2. B = FigureOf(j.order[m], j.troupe[j.order[m]].hidden, j.tier)
  BY FiguresAre DEF FiguresOf
<1>3. floor \in Seq(Layers)
  <2> DEFINE p == <<"plate", 0>>
  <2>1. p \in Layers
    <3>1. "plate" \in LayerNames
      BY DEF LayerNames
    <3> QED  BY <3>1 DEF Layers
  <2> HIDE DEF p, Layers
  <2>2. <<p>> \in Seq(Layers)
    BY <2>1
  <2> QED  BY <2>2 DEF p
<1>4. PictureOf(j, m) = floor \o FlattenSeq(UpTo(q, m)) /\ PictureOf(j, m - 1) = floor \o A
  BY DEF PictureOf
<1> HIDE DEF n, q, floor, Layers
<1>5. A \in Seq(Layers) /\ FlattenSeq(UpTo(q, m)) = A \o B
  BY <1>1, FlattenGrows
<1>6. B \in Seq(Layers)
  BY <1>1
<1> HIDE DEF A, B
<1>7. floor \o (A \o B) = (floor \o A) \o B
  <2>1. floor \in Seq(Layers) /\ A \in Seq(Layers) /\ B \in Seq(Layers)
    BY <1>3, <1>5, <1>6
  <2> QED  BY ONLY <2>1, ConcatAssociative
<1> QED  BY <1>2, <1>4, <1>5, <1>7

LEMMA LaysOn ==
  ASSUME Lay, LayInv
  PROVE  LayInv'
<1> DEFINE k == laid + 1
           who == job.order[k]
           hidden == job.troupe[who].hidden
           tier == job.tier
           o == <<"o", k>>
           F == FigureOf(who, hidden, tier)
           old == PictureOf(job, laid)
           v == <<"v", k>>
<1>1. job.way # "join" /\ laid < Len(job.order) /\ top' = o /\ laid' = k
      /\ job' = job /\ feeds' = feeds /\ mapped' = mapped
  BY DEF Lay
<1>2. job.way # "none" /\ mapped = NotMapped /\ JobInv /\ FeedsInv /\ laid \in 0 .. Len(job.order) /\ top \in Pads
      /\ (Len(job.order) > 0 => ~IsFile(top))
  BY DEF LayInv
<1>3. job \in Jobs /\ Sorted(job.troupe, job.order)
  BY <1>2 DEF JobInv
<1>4. Len(job.order) \in Nat /\ laid \in Nat /\ k \in Nat /\ k \in 1 .. Len(job.order) /\ k - 1 = laid /\ ~IsFile(top)
  BY <1>1, <1>2, <1>3, FiguresAre
<1>5. who \in Nat /\ hidden \in BOOLEAN /\ tier \in 0 .. 2
  <2>1. who \in Nat /\ hidden \in BOOLEAN
    BY <1>3, <1>4, FiguresAre
  <2>2. tier \in 0 .. 2
    BY <1>3 DEF Jobs
  <2> QED  BY <2>1, <2>2
<1>6. PictureOf(job, k) = old \o F
  BY <1>1, <1>3, <1>4, PictureGrows
<1>7. wires' = Laid(wires, k, who, hidden, tier, top)
  BY DEF Lay, Laid, Masked, SpriteOf, Grounded, UnderCard, OverCard
<1>8. feeds \in Seq(Layers) /\ Len(feeds) = Len(job.order) + 1 /\ feeds[k + 1] = <<"card", who>>
  BY <1>1, <1>2, <1>4 DEF FeedsInv
<1>9. o \in LabelPads /\ o \in Pads /\ ~IsFile(o)
  <2>1. o \in LabelPads
    BY <1>4 DEF LabelPads, LabelNames, CardNames
  <2> QED  BY <2>1, LabelsArePads, LabelsAreNoFiles
<1>10. \A p \in CardPads(k) : Before(p, k) /\ ~Before(p, laid)
  <2> TAKE p \in CardPads(k)
  <2>1. p[1] \in CardNames /\ p[2] = k
    BY DEF CardPads
  <2>2. p[1] \notin {"bg", "cn", "joined"}
    BY <2>1 DEF CardNames
  <2>3. k \in 1 .. k /\ k \notin 1 .. laid
    BY <1>4
  <2> QED  BY <2>1, <2>2, <2>3 DEF Before
<1>11. \A p : Before(p, laid) => Before(p, k)
  BY <1>4 DEF Before
<1> HIDE DEF k, who, hidden, tier, o, F, old, v
<1>12. ASSUME NEW more \in Seq(Layers)  PROVE Shows(wires', feeds' \o more, top', laid', PictureOf(job', laid'))
  <2> DEFINE media == feeds \o more
  <2>1. media \in Seq(Layers) /\ Len(media) = Len(feeds) + Len(more) /\ media[k + 1] = feeds[k + 1]
    <3>1. /\ feeds \o more \in Seq(Layers) /\ Len(feeds \o more) = Len(feeds) + Len(more)
          /\ \A i \in 1 .. Len(feeds) : (feeds \o more)[i] = feeds[i]
      BY <1>8, MoreFiles
    <3>2. k + 1 \in 1 .. Len(feeds)
      BY <1>4, <1>8
    <3> QED  BY <3>1, <3>2
  <2>2. Shows(wires, media, top, laid, old)
    BY DEF LayInv, old
  <2> HIDE DEF media
  <2>3. PICK put, open : /\ Wires(wires, media, put, open) /\ \A p \in put : Before(p, laid)
                         /\ DOMAIN open = {top} /\ Carries(open, media, top) = old
    BY <1>4, <2>2 DEF Shows
  <2>4. open[top] = old
    BY <1>4, <2>3 DEF Carries
  <2>5. \A p \in CardPads(k) : p \notin put
    BY <1>10, <2>3
  <2>6. FileShows(media, v) = << <<"card", who>> >>
    <3>1. k + 1 <= Len(media) /\ Len(more) \in Nat
      BY <1>4, <1>8, <2>1
    <3>2. FileShows(media, <<"v", k>>) = <<media[k + 1]>>
      BY <1>4, <2>1, <3>1, FileIs
    <3> QED  BY <1>8, <2>1, <3>2 DEF v
  <2>7. CardFile(media, k, who)
    BY <2>6 DEF CardFile, v
  <2> DEFINE pic == open[top] \o F
  <2> HIDE DEF pic
  <2>8. GoesOn(wires', media, put, k, pic)
    <3>1. Wires(wires, media, put, open) /\ DOMAIN open = {top}
      BY <2>3
    <3>2. GoesOn(Laid(wires, k, who, hidden, tier, top), media, put, k, open[top] \o FigureOf(who, hidden, tier))
      BY ONLY <1>4, <1>5, <2>5, <2>7, <3>1, CardIsLaid
    <3> QED  BY <1>7, <3>2 DEF pic, F
  <2>9. PICK all, next :
           /\ Wires(wires', media, all, next) /\ all \subseteq put \cup CardPads(k)
           /\ DOMAIN next = {<<"o", k>>} /\ next[<<"o", k>>] = pic
    BY <2>8 DEF GoesOn
  <2>10. DOMAIN next = {o} /\ next[o] = PictureOf(job, k)
    BY <1>6, <2>4, <2>9 DEF o, pic
  <2>11. \A p \in all : Before(p, k)
    BY <1>10, <1>11, <2>3, <2>9
  <2>12. Carries(next, media, o) = PictureOf(job, k)
    BY <1>9, <2>10 DEF Carries
  <2>13. Shows(wires', media, o, k, PictureOf(job, k))
    BY <1>9, <2>9, <2>10, <2>11, <2>12 DEF Shows
  <2> QED  BY <1>1, <2>13 DEF media
<1>13. JobInv' /\ FeedsInv'
  BY <1>1, <1>2 DEF JobInv, FeedsInv
<1>14. laid' \in 0 .. Len(job'.order) /\ top' \in Pads /\ job'.way # "none" /\ mapped' = NotMapped /\ ~IsFile(top')
  BY <1>1, <1>2, <1>4, <1>9
<1> QED  BY <1>12, <1>13, <1>14 DEF LayInv

-----------------------------------------------------------------------------
(* The graph is made whole.                                                  *)

LEMMA WiredAtLast ==
  ASSUME NEW w, NEW media, NEW put, NEW open, Wires(w, media, put, open), NEW picture, NEW sound,
         \A p \in put : p \in DOMAIN open <=> p \in {picture, sound}
  PROVE  WiredIn(w, picture, sound)
<1>1. put = UNION {ToSet(w[i].to) : i \in DOMAIN w} /\ \A p \in put : \E i \in DOMAIN w : PutBy(w, p) = {i}
  BY DEF Wires, PutOnce
<1>2. InOrder(w)
  BY DEF Wires
<1>3. ASSUME NEW p \in put
      PROVE  Cardinality(UsesOf(w, p)) + (IF p \in {picture, sound} THEN 1 ELSE 0) = 1 /\ Cardinality(PutBy(w, p)) = 1
  <2>1. Cardinality(PutBy(w, p)) = 1
    BY <1>1, FS_Singleton
  <2>2. CASE p \in DOMAIN open
    <3>1. Cardinality(UsesOf(w, p)) = 0
      BY <2>2, FS_EmptySet DEF Wires, TakenOnce
    <3>2. p \in {picture, sound}
      BY <2>2
    <3> QED  BY <2>1, <3>1, <3>2
  <2>3. CASE p \notin DOMAIN open
    <3>1. Cardinality(UsesOf(w, p)) = 1
      BY <2>3, FS_Singleton DEF Wires, TakenOnce
    <3>2. p \notin {picture, sound}
      BY <2>3
    <3> QED  BY <2>1, <3>1, <3>2
  <2> QED  BY <2>2, <2>3
<1> QED  BY <1>1, <1>2, <1>3 DEF WiredIn

LEMMA CarriedAtLast ==
  ASSUME NEW w, NEW media, NEW put, NEW open, Wires(w, media, put, open), NEW pad, IsFile(pad) \/ pad \in DOMAIN open
  PROVE  Carries(Ran(w, media), media, pad) = Carries(open, media, pad)
<1>1. pad \in DOMAIN open => pad \in DOMAIN Ran(w, media) /\ open[pad] = Ran(w, media)[pad]
  BY DEF Wires, Carried
<1> QED  BY <1>1 DEF Carries

LEMMA NamedTogether ==
  ASSUME NEW S, NEW s \in Seq(S), NEW t \in Seq(S)
  PROVE  Named(s \o t) = Named(s) \o Named(t)
<1>1. /\ s \o t \in Seq(S) /\ Len(s \o t) = Len(s) + Len(t) /\ Len(s) \in Nat /\ Len(t) \in Nat
      /\ \A i \in 1 .. Len(s) + Len(t) : (s \o t)[i] = IF i <= Len(s) THEN s[i] ELSE t[i - Len(s)]
  BY ConcatProperties
<1> DEFINE T == S \X {0}
           q == Named(s)
           r == Named(t)
           u == Named(s \o t)
<1>2. q \in Seq(T) /\ Len(q) = Len(s) /\ \A i \in 1 .. Len(s) : q[i] = <<s[i], 0>>
  BY <1>1 DEF Named
<1>3. r \in Seq(T) /\ Len(r) = Len(t) /\ \A i \in 1 .. Len(t) : r[i] = <<t[i], 0>>
  BY <1>1 DEF Named
<1>4. u \in Seq(T) /\ Len(u) = Len(s) + Len(t) /\ \A i \in 1 .. Len(s) + Len(t) : u[i] = <<(s \o t)[i], 0>>
  BY <1>1 DEF Named
<1> HIDE DEF q, r, u, T
<1>5. q \o r \in Seq(T) /\ Len(q \o r) = Len(s) + Len(t)
      /\ \A i \in 1 .. Len(s) + Len(t) : (q \o r)[i] = IF i <= Len(s) THEN q[i] ELSE r[i - Len(s)]
  <2>1. q \in Seq(T) /\ r \in Seq(T)
    BY <1>2, <1>3
  <2>2. q \o r \in Seq(T) /\ Len(q \o r) = Len(q) + Len(r)
        /\ \A i \in 1 .. Len(q) + Len(r) : (q \o r)[i] = IF i <= Len(q) THEN q[i] ELSE r[i - Len(q)]
    BY ONLY <2>1, ConcatProperties
  <2> QED  BY <1>2, <1>3, <2>2
<1>6. \A i \in 1 .. Len(s) + Len(t) : u[i] = (q \o r)[i]
  <2> TAKE i \in 1 .. Len(s) + Len(t)
  <2>1. CASE i <= Len(s)
    <3>1. i \in 1 .. Len(s)
      BY <1>1, <2>1
    <3> QED  BY <1>1, <1>2, <1>4, <1>5, <2>1, <3>1
  <2>2. CASE ~(i <= Len(s))
    <3>1. i - Len(s) \in 1 .. Len(t)
      BY <1>1, <2>2
    <3> QED  BY <1>1, <1>3, <1>4, <1>5, <2>2, <3>1
  <2> QED  BY <2>1, <2>2
<1>7. u = q \o r
  <2> DEFINE x == q \o r
  <2>1. x \in Seq(T) /\ Len(x) = Len(u) /\ \A i \in 1 .. Len(u) : u[i] = x[i]
    BY <1>4, <1>5, <1>6
  <2> HIDE DEF x
  <2>2. u = x
    BY <1>4, <2>1
  <2> QED  BY <2>2 DEF x
<1> QED  BY <1>7 DEF q, r, u

LEMMA NamedAlone ==
  ASSUME NEW a
  PROVE  Named(<<a>>) = << <<a, 0>> >> /\ Named(<< >>) = << >>
<1> DEFINE s == <<a>>
           n == << >>
<1>1. Len(s) = 1 /\ s[1] = a /\ Len(n) = 0
  OBVIOUS
<1> HIDE DEF s, n
<1>2. Named(s) = [i \in 1 .. 1 |-> <<a, 0>>] /\ Named(n) = [i \in 1 .. 0 |-> <<n[i], 0>>]
  BY <1>1 DEF Named
<1>3. [i \in 1 .. 1 |-> <<a, 0>>] = << <<a, 0>> >> /\ [i \in 1 .. 0 |-> <<n[i], 0>>] = << >>
  OBVIOUS
<1> QED  BY <1>2, <1>3 DEF s, n

LEMMA OverIs ==
  ASSUME NEW j \in Jobs
  PROVE  /\ Atop(j) \in Seq({"shake", "grade", "subtitles"})
         /\ \A x \in Seq(Layers) :
              x \o Named(Atop(j)) =
                x \o (IF j.shaken THEN << <<"shake", 0>> >> ELSE << >>)
                  \o (IF j.graded /\ j.way \in {"scene", "join"} THEN << <<"grade", 0>> >> ELSE << >>)
                  \o (IF j.way \in {"scene", "join"} THEN << <<"subtitles", 0>> >> ELSE << >>)
<1> DEFINE S == {"shake", "grade", "subtitles"}
           a == IF j.shaken THEN <<"shake">> ELSE << >>
           b == IF j.graded /\ j.way \in {"scene", "join"} THEN <<"grade">> ELSE << >>
           c == IF j.way \in {"scene", "join"} THEN <<"subtitles">> ELSE << >>
           A == IF j.shaken THEN << <<"shake", 0>> >> ELSE << >>
           B == IF j.graded /\ j.way \in {"scene", "join"} THEN << <<"grade", 0>> >> ELSE << >>
           C == IF j.way \in {"scene", "join"} THEN << <<"subtitles", 0>> >> ELSE << >>
<1>1. a \in Seq(S) /\ b \in Seq(S) /\ c \in Seq(S)
  <2>1. "shake" \in S /\ "grade" \in S /\ "subtitles" \in S
    OBVIOUS
  <2> HIDE DEF S
  <2>2. <<"shake">> \in Seq(S) /\ <<"grade">> \in Seq(S) /\ <<"subtitles">> \in Seq(S) /\ << >> \in Seq(S)
    BY <2>1
  <2> QED  BY <2>2
<1>2. Atop(j) = (a \o b) \o c
  BY DEF Atop
<1>3. Named(a) = A /\ Named(b) = B /\ Named(c) = C
  BY NamedAlone
<1>4. A \in Seq(Layers) /\ B \in Seq(Layers) /\ C \in Seq(Layers)
  <2>1. \A op \in S : << <<op, 0>> >> \in Seq(Layers)
    <3> TAKE op \in S
    <3> DEFINE x == <<op, 0>>
    <3>1. op \in LayerNames
      BY DEF LayerNames, Ops
    <3>2. x \in Layers
      BY <3>1 DEF Layers
    <3> HIDE DEF x, Layers
    <3>3. <<x>> \in Seq(Layers)
      BY <3>2
    <3> QED  BY <3>3 DEF x
  <2>2. << >> \in Seq(Layers)
    OBVIOUS
  <2>3. "shake" \in S /\ "grade" \in S /\ "subtitles" \in S
    OBVIOUS
  <2> HIDE DEF S
  <2> QED  BY <2>1, <2>2, <2>3
<1> HIDE DEF a, b, c, A, B, C, S, Layers
<1>5. a \o b \in Seq(S) /\ Named(a \o b) = A \o B
  <2>1. a \o b \in Seq(S)
    BY <1>1, ConcatProperties
  <2> QED  BY <1>1, <1>3, <2>1, NamedTogether
<1>6. (a \o b) \o c \in Seq(S) /\ Named((a \o b) \o c) = (A \o B) \o C
  <2> DEFINE d == a \o b
  <2>1. d \in Seq(S) /\ Named(d) = A \o B
    BY <1>5
  <2> HIDE DEF d
  <2>2. d \o c \in Seq(S)
    BY <1>1, <2>1, ConcatProperties
  <2>3. Named(d \o c) = Named(d) \o Named(c)
    BY <1>1, <2>1, NamedTogether
  <2> QED  BY <1>3, <2>1, <2>2, <2>3 DEF d
<1>7. ASSUME NEW x \in Seq(Layers)  PROVE x \o ((A \o B) \o C) = ((x \o A) \o B) \o C
  <2>1. x \o (A \o B) = (x \o A) \o B
    BY <1>4, ConcatAssociative
  <2> DEFINE d == A \o B
  <2>2. d \in Seq(Layers)
    BY <1>4, ConcatProperties
  <2> HIDE DEF d
  <2>3. x \o (d \o C) = (x \o d) \o C
    <3>1. x \in Seq(Layers) /\ d \in Seq(Layers) /\ C \in Seq(Layers)
      BY <1>4, <2>2
    <3> QED  BY ONLY <3>1, ConcatAssociative
  <2> QED  BY <2>1, <2>3 DEF d
<1> QED  BY <1>2, <1>6, <1>7 DEF A, B, C, S

LEMMA NoPadIsNone == NoPad \notin Pads
<1>1. NoPad[1] = ""
  BY Zenon DEF NoPad
<1>2. "" \notin LabelNames \cup {"v", "a"}
  BY Zenon DEF LabelNames, CardNames
<1>3. \A p \in Pads : p[1] \in LabelNames \cup {"v", "a"}
  BY DEF Pads, LabelPads
<1> QED  BY <1>1, <1>2, <1>3, Zenon

LEMMA BedsAre ==
  ASSUME NEW j \in Jobs
  PROVE  /\ BedsOf(j) \in Seq(Layers) /\ Len(BedsOf(j)) \in Nat /\ Len(BedsOf(j)) >= 1
         /\ DOMAIN BedsOf(j) = 1 .. Len(BedsOf(j)) /\ BedsOf(j) \in [1 .. Len(BedsOf(j)) -> Layers]
<1> DEFINE a == <<"bgm", 0>>
           b == <<"ambient", 0>>
           c == <<"stinger", 0>>
           C == IF j.stinger THEN <<c>> ELSE << >>
           s == <<a, b>>
<1>1. a \in Layers /\ b \in Layers /\ c \in Layers
  <2>1. "bgm" \in LayerNames /\ "ambient" \in LayerNames /\ "stinger" \in LayerNames
    BY DEF LayerNames
  <2> QED  BY <2>1 DEF Layers
<1>2. BedsOf(j) = s \o C
  BY DEF BedsOf
<1> HIDE DEF a, b, c, Layers
<1>3. s \in Seq(Layers) /\ Len(s) = 2 /\ C \in Seq(Layers)
  <2>1. s \in Seq(Layers) /\ Len(s) = 2
    BY <1>1
  <2>2. <<c>> \in Seq(Layers) /\ << >> \in Seq(Layers)
    BY <1>1
  <2> QED  BY <2>1, <2>2
<1> HIDE DEF s, C
<1>4. s \o C \in Seq(Layers) /\ Len(s \o C) = Len(s) + Len(C)
  BY ONLY <1>3, MoreFiles
<1> DEFINE q == BedsOf(j)
<1>5. q \in Seq(Layers) /\ Len(q) >= 1 /\ Len(q) \in Nat
  BY <1>2, <1>3, <1>4
<1> HIDE DEF q
<1>6. DOMAIN q = 1 .. Len(q) /\ q \in [1 .. Len(q) -> Layers]
  BY <1>5
<1> QED  BY <1>5, <1>6 DEF q

LEMMA Finishes ==
  ASSUME Finish0, LayInv
  PROVE  job'.way # "none" /\ mapped' # NotMapped /\ laid' = Len(job'.order) /\ Told(job', wires', feeds', mapped')
<1> DEFINE voice == <<"a", Len(feeds)>>
           aout == <<"aout", 0>>
           story == <<"narration", 0>>
           talks == job.way \in {"scene", "join"}
           sounds == talks /\ job.sound
           ops == Atop(job)
           B == BedsOf(job)
           n == Len(B)
           picture == IF Len(ops) = 0 THEN top ELSE <<"f", Len(ops)>>
           sound == IF sounds THEN aout ELSE IF talks THEN voice ELSE NoPad
           A1 == IF talks THEN <<story>> ELSE << >>
           B1 == IF sounds THEN B ELSE << >>
           w1 == wires \o Over0(ops, top)
           w2 == w1 \o (IF sounds THEN Sounding(n, Len(feeds) + 1, voice) ELSE << >>)
           media == (feeds \o A1) \o B1
           whole == PictureOf(job, Len(job.order))
           m == [picture |-> picture, sound |-> sound, timed |-> sounds \/ job.way \in {"clip", "still"}]
<1>1. job.way # "none" /\ JobInv /\ FeedsInv /\ top \in Pads /\ laid = Len(job.order)
  BY DEF LayInv, Finish0
<1>2. job \in Jobs /\ Sorted(job.troupe, job.order) /\ job.way \in {"scene", "clip", "still", "join"}
      /\ job.sound \in BOOLEAN
  BY <1>1 DEF JobInv, Jobs
<1>3. /\ B \in Seq(Layers) /\ n \in Nat /\ n >= 1 /\ DOMAIN B = 1 .. n /\ B \in [1 .. n -> Layers]
  BY <1>2, BedsAre
<1>4. ops \in Seq({"shake", "grade", "subtitles"}) /\ Len(ops) \in Nat
  <2>1. ops \in Seq({"shake", "grade", "subtitles"})
    BY <1>2, OverIs
  <2> HIDE DEF ops
  <2> QED  BY <2>1
<1>5. job' = job /\ laid' = laid
  BY DEF Finish0
<1>6. Overall = ops /\ Beds = B
  BY DEF Overall, Atop, Beds, BedsOf
<1>7. feeds' = media
  BY <1>6 DEF Finish0
<1>8. mapped' = m
  <2>1. Overall = << >> <=> Len(ops) = 0
    <3> HIDE DEF ops
    <3> QED  BY <1>4, <1>6
  <2> HIDE DEF ops
  <2> QED  BY <1>6, <2>1 DEF Finish0
<1>9. wires' = w2
  <2>1. Finished = Over0(ops, top)
    BY <1>6 DEF Finished, Over0
  <2>2. Ducked(Len(feeds) + 1, voice) = Sounding(n, Len(feeds) + 1, voice)
    <3> DEFINE lo == Len(feeds) + 1
    <3>1. KeptFiles(BedFiles(n, lo), "bed", n)
            = [i \in 1 .. n |-> Filter("keep", 0, << <<"a", lo + i - 1>> >>, << <<"bed", i>> >>)]
      <4>1. \A i \in 1 .. n : BedFiles(n, lo)[i] = <<"a", lo + i - 1>>
        BY DEF BedFiles
      <4> HIDE DEF n, lo
      <4> QED  BY <4>1 DEF KeptFiles
    <3> HIDE DEF lo, n, B, voice
    <3>2. Ducked(lo, voice) = Sounding(n, lo, voice)
      BY <1>3, <1>6, <3>1 DEF Ducked, Sounding
    <3> QED  BY <3>2 DEF lo
  <2>3. wires' = (wires \o Finished) \o (IF sounds THEN Ducked(Len(feeds) + 1, voice) ELSE << >>)
    BY DEF Finish0
  <2> HIDE DEF ops, n, voice
  <2> QED  BY <2>1, <2>2, <2>3
<1>10. feeds \in Seq(Layers) /\ Len(feeds) \in Nat /\ Len(feeds) >= 1
  BY <1>1 DEF FeedsInv
<1>11. story \in Layers
  <2>1. "narration" \in LayerNames
    BY DEF LayerNames
  <2> QED  BY <2>1 DEF Layers
<1> HIDE DEF ops, n, B, media, m, Layers, story, w2
<1>12. A1 \in Seq(Layers) /\ B1 \in Seq(Layers) /\ (talks => Len(A1) = 1 /\ A1[1] = story)
  <2>1. <<story>> \in Seq(Layers) /\ << >> \in Seq(Layers) /\ Len(<<story>>) = 1 /\ <<story>>[1] = story
    BY <1>11
  <2> QED  BY <1>3, <2>1
<1>13. /\ media \in Seq(Layers) /\ media = feeds \o (A1 \o B1) /\ A1 \o B1 \in Seq(Layers)
       /\ talks => media[Len(feeds) + 1] = story /\ Len(media) >= Len(feeds) + 1
       /\ sounds => Len(media) = Len(feeds) + 1 + n /\ \A i \in 1 .. n : media[Len(feeds) + 1 + i] = B[i]
  <2> HIDE DEF A1, B1
  <2>1. feeds \o A1 \in Seq(Layers) /\ Len(feeds \o A1) = Len(feeds) + Len(A1)
        /\ \A i \in 1 .. Len(A1) : (feeds \o A1)[Len(feeds) + i] = A1[i]
    BY ONLY <1>10, <1>12, MoreFiles
  <2> DEFINE fa == feeds \o A1
  <2>2. fa \in Seq(Layers) /\ Len(fa) = Len(feeds) + Len(A1) /\ \A i \in 1 .. Len(A1) : fa[Len(feeds) + i] = A1[i]
    BY <2>1
  <2> HIDE DEF fa
  <2>3. /\ fa \o B1 \in Seq(Layers) /\ Len(fa \o B1) = Len(fa) + Len(B1)
        /\ \A i \in 1 .. Len(fa) : (fa \o B1)[i] = fa[i]
        /\ \A i \in 1 .. Len(B1) : (fa \o B1)[Len(fa) + i] = B1[i]
    <3>1. fa \in Seq(Layers) /\ B1 \in Seq(Layers)
      BY <1>12, <2>2
    <3> QED  BY ONLY <3>1, MoreFiles
  <2>4. media = fa \o B1
    BY DEF media, fa
  <2>5. media = feeds \o (A1 \o B1)
    <3>1. feeds \in Seq(Layers) /\ A1 \in Seq(Layers) /\ B1 \in Seq(Layers)
      BY <1>10, <1>12
    <3>2. (feeds \o A1) \o B1 = feeds \o (A1 \o B1)
      BY ONLY <3>1, ConcatAssociative
    <3> QED  BY <3>2 DEF media
  <2>6. A1 \o B1 \in Seq(Layers)
    BY ONLY <1>12, ConcatProperties
  <2>7. Len(A1) \in Nat /\ Len(B1) \in Nat
    BY <1>12
  <2>8. talks => media[Len(feeds) + 1] = story /\ Len(media) >= Len(feeds) + 1
    <3> SUFFICES ASSUME talks  PROVE media[Len(feeds) + 1] = story /\ Len(media) >= Len(feeds) + 1
      OBVIOUS
    <3>1. Len(A1) = 1 /\ A1[1] = story
      BY <1>12
    <3>2. Len(fa) = Len(feeds) + 1 /\ fa[Len(feeds) + 1] = story
      BY <2>2, <3>1
    <3>3. Len(feeds) + 1 \in 1 .. Len(fa)
      BY <1>10, <3>2
    <3> QED  BY <1>10, <2>3, <2>4, <2>7, <3>2, <3>3
  <2>9. sounds => Len(media) = Len(feeds) + 1 + n /\ \A i \in 1 .. n : media[Len(feeds) + 1 + i] = B[i]
    <3> SUFFICES ASSUME sounds  PROVE Len(media) = Len(feeds) + 1 + n
          /\ \A i \in 1 .. n : media[Len(feeds) + 1 + i] = B[i]
      OBVIOUS
    <3>1. Len(A1) = 1 /\ B1 = B /\ Len(B1) = n
      BY <1>12 DEF B1, n
    <3>2. Len(fa) = Len(feeds) + 1
      BY <2>2, <3>1
    <3> QED  BY <2>3, <2>4, <3>1, <3>2
  <2> QED  BY <2>3, <2>4, <2>5, <2>6, <2>8, <2>9
<1> HIDE DEF A1, B1
<1>14. PICK put, open : /\ Wires(wires, media, put, open) /\ \A p \in put : Before(p, laid)
                        /\ DOMAIN open = (IF IsFile(top) THEN {} ELSE {top}) /\ Carries(open, media, top) = whole
  <2>1. Shows(wires, feeds \o (A1 \o B1), top, laid, PictureOf(job, laid))
    BY <1>13 DEF LayInv
  <2> QED  BY <1>1, <1>13, <2>1 DEF Shows, whole
<1>15. whole \in Seq(Layers)
  BY <1>1, <1>14, CarriedAre
<1>16. \A p \in put : p[1] \notin {"f", "bed", "bgmix", "ducked", "aout"}
  BY <1>14 DEF Before, CardNames
<1> HIDE DEF whole
<1>17. PICK fin : /\ Wires(w1, media, put \cup KeptPads("f", Len(ops)), fin)
                  /\ DOMAIN fin = (IF IsFile(picture) THEN {} ELSE {picture})
                  /\ Carries(fin, media, picture) = whole \o Named(ops)
  <2>1. \A i \in 1 .. Len(ops) : <<"f", i>> \notin put
    BY <1>16
  <2>2. Covers(wires, media, put, ops, top, Carries(open, media, top))
    BY ONLY <1>1, <1>4, <1>14, <2>1, OverThePicture
  <2> QED  BY <1>14, <2>2 DEF Named, w1, picture, Covers, LastOver
<1> DEFINE put1 == put \cup KeptPads("f", Len(ops))
<1>18. \A p \in put1 : p[1] \notin {"bed", "bgmix", "ducked", "aout"}
  BY <1>16 DEF KeptPads
<1>19. picture \in Pads /\ picture # aout
  <2>1. CASE Len(ops) = 0
    <3>1. top # aout
      <4>1. CASE IsFile(top)
        BY <4>1 DEF IsFile
      <4>2. CASE ~IsFile(top)
        <5>1. top \in put
          BY <1>14, <4>2 DEF Wires, Carried
        <5> QED  BY <1>16, <5>1
      <4> QED  BY <4>1, <4>2
    <3> QED  BY <1>1, <2>1, <3>1
  <2>2. CASE Len(ops) # 0
    <3>1. <<"f", Len(ops)>> \in LabelPads
      BY <1>4 DEF LabelPads, LabelNames
    <3>2. <<"f", Len(ops)>> # aout
      OBVIOUS
    <3> QED  BY <2>2, <3>1, <3>2, LabelsArePads
  <2> QED  BY <2>1, <2>2
<1>20. voice \in Pads /\ IsFile(voice) /\ (talks => FileShows(media, voice) = <<story>>)
  <2>1. voice \in Pads /\ IsFile(voice)
    BY <1>10, LabelsArePads
  <2>2. ASSUME talks  PROVE FileShows(media, voice) = <<story>>
    <3> DEFINE l == Len(feeds)
    <3>1. l \in Nat /\ l + 1 <= Len(media) /\ media[l + 1] = story
      BY <1>10, <1>13, <2>2
    <3> HIDE DEF l
    <3>2. FileShows(media, <<"a", l>>) = <<media[l + 1]>>
      BY <1>13, <3>1, FileIs
    <3> QED  BY <3>1, <3>2 DEF l
  <2> QED  BY <2>1, <2>2
<1> DEFINE heard == (IF job.sound THEN Append(B, <<"ducked", 0>>) ELSE << >>) \o <<story>>
<1>21. \E all, last :
         /\ Wires(w2, media, all, last) /\ \A p \in all : p \in DOMAIN last <=> p \in {picture, sound}
         /\ Carries(last, media, picture) = whole \o Named(ops) /\ (IsFile(picture) \/ picture \in DOMAIN last)
         /\ talks => Carries(last, media, sound) = heard /\ (IsFile(sound) \/ sound \in DOMAIN last)
  <2>1. CASE sounds
    <3> DEFINE lo == Len(feeds) + 1
    <3>1. lo \in Nat /\ lo >= 1
      BY <1>10
    <3>2. \A i \in 1 .. n : FileShows(media, <<"a", lo + i - 1>>) = <<B[i]>>
      <4> TAKE i \in 1 .. n
      <4> DEFINE l == lo + i - 1
      <4>1. l \in Nat /\ l + 1 <= Len(media) /\ l + 1 = Len(feeds) + 1 + i
        BY <1>3, <1>10, <1>13, <2>1
      <4> HIDE DEF l
      <4>2. FileShows(media, <<"a", l>>) = <<media[l + 1]>>
        BY <1>13, <4>1, FileIs
      <4>3. media[l + 1] = B[i]
        BY <1>13, <2>1, <4>1
      <4> QED  BY <4>2, <4>3 DEF l
    <3>3. \A p \in SoundPads(n) : p \notin put1
      <4>1. \A p \in SoundPads(n) : p[1] \in {"bed", "bgmix", "ducked", "aout"}
        BY DEF SoundPads, KeptPads
      <4> HIDE DEF put1
      <4> QED  BY <1>18, <4>1
    <3>4. Wires(w1, media, put1, fin)
      BY <1>17
    <3>5. Speaks(media, voice) /\ Plays(media, n, lo, B)
      BY <1>20, <2>1, <3>2 DEF story, Speaks, Plays
    <3> HIDE DEF lo, put1, voice, w1
    <3>6. PICK next : /\ Wires(w1 \o Sounding(n, lo, voice), media, put1 \cup SoundPads(n), next)
                      /\ DOMAIN next = DOMAIN fin \cup {<<"aout", 0>>}
                      /\ next[<<"aout", 0>>] = Append(B, <<"ducked", 0>>) \o << <<"narration", 0>> >>
                      /\ \A p \in DOMAIN fin : next[p] = fin[p]
      <4>1. Sounds(w1 \o Sounding(n, lo, voice), media, put1, fin, n, B)
        BY ONLY <1>3, <1>20, <3>1, <3>3, <3>4, <3>5, ItIsHeard
      <4> QED  BY <4>1 DEF Sounds
    <3>7. w2 = w1 \o Sounding(n, lo, voice)
      BY <2>1 DEF w2, lo, w1, voice
    <3>8. next[aout] = heard /\ aout \in DOMAIN next
      BY <2>1, <3>6 DEF story
    <3>9. sound = aout /\ ~IsFile(aout)
      BY <2>1 DEF IsFile
    <3> HIDE DEF sound, aout, heard, picture
    <3>10. Carries(next, media, sound) = heard
      BY <3>8, <3>9 DEF Carries
    <3>11. DOMAIN next = DOMAIN fin \cup {aout}
      BY <3>6 DEF aout
    <3>12. Carries(next, media, picture) = Carries(fin, media, picture)
          /\ (IsFile(picture) \/ picture \in DOMAIN next)
      BY <1>17, <3>6, <3>11 DEF Carries
    <3>13. \A p \in put1 \cup SoundPads(n) : p \in DOMAIN next <=> p \in {picture, sound}
      <4>1. \A p \in put1 \cup SoundPads(n) : ~IsFile(p)
        BY <3>6, OpenAreLabels
      <4> QED  BY <1>17, <3>9, <3>11, <4>1
    <3> QED  BY <1>17, <3>6, <3>7, <3>8, <3>9, <3>10, <3>12, <3>13
  <2>2. CASE ~sounds
    <3>1. w2 = w1
      <4>1. w1 \in Seq(Filters)
        BY <1>17 DEF Wires, Whole0
      <4>2. w2 = w1 \o << >>
        BY <2>2 DEF w2
      <4> HIDE DEF w1
      <4> QED  BY <4>1, <4>2, ConcatEmptySeq
    <3>2. Wires(w2, media, put1, fin)
      BY <1>17, <3>1
    <3>3. \A p \in put1 : ~IsFile(p) /\ p \in Pads
      BY <3>2, OpenAreLabels, LabelsArePads
    <3>4. IsFile(sound) \/ sound = NoPad
      BY <1>20, <2>2
    <3>5. \A p \in put1 : p # sound
      BY <3>3, <3>4, NoPadIsNone
    <3>6. talks => IsFile(sound) /\ Carries(fin, media, sound) = heard
      <4> SUFFICES ASSUME talks  PROVE IsFile(sound) /\ Carries(fin, media, sound) = heard
        OBVIOUS
      <4>1. sound = voice /\ ~job.sound
        BY <2>2
      <4>2. heard = << >> \o <<story>>
        BY <4>1
      <4>3. << >> \o <<story>> = <<story>>
        OBVIOUS
      <4> QED  BY <1>20, <4>1, <4>2, <4>3 DEF Carries
    <3> HIDE DEF put1, picture, sound, heard
    <3> QED  BY <1>17, <3>2, <3>3, <3>5, <3>6
  <2> QED  BY <2>1, <2>2
<1>22. PICK all, last :
         /\ Wires(w2, media, all, last) /\ \A p \in all : p \in DOMAIN last <=> p \in {picture, sound}
         /\ Carries(last, media, picture) = whole \o Named(ops) /\ (IsFile(picture) \/ picture \in DOMAIN last)
         /\ talks => Carries(last, media, sound) = heard /\ (IsFile(sound) \/ sound \in DOMAIN last)
  BY <1>21
<1>23. m.picture = picture /\ m.sound = sound /\ m.timed = (sounds \/ job.way \in {"clip", "still"})
  BY DEF m
<1> HIDE DEF picture, sound, heard
<1>24. WiredIn(w2, picture, sound)
  BY <1>22, WiredAtLast
<1>25. Carries(Ran(w2, media), media, picture) = whole \o Named(ops)
  BY <1>22, CarriedAtLast
<1>26. talks => Carries(Ran(w2, media), media, sound) = heard
  BY <1>22, CarriedAtLast
<1>27. m # NotMapped
  BY <1>19, <1>23, NoPadIsNone DEF NotMapped
<1>28. job.sound => m.timed \/ ~talks
  BY <1>23
<1>29. Told(job, w2, media, m)
  BY <1>2, <1>15, <1>23, <1>24, <1>25, <1>26, <1>28 DEF Told, heard, story, whole, ops, B
<1> QED  BY <1>1, <1>5, <1>7, <1>8, <1>9, <1>27, <1>29

-----------------------------------------------------------------------------
(* The graph holds.                                                          *)

LEMMA GraphKeeps == GraphInv /\ [GraphNext]_graphVars => GraphInv'
<1> SUFFICES ASSUME GraphInv, [GraphNext]_graphVars  PROVE GraphInv'
  OBVIOUS
<1>1. ASSUME NEW way \in {"scene", "clip", "still"}, NEW troupe \in Troupes, NEW tier \in 0 .. 2, NEW seen \in Seen,
             Compose(way, troupe, tier, seen)
      PROVE  GraphInv'
  BY <1>1, Composed DEF GraphInv
<1>2. ASSUME NEW clips \in 2 .. MostClips, NEW seen \in Seen, JoinClips(clips, seen)  PROVE GraphInv'
  BY <1>2, ClipsJoined DEF GraphInv
<1>3. CASE Lay
  <2>1. job.way # "none" /\ laid < Len(job.order)
    BY <1>3 DEF Lay
  <2>2. LayInv
    <3>1. job # NoJob
      BY <2>1 DEF NoJob
    <3>2. CASE laid = Len(job.order) /\ Told(job, wires, feeds, mapped)
      <4>1. Len(job.order) \in Nat
        BY <3>2, FiguresAre DEF Told
      <4> QED  BY <2>1, <3>2, <4>1
    <3> QED  BY <3>1, <3>2 DEF GraphInv
  <2> QED  BY <1>3, <2>2, LaysOn DEF GraphInv
<1>4. CASE Finish0
  <2>1. LayInv
    <3>1. job.way # "none" /\ mapped = NotMapped
      BY <1>4 DEF Finish0
    <3> QED  BY <3>1 DEF GraphInv, NoJob
  <2> QED  BY <1>4, <2>1, Finishes DEF GraphInv
<1>5. CASE NextJob
  BY <1>5 DEF NextJob, GraphInv
<1>6. CASE UNCHANGED graphVars
  <2>1. job' = job /\ feeds' = feeds /\ wires' = wires /\ top' = top /\ laid' = laid /\ mapped' = mapped
    BY <1>6 DEF graphVars
  <2>2. LayInv => LayInv'
    BY <2>1 DEF LayInv, JobInv, FeedsInv
  <2> QED  BY <2>1, <2>2 DEF GraphInv
<1> QED  BY <1>1, <1>2, <1>3, <1>4, <1>5, <1>6 DEF GraphNext

LEMMA GraphEnds == GraphInv => GraphIsSound
<1> SUFFICES ASSUME GraphInv, mapped # NotMapped  PROVE GraphIsSound
  BY DEF GraphIsSound
<1>1. Told(job, wires, feeds, mapped)
  BY DEF GraphInv, LayInv
<1>2. job \in Jobs /\ Sorted(job.troupe, job.order) /\ job.way \in {"scene", "clip", "still", "join"}
  BY <1>1 DEF Told, Jobs
<1> DEFINE n == Len(job.order)
           q == FiguresOf(job)
           picture == IF job.way = "join" THEN [i \in 1 .. job.clips |-> <<"clip", i>>]
                      ELSE << <<"plate", 0>> >> \o FlattenSeq([i \in DOMAIN job.order |-> Figure(job.order[i])])
<1>3. Wired
  BY <1>1 DEF Told, WiredIn, Wired, Takes, Uses, Labels, UsesOf, PutBy, InOrder
<1>4. job.order \in [DOMAIN job.troupe -> DOMAIN job.troupe] /\ FarToNear(job.order)
  BY <1>2 DEF Sorted, FarToNear
<1>5. PictureOf(job, n) = picture
  <2>1. DOMAIN job.order = 1 .. n
    BY <1>2, FiguresAre
  <2>2. UpTo(q, n) = [i \in DOMAIN job.order |-> Figure(job.order[i])]
    <3>1. \A i \in DOMAIN job.order : q[i] = Figure(job.order[i])
      BY DEF FiguresOf, FigureOf, Figure
    <3> HIDE DEF n, q
    <3> QED  BY <2>1, <3>1 DEF UpTo
  <2> QED  BY <2>2 DEF PictureOf
<1>6. Shown0 = PictureOf(job, n) \o Due("shake") \o Due("grade") \o Due("subtitles")
  <2>1. /\ Due("shake") = (IF job.shaken THEN << <<"shake", 0>> >> ELSE << >>)
        /\ Due("grade") = (IF job.graded /\ job.way \in {"scene", "join"} THEN << <<"grade", 0>> >> ELSE << >>)
        /\ Due("subtitles") = (IF job.way \in {"scene", "join"} THEN << <<"subtitles", 0>> >> ELSE << >>)
    BY <1>2 DEF Due
  <2>2. PictureOf(job, n) \in Seq(Layers) /\ Shown0 = PictureOf(job, n) \o Named(Atop(job))
    BY <1>1 DEF Told, Shown0
  <2> HIDE DEF n
  <2> QED  BY <1>2, <2>1, <2>2, OverIs
<1>7. job.way \in {"scene", "join"} =>
        Heard0 = (IF job.sound THEN Append(Beds, <<"ducked", 0>>) ELSE << >>) \o << <<"narration", 0>> >>
  BY <1>1 DEF Told, Heard0, Beds, BedsOf
<1>8. job.sound => mapped.timed \/ job.way \notin {"scene", "join"}
  BY <1>1 DEF Told
<1>9. Shown0 = picture \o Due("shake") \o Due("grade") \o Due("subtitles")
  BY <1>5, <1>6
<1> QED  BY <1>3, <1>4, <1>7, <1>8, <1>9 DEF GraphIsSound

-----------------------------------------------------------------------------
(* The theorems. *)

LEMMA FiguresHold == Spec => []FiguresInv
<1>1. Init => FiguresInv
  BY FiguresBegin DEF Init
<1>2. FiguresInv /\ [Next]_allVars => FiguresInv'
  <2>1. [Next]_allVars => [FiguresNext]_figuresVars
    BY DEF Next, allVars
  <2> QED  BY <2>1, FiguresStep
<1> QED  BY <1>1, <1>2, PTL DEF Spec

LEMMA CastHolds == Spec => []CastInv
<1>1. Init => CastInv
  BY CastBegins DEF Init
<1>2. CastInv /\ [Next]_allVars => CastInv'
  <2>1. [Next]_allVars => [CastNext]_castVars
    BY DEF Next, allVars
  <2> QED  BY <2>1, CastKeeps
<1> QED  BY <1>1, <1>2, PTL DEF Spec

\* The cards of a shot are those its cast asks for, in its order, or a row says
\* which is another or is missing; and whoever the script puts into a shot is
\* seen in it, in the frame or over it, or is in a row, and twice only in a frame
\* the pass was to leave alone: for any shots, casts, stocks, files that go in
\* between, passes, retries, redos and crashes.
THEOREM EverybodyIsSeenOrTold == Spec => []CastIsSeen
<1>1. FiguresInv /\ CastInv => CastIsSeen
  BY CastEnds DEF FiguresInv, CastIsSeen
<1> QED  BY <1>1, FiguresHold, CastHolds, PTL

\* What a sidecar says of a frame is true, and a frame it does not describe is
\* in a row, no other: for the same.
THEOREM FramesAreAttributed == Spec => []AttributionIsTrue
<1>1. FiguresInv => AttributionIsTrue
  BY DEF FiguresInv
<1> QED  BY <1>1, FiguresHold, PTL

LEMMA FilmHolds == Spec => []FilmInv
<1>1. Init => FilmInv
  BY FilmBegins DEF Init
<1>2. FilmInv /\ [Next]_allVars => FilmInv'
  <2>1. [Next]_allVars => [FilmNext]_filmVars
    BY DEF Next, allVars
  <2> QED  BY <2>1, FilmStep
<1> QED  BY <1>1, <1>2, PTL DEF Spec

LEMMA GraphHolds == Spec => []GraphInv
<1>1. Init => GraphInv
  BY GraphBegins DEF Init
<1>2. GraphInv /\ [Next]_allVars => GraphInv'
  <2>1. [Next]_allVars => [GraphNext]_graphVars
    BY DEF Next, allVars
  <2> QED  BY <2>1, GraphKeeps
<1> QED  BY <1>1, <1>2, PTL DEF Spec

\* The film a take shows is the whole script, each scene of this take, a dark
\* piece of the next between two, every hit once, whatever the earlier takes
\* left and wherever they stopped; and every graph ffmpeg is given is one it
\* takes, and shows the plate, each figure of the shot once, the farther behind
\* the nearer, and lets the narration be heard over beds that end with it: for
\* any scripts, settings, casts of any size at any depths, any number of clips.
THEOREM TheWholeFilmIsShown == Spec => []FilmIsTrue
<1>1. FilmInv /\ GraphInv => FilmIsTrue
  BY GraphEnds DEF FilmInv, FilmIsTrue
<1> QED  BY <1>1, FilmHolds, GraphHolds, PTL
-----------------------------------------------------------------------------
(* The moving backgrounds: MotionLadder. *)

Renderers == {"flow", "warp"}
Tallied == {"flow", "warp", "legacy", "cached"} \cup Reasons
Renders == [image : Nat, map : Nat, moves : Trajectories \cup {"none"}, renderer : Renderers]
Sources == [renderer : Renderers \cup {"legacy"}, cached : BOOLEAN, of : Renders \cup {NoClip},
            reason : Reasons \cup {"none"}]

MotionTypeOK ==
  /\ image \in [Clips -> Nat] /\ map \in [Clips -> Nat]
  /\ ladder \in Ladders /\ moves \in Trajectories \cup {"none"}
  /\ clip \in [Clips -> Renders \cup {NoClip}] /\ sidecar \in [Clips -> Renders \cup {NoClip}]
  /\ hand \in [at : {"rest", "film", "rung", "move", "note"}, of : Clips \cup {"none"}]
  /\ rungs \in Seq(Renderers)
  /\ source \in [Clips -> Sources \cup {Unsourced}]
  /\ tally \in [Tallied -> Int]

\* A sidecar, when there is one, is of the clip beside it.
SidecarsAreTrue == \A c \in Clips : sidecar[c] # NoClip => clip[c] = sidecar[c]

\* The clip in hand is not served yet, and what is made for it is of its plate.
HandIsTrue ==
  /\ hand.at \in {"rung", "move", "note"} => hand.of \in Unserved /\ ladder \in {"warp", "flow"}
  /\ hand.at \in {"move", "note"} =>
       /\ made \in Renders /\ made = Provenance(hand.of, made.renderer) /\ sidecar[hand.of] = NoClip
  /\ hand.at = "note" => clip[hand.of] = made

\* The tally is true of those served so far.
Counted ==
  /\ \A renderer \in {"flow", "warp", "legacy"} : tally[renderer] = Shown(renderer)
  /\ \A reason \in Reasons : tally[reason] = Fallen(reason)
  /\ tally["cached"] = Cardinality({c \in Clips : source[c].cached})
FallsForAReason ==
  \A c \in Clips : source[c].renderer = "legacy" /\ source[c].reason = "none" => ladder = "uninjected"

MotionInv ==
  /\ MotionTypeOK /\ SidecarsAreTrue /\ HandIsTrue
  /\ Counted /\ FallsForAReason /\ ClipsAreOfTheirPlates

LEMMA AddOne ==
  ASSUME NEW S, IsFiniteSet(S), NEW c, c \notin S
  PROVE  Cardinality(S \cup {c}) = Cardinality(S) + 1 /\ Cardinality(S) \in Nat
  BY FS_AddElement, FS_CardinalityType

LEMMA NoneIsCounted ==
  ASSUME \A c \in Clips : source[c] = Unsourced
  PROVE  /\ \A r \in {"flow", "warp", "legacy"} : Shown(r) = 0
         /\ \A reason \in Reasons : Fallen(reason) = 0
         /\ Cardinality({c \in Clips : source[c].cached}) = 0
<1>1. \A r \in {"flow", "warp", "legacy"} : {c \in Clips : source[c].renderer = r} = {}
  BY DEF Unsourced
<1>2. \A reason \in Reasons : {c \in Clips : source[c].reason = reason} = {}
  BY DEF Unsourced, Reasons
<1>3. {c \in Clips : source[c].cached} = {}
  BY DEF Unsourced
<1> QED  BY <1>1, <1>2, <1>3, FS_EmptySet DEF Shown, Fallen

LEMMA MotionBegins == MotionInit => MotionInv
<1> SUFFICES ASSUME MotionInit PROVE MotionInv
  OBVIOUS
<1>1. /\ image = [c \in Clips |-> 0] /\ map = [c \in Clips |-> 1] /\ ladder = "uninjected" /\ moves = "none"
      /\ clip = [c \in Clips |-> NoClip] /\ sidecar = [c \in Clips |-> NoClip]
      /\ hand = AtRest /\ rungs = <<>> /\ made = NoClip
      /\ source = [c \in Clips |-> Unsourced] /\ tally = NoTally
  BY DEF MotionInit
<1>2. MotionTypeOK
  <2>1. hand \in [at : {"rest", "film", "rung", "move", "note"}, of : Clips \cup {"none"}]
    BY <1>1 DEF AtRest
  <2>2. rungs \in Seq(Renderers)
    BY <1>1, EmptySeq
  <2>3. tally \in [Tallied -> Int]
    BY <1>1 DEF NoTally, Tallied
  <2> HIDE DEF Tallied
  <2> QED  BY <1>1, <2>1, <2>2, <2>3 DEF MotionTypeOK, Ladders
<1>3. SidecarsAreTrue /\ HandIsTrue
  BY <1>1 DEF SidecarsAreTrue, HandIsTrue, AtRest
<1>4. \A c \in Clips : source[c] = Unsourced
  BY <1>1
<1>5. Counted
  <2>1. /\ \A r \in {"flow", "warp", "legacy"} : tally[r] = 0
        /\ \A reason \in Reasons : tally[reason] = 0
        /\ tally["cached"] = 0
    BY <1>1 DEF NoTally
  <2> QED  BY <1>4, <2>1, NoneIsCounted DEF Counted
<1>6. FallsForAReason /\ ClipsAreOfTheirPlates
  BY <1>4 DEF FallsForAReason, ClipsAreOfTheirPlates, Unsourced
<1> QED  BY <1>2, <1>3, <1>5, <1>6 DEF MotionInv

-----------------------------------------------------------------------------
(* A clip is served. *)

LEMMA ServeCounts ==
  ASSUME MotionTypeOK, NEW c \in Unserved, NEW from \in Sources, source' = [source EXCEPT ![c] = from]
  PROVE  /\ \A r \in {"flow", "warp", "legacy"} : Shown(r)' = Shown(r) + (IF from.renderer = r THEN 1 ELSE 0)
         /\ \A reason \in Reasons : Fallen(reason)' = Fallen(reason) + (IF from.reason = reason THEN 1 ELSE 0)
         /\ Cardinality({d \in Clips : source'[d].cached})
              = Cardinality({d \in Clips : source[d].cached}) + (IF from.cached THEN 1 ELSE 0)
<1>1. /\ c \in Clips /\ source[c].renderer = "none" /\ source[c].reason = "none" /\ ~source[c].cached
      /\ source \in [Clips -> Sources \cup {Unsourced}]
  BY DEF Unserved, Unsourced, MotionTypeOK
<1>2. source'[c] = from /\ \A d \in Clips : d # c => source'[d] = source[d]
  BY <1>1
<1>3. ASSUME NEW r \in {"flow", "warp", "legacy"}
      PROVE  Shown(r)' = Shown(r) + (IF from.renderer = r THEN 1 ELSE 0)
  <2> DEFINE old == {d \in Clips : source[d].renderer = r}
             new == {d \in Clips : source'[d].renderer = r}
  <2>1. c \notin old /\ new = IF from.renderer = r THEN old \cup {c} ELSE old
    BY <1>1, <1>2
  <2>2. IsFiniteSet(old) /\ Cardinality(old) \in Nat
    BY ClipsKnown, FS_Subset, FS_CardinalityType
  <2>3. Shown(r) = Cardinality(old) /\ Shown(r)' = Cardinality(new)
    BY DEF Shown
  <2> HIDE DEF old, new
  <2> QED  BY <2>1, <2>2, <2>3, AddOne
<1>4. ASSUME NEW reason \in Reasons
      PROVE  Fallen(reason)' = Fallen(reason) + (IF from.reason = reason THEN 1 ELSE 0)
  <2> DEFINE old == {d \in Clips : source[d].reason = reason}
             new == {d \in Clips : source'[d].reason = reason}
  <2>1. c \notin old /\ new = IF from.reason = reason THEN old \cup {c} ELSE old
    BY <1>1, <1>2 DEF Reasons
  <2>2. IsFiniteSet(old) /\ Cardinality(old) \in Nat
    BY ClipsKnown, FS_Subset, FS_CardinalityType
  <2>3. Fallen(reason) = Cardinality(old) /\ Fallen(reason)' = Cardinality(new)
    BY DEF Fallen
  <2> HIDE DEF old, new
  <2> QED  BY <2>1, <2>2, <2>3, AddOne
<1>5. Cardinality({d \in Clips : source'[d].cached})
        = Cardinality({d \in Clips : source[d].cached}) + (IF from.cached THEN 1 ELSE 0)
  <2> DEFINE old == {d \in Clips : source[d].cached}
             new == {d \in Clips : source'[d].cached}
  <2>1. c \notin old /\ new = IF from.cached THEN old \cup {c} ELSE old
    BY <1>1, <1>2
  <2>2. IsFiniteSet(old) /\ Cardinality(old) \in Nat
    BY ClipsKnown, FS_Subset, FS_CardinalityType
  <2> HIDE DEF old, new
  <2>3. Cardinality(new) = Cardinality(old) + (IF from.cached THEN 1 ELSE 0)
    BY <2>1, <2>2, AddOne
  <2> QED  BY <2>3 DEF old, new
<1> QED  BY <1>3, <1>4, <1>5

\* The parts a step can only disturb by what it makes of the clip in hand.
LEMMA ServeKeeps ==
  ASSUME MotionInv, NEW c \in Unserved, NEW from \in Sources, Serves(c, from),
         tally' \in [Tallied -> Int],
         \A r \in {"flow", "warp", "legacy"} : tally'[r] = tally[r] + (IF from.renderer = r THEN 1 ELSE 0),
         \A reason \in Reasons : tally'[reason] = tally[reason] + (IF from.reason = reason THEN 1 ELSE 0),
         tally'["cached"] = tally["cached"] + (IF from.cached THEN 1 ELSE 0),
         from.of # NoClip => from.of = Provenance(c, from.renderer),
         from.renderer = "legacy" /\ from.reason = "none" => ladder = "uninjected",
         UNCHANGED <<plates, asked, clip>>,
         sidecar' \in [Clips -> Renders \cup {NoClip}], SidecarsAreTrue'
  PROVE  MotionInv'
<1> USE DEF MotionInv
<1>1. /\ source' = [source EXCEPT ![c] = from] /\ hand' = [at |-> "film", of |-> "none"] /\ rungs' = <<>>
      /\ UNCHANGED <<image, map, ladder, moves, clip>> /\ c \in Clips
      /\ source \in [Clips -> Sources \cup {Unsourced}]
  BY DEF Serves, plates, asked, Unserved, MotionTypeOK
<1>2. MotionTypeOK'
  <2>1. rungs' \in Seq(Renderers)
    BY <1>1, EmptySeq
  <2>2. source' \in [Clips -> Sources \cup {Unsourced}]
    BY <1>1
  <2>3. hand' \in [at : {"rest", "film", "rung", "move", "note"}, of : Clips \cup {"none"}]
    BY <1>1
  <2>4. /\ Sources' = Sources /\ Renders' = Renders /\ Renderers' = Renderers /\ Tallied' = Tallied
        /\ Unsourced' = Unsourced /\ NoClip' = NoClip
    BY DEF Sources, Renders, Renderers, Tallied, Unsourced, NoClip
  <2> QED  BY <1>1, <2>1, <2>2, <2>3, <2>4 DEF MotionTypeOK
<1>3. HandIsTrue'
  BY <1>1 DEF HandIsTrue
<1>4. Counted'
  <2>1. /\ \A r \in {"flow", "warp", "legacy"} : Shown(r)' = Shown(r) + (IF from.renderer = r THEN 1 ELSE 0)
        /\ \A reason \in Reasons : Fallen(reason)' = Fallen(reason) + (IF from.reason = reason THEN 1 ELSE 0)
        /\ Cardinality({d \in Clips : source'[d].cached})
             = Cardinality({d \in Clips : source[d].cached}) + (IF from.cached THEN 1 ELSE 0)
    BY <1>1, ServeCounts
  <2>2. \A r \in {"flow", "warp", "legacy"} : tally'[r] = Shown(r)'
    BY <2>1 DEF Counted
  <2>3. \A reason \in Reasons : tally'[reason] = Fallen(reason)'
    BY <2>1 DEF Counted
  <2>4. tally'["cached"] = Cardinality({d \in Clips : source'[d].cached})
    BY <2>1 DEF Counted
  <2>5. Reasons' = Reasons
    BY DEF Reasons
  <2> QED  BY <2>2, <2>3, <2>4, <2>5 DEF Counted
<1>5. source'[c] = from /\ \A d \in Clips : d # c => source'[d] = source[d]
  BY <1>1
<1>6. FallsForAReason'
  BY <1>1, <1>5 DEF FallsForAReason
<1>7. ClipsAreOfTheirPlates'
  BY <1>1, <1>5 DEF ClipsAreOfTheirPlates, Provenance
<1> QED  BY <1>2, <1>3, <1>4, <1>6, <1>7

LEMMA LegacyKeeps ==
  ASSUME MotionInv, NEW c \in Unserved, NEW reason \in Reasons \cup {"none"}, Legacy(c, reason),
         reason = "none" => ladder = "uninjected", UNCHANGED <<plates, asked, clip, sidecar>>
  PROVE  MotionInv'
<1> DEFINE from == [renderer |-> "legacy", cached |-> FALSE, of |-> NoClip, reason |-> reason]
<1>1. Serves(c, from) /\ tally' = Tallies(reason)
  BY DEF Legacy
<1>2. from \in Sources
  BY DEF Sources, Renderers
<1>3. from.renderer = "legacy" /\ ~from.cached /\ from.of = NoClip /\ from.reason = reason
  OBVIOUS
<1> HIDE DEF from
<1>4. tally \in [Tallied -> Int]
  BY DEF MotionInv, MotionTypeOK
<1>5. /\ tally' \in [Tallied -> Int]
      /\ \A r \in {"flow", "warp", "legacy"} : tally'[r] = tally[r] + (IF r = "legacy" THEN 1 ELSE 0)
      /\ \A other \in Reasons : tally'[other] = tally[other] + (IF other = reason THEN 1 ELSE 0)
      /\ tally'["cached"] = tally["cached"]
  <2> DEFINE flat == [tally EXCEPT !["legacy"] = @ + 1]
  <2>1. /\ flat \in [Tallied -> Int] /\ flat["legacy"] = tally["legacy"] + 1
        /\ \A k \in Tallied : k # "legacy" => flat[k] = tally[k]
    BY <1>4 DEF Tallied
  <2>2. tally' = IF reason = "none" THEN flat ELSE [flat EXCEPT ![reason] = @ + 1]
    BY <1>1 DEF Tallies
  <2> HIDE DEF flat
  <2>3. CASE reason = "none"
    BY <1>4, <2>1, <2>2, <2>3 DEF Tallied, Reasons
  <2>4. CASE reason \in Reasons
    BY <1>4, <2>1, <2>2, <2>4 DEF Tallied, Reasons
  <2> QED  BY <2>3, <2>4
<1>6. sidecar' \in [Clips -> Renders \cup {NoClip}] /\ SidecarsAreTrue'
  BY DEF MotionInv, MotionTypeOK, SidecarsAreTrue
<1>7. /\ \A r \in {"flow", "warp", "legacy"} : tally'[r] = tally[r] + (IF from.renderer = r THEN 1 ELSE 0)
      /\ \A other \in Reasons : tally'[other] = tally[other] + (IF from.reason = other THEN 1 ELSE 0)
      /\ tally'["cached"] = tally["cached"] + (IF from.cached THEN 1 ELSE 0)
  BY <1>3, <1>4, <1>5 DEF Tallied
<1> QED  BY <1>1, <1>2, <1>3, <1>5, <1>6, <1>7, ServeKeeps

LEMMA ServedKeeps ==
  ASSUME MotionInv, NEW c \in Unserved, NEW r \in Renderers, NEW cached \in BOOLEAN, NEW of \in Renders,
         Served(c, r, cached, of), of = Provenance(c, r), UNCHANGED <<plates, asked, clip>>,
         sidecar' \in [Clips -> Renders \cup {NoClip}], SidecarsAreTrue'
  PROVE  MotionInv'
<1> DEFINE from == [renderer |-> r, cached |-> cached, of |-> of, reason |-> "none"]
           counted == [tally EXCEPT ![r] = @ + 1]
<1>1. Serves(c, from) /\ tally' = IF cached THEN [counted EXCEPT !["cached"] = @ + 1] ELSE counted
  BY DEF Served
<1>2. from \in Sources
  BY DEF Sources
<1>3. from.renderer = r /\ from.cached = cached /\ from.of = of /\ from.reason = "none"
  OBVIOUS
<1> HIDE DEF from
<1>4. tally \in [Tallied -> Int] /\ r \in Tallied /\ r # "cached" /\ r # "legacy" /\ r \notin Reasons
  BY DEF MotionInv, MotionTypeOK, Renderers, Tallied, Reasons
<1>5. /\ counted \in [Tallied -> Int] /\ counted[r] = tally[r] + 1
      /\ \A k \in Tallied : k # r => counted[k] = tally[k]
  BY <1>4
<1> HIDE DEF counted
<1>6. /\ tally' \in [Tallied -> Int] /\ tally'["cached"] = tally["cached"] + (IF cached THEN 1 ELSE 0)
      /\ \A k \in Tallied : k # "cached" => tally'[k] = counted[k]
  BY <1>1, <1>4, <1>5 DEF Tallied
<1>7. /\ \A q \in {"flow", "warp", "legacy"} : tally'[q] = tally[q] + (IF from.renderer = q THEN 1 ELSE 0)
      /\ \A reason \in Reasons : tally'[reason] = tally[reason] + (IF from.reason = reason THEN 1 ELSE 0)
      /\ tally'["cached"] = tally["cached"] + (IF from.cached THEN 1 ELSE 0)
  BY <1>3, <1>4, <1>5, <1>6 DEF Tallied, Reasons
<1>8. /\ from.of # NoClip => from.of = Provenance(c, from.renderer)
      /\ from.renderer = "legacy" /\ from.reason = "none" => ladder = "uninjected"
  BY <1>3, <1>4
<1> QED  BY <1>1, <1>2, <1>6, <1>7, <1>8, ServeKeeps

-----------------------------------------------------------------------------
(* The steps. *)

\* What a step leaves when it takes no clip and serves none.
LEMMA HandlingKeeps ==
  ASSUME MotionInv, UNCHANGED <<image, map, ladder, moves, source, tally>>,
         clip' \in [Clips -> Renders \cup {NoClip}], sidecar' \in [Clips -> Renders \cup {NoClip}],
         hand' \in [at : {"rest", "film", "rung", "move", "note"}, of : Clips \cup {"none"}],
         rungs' \in Seq(Renderers), SidecarsAreTrue', HandIsTrue'
  PROVE  MotionInv'
<1> USE DEF MotionInv
<1>1. /\ Sources' = Sources /\ Renders' = Renders /\ Renderers' = Renderers /\ Tallied' = Tallied
      /\ Unsourced' = Unsourced /\ NoClip' = NoClip
  BY DEF Sources, Renders, Renderers, Tallied, Unsourced, NoClip
<1>2. MotionTypeOK'
  BY <1>1 DEF MotionTypeOK
<1>3. Counted'
  BY DEF Counted, Shown, Fallen, Reasons
<1>4. FallsForAReason' /\ ClipsAreOfTheirPlates'
  BY DEF FallsForAReason, ClipsAreOfTheirPlates, Provenance
<1> QED  BY <1>2, <1>3, <1>4

\* What a step leaves when it forgets the sources of a pass.
LEMMA ForgettingKeeps ==
  ASSUME MotionInv, UNCHANGED <<clip, sidecar>>,
         image' \in [Clips -> Nat], map' \in [Clips -> Nat],
         ladder' \in Ladders, moves' \in Trajectories \cup {"none"}, hand'.at \in {"rest", "film"},
         hand' \in [at : {"rest", "film", "rung", "move", "note"}, of : Clips \cup {"none"}],
         rungs' \in Seq(Renderers), source' = [c \in Clips |-> Unsourced], tally' = NoTally
  PROVE  MotionInv'
<1> USE DEF MotionInv
<1>1. /\ Sources' = Sources /\ Renders' = Renders /\ Renderers' = Renderers /\ Tallied' = Tallied
      /\ Unsourced' = Unsourced /\ NoClip' = NoClip
  BY DEF Sources, Renders, Renderers, Tallied, Unsourced, NoClip
<1>2. tally' \in [Tallied -> Int]
  BY DEF NoTally, Tallied
<1>3. MotionTypeOK'
  BY <1>1, <1>2 DEF MotionTypeOK
<1>4. \A c \in Clips : source'[c] = Unsourced
  OBVIOUS
<1>5. Counted'
  <2>1. /\ \A r \in {"flow", "warp", "legacy"} : tally'[r] = 0
        /\ \A reason \in Reasons : tally'[reason] = 0
        /\ tally'["cached"] = 0
    BY DEF NoTally
  <2>2. /\ \A r \in {"flow", "warp", "legacy"} : {c \in Clips : source'[c].renderer = r} = {}
        /\ \A reason \in Reasons : {c \in Clips : source'[c].reason = reason} = {}
        /\ {c \in Clips : source'[c].cached} = {}
    BY <1>4 DEF Unsourced, Reasons
  <2>3. Reasons' = Reasons
    BY DEF Reasons
  <2> QED  BY <2>1, <2>2, <2>3, FS_EmptySet DEF Counted, Shown, Fallen
<1>6. SidecarsAreTrue' /\ HandIsTrue' /\ FallsForAReason' /\ ClipsAreOfTheirPlates'
  BY <1>4 DEF SidecarsAreTrue, HandIsTrue, FallsForAReason, ClipsAreOfTheirPlates, Unsourced
<1> QED  BY <1>3, <1>5, <1>6

LEMMA HeadOfRungs ==
  ASSUME MotionInv, rungs # <<>>
  PROVE  Head(rungs) \in Renderers /\ Tail(rungs) \in Seq(Renderers)
  BY HeadTailProperties DEF MotionInv, MotionTypeOK

LEMMA ProvenanceIsARender ==
  ASSUME MotionInv, NEW c \in Clips, NEW r \in Renderers
  PROVE  Provenance(c, r) \in Renders /\ Provenance(c, r).renderer = r
  BY DEF MotionInv, MotionTypeOK, Renders, Provenance

LEMMA RendersAreClips == NoClip \notin Renders
  BY DEF NoClip, Renders, Renderers

LEMMA MotionSteps == ASSUME MotionInv, MotionNext PROVE MotionInv'
<1> USE DEF MotionInv
<1>1. /\ image \in [Clips -> Nat] /\ map \in [Clips -> Nat]
      /\ ladder \in Ladders /\ moves \in Trajectories \cup {"none"}
      /\ clip \in [Clips -> Renders \cup {NoClip}] /\ sidecar \in [Clips -> Renders \cup {NoClip}]
      /\ hand \in [at : {"rest", "film", "rung", "move", "note"}, of : Clips \cup {"none"}]
      /\ rungs \in Seq(Renderers)
  BY DEF MotionTypeOK
<1>2. CASE Remake
  <2>1. image' \in [Clips -> Nat] /\ map' \in [Clips -> Nat]
    <3>1. PICK c \in Clips :
            \/ image' = [image EXCEPT ![c] = @ + 1] /\ map' = map
            \/ map' = [map EXCEPT ![c] = IF @ = NoMap THEN 1 ELSE NoMap] /\ image' = image
      BY <1>2 DEF Remake
    <3>2. CASE image' = [image EXCEPT ![c] = @ + 1] /\ map' = map
      BY <1>1, <3>2
    <3>3. CASE map' = [map EXCEPT ![c] = IF @ = NoMap THEN 1 ELSE NoMap] /\ image' = image
      <4>1. (IF map[c] = NoMap THEN 1 ELSE NoMap) \in Nat
        BY DEF NoMap
      <4> QED  BY <1>1, <3>3, <4>1
    <3> QED  BY <3>1, <3>2, <3>3
  <2>2. /\ hand' = hand /\ hand.at = "rest" /\ rungs' = rungs
        /\ UNCHANGED <<ladder, moves, clip, sidecar>>
        /\ source' = [c \in Clips |-> Unsourced] /\ tally' = NoTally
    BY <1>2 DEF Remake, Rests, AtRest, asked
  <2> QED  BY <1>1, <2>1, <2>2, ForgettingKeeps
<1>3. CASE Roll
  <2>1. /\ hand' = [at |-> "film", of |-> "none"] /\ UNCHANGED <<image, map, clip, sidecar, rungs>>
        /\ ladder' \in Ladders /\ moves' \in Trajectories \cup {"none"}
        /\ source' = [c \in Clips |-> Unsourced] /\ tally' = NoTally
    BY <1>3 DEF Roll, plates
  <2>2. /\ hand' \in [at : {"rest", "film", "rung", "move", "note"}, of : Clips \cup {"none"}]
        /\ hand'.at = "film"
    BY <2>1
  <2> QED  BY <1>1, <2>1, <2>2, ForgettingKeeps
<1>4. CASE Killed
  <2>1. /\ hand' = AtRest /\ rungs' = <<>> /\ UNCHANGED <<image, map, ladder, moves, clip, sidecar>>
        /\ source' = [c \in Clips |-> Unsourced] /\ tally' = NoTally
    BY <1>4 DEF Killed, plates, asked
  <2>2. /\ hand' \in [at : {"rest", "film", "rung", "move", "note"}, of : Clips \cup {"none"}]
        /\ hand'.at = "rest" /\ rungs' \in Seq(Renderers)
    BY <2>1, EmptySeq DEF AtRest
  <2> QED  BY <1>1, <2>1, <2>2, ForgettingKeeps
<1>5. CASE Wrap
  <2>1. hand' = AtRest /\ UNCHANGED <<image, map, ladder, moves, clip, sidecar, rungs, source, tally>>
    BY <1>5 DEF Wrap, plates, asked
  <2>2. /\ hand' \in [at : {"rest", "film", "rung", "move", "note"}, of : Clips \cup {"none"}]
        /\ hand'.at = "rest"
    BY <2>1 DEF AtRest
  <2>3. SidecarsAreTrue' /\ HandIsTrue'
    BY <2>1, <2>2 DEF SidecarsAreTrue, HandIsTrue
  <2> QED  BY <1>1, <2>1, <2>2, <2>3, HandlingKeeps
<1>6. CASE Flat
  <2>1. PICK c \in Unserved, reason \in Reasons \cup {"none"} :
          Legacy(c, reason) /\ (reason = "none" => ladder = "uninjected")
    BY <1>6 DEF Flat, Reasons
  <2>2. UNCHANGED <<plates, asked, clip, sidecar>>
    BY <1>6 DEF Flat
  <2> QED  BY <2>1, <2>2, LegacyKeeps
<1>7. CASE Raised \/ Exhausted
  <2>1. PICK c, reason : c = hand.of /\ reason \in {"renderer_exception", "renderer_failed"} /\ Legacy(c, reason)
    BY <1>7 DEF Raised, Exhausted
  <2>2. c \in Unserved /\ reason \in Reasons \cup {"none"} /\ reason # "none"
    BY <1>7, <2>1 DEF Raised, Exhausted, Rung, HandIsTrue, Reasons
  <2>3. UNCHANGED <<plates, asked, clip, sidecar>>
    BY <1>7 DEF Raised, Exhausted
  <2> QED  BY <2>1, <2>2, <2>3, LegacyKeeps
<1>8. CASE Climb
  <2>1. PICK c \in Unserved : hand' = [at |-> "rung", of |-> c]
    BY <1>8 DEF Climb
  <2>2. /\ UNCHANGED <<image, map, ladder, moves, clip, sidecar, source, tally>>
        /\ ladder \in {"warp", "flow"} /\ rungs' = Backends
    BY <1>8 DEF Climb, plates, asked
  <2>3. /\ hand' \in [at : {"rest", "film", "rung", "move", "note"}, of : Clips \cup {"none"}]
        /\ hand'.at = "rung" /\ hand'.of = c
    BY <2>1 DEF Unserved
  <2>4. rungs' \in Seq(Renderers)
    <3>1. "flow" \in Renderers /\ "warp" \in Renderers
      BY DEF Renderers
    <3>2. <<"flow", "warp">> \in Seq(Renderers) /\ <<"warp">> \in Seq(Renderers)
      <4> HIDE DEF Renderers
      <4> QED  BY <3>1
    <3> QED  BY <2>2, <3>2 DEF Backends
  <2>5. SidecarsAreTrue' /\ HandIsTrue'
    BY <2>2, <2>3 DEF SidecarsAreTrue, HandIsTrue, Unserved
  <2> QED  BY <1>1, <2>2, <2>3, <2>4, <2>5, HandlingKeeps
<1>9. CASE RungFails \/ ProbeRefuses
  <2>1. /\ UNCHANGED <<image, map, ladder, moves, clip, sidecar, hand, made, source, tally>>
        /\ rungs # <<>> /\ rungs' = Tail(rungs)
    BY <1>9 DEF RungFails, ProbeRefuses, NextRung, Rung, plates, asked
  <2>2. rungs' \in Seq(Renderers)
    BY <2>1, HeadOfRungs
  <2>3. SidecarsAreTrue' /\ HandIsTrue'
    BY <2>1 DEF SidecarsAreTrue, HandIsTrue, Unserved, Provenance
  <2> QED  BY <1>1, <2>1, <2>2, <2>3, HandlingKeeps
<1>10. CASE Cached
  <2>1. PICK c, r, of : c = hand.of /\ r = Head(rungs) /\ of = clip[c]
    OBVIOUS
  <2>2. /\ hand.at = "rung" /\ rungs # <<>> /\ clip[c] # NoClip /\ sidecar[c] = Provenance(c, r)
        /\ Served(c, r, TRUE, of) /\ UNCHANGED <<plates, asked, clip, sidecar>>
    BY <1>10, <2>1 DEF Cached, Rung, Hit
  <2>3. c \in Unserved /\ c \in Clips /\ r \in Renderers
    BY <2>1, <2>2, HeadOfRungs DEF HandIsTrue, Unserved
  <2>4. of \in Renders /\ of = Provenance(c, r)
    <3>1. sidecar[c] \in Renders /\ sidecar[c] # NoClip
      BY <2>2, <2>3, ProvenanceIsARender, RendersAreClips
    <3> QED  BY <2>1, <2>2, <2>3, <3>1 DEF SidecarsAreTrue
  <2>5. sidecar' \in [Clips -> Renders \cup {NoClip}] /\ SidecarsAreTrue'
    BY <1>1, <2>2 DEF SidecarsAreTrue
  <2> QED  BY <2>2, <2>3, <2>4, <2>5, ServedKeeps
<1>11. CASE Render
  <2>1. PICK c, r : c = hand.of /\ r = Head(rungs)
    OBVIOUS
  <2>2. /\ hand.at = "rung" /\ rungs # <<>> /\ made' = Provenance(c, r)
        /\ sidecar' = [sidecar EXCEPT ![c] = NoClip] /\ hand' = [hand EXCEPT !.at = "move"]
        /\ UNCHANGED <<image, map, ladder, moves, clip, rungs, source, tally>>
    BY <1>11, <2>1 DEF Render, Rung, plates, asked
  <2>3. c \in Unserved /\ c \in Clips /\ r \in Renderers /\ ladder \in {"warp", "flow"}
    BY <2>1, <2>2, HeadOfRungs DEF HandIsTrue, Unserved
  <2>4. /\ sidecar' \in [Clips -> Renders \cup {NoClip}] /\ sidecar'[c] = NoClip
        /\ \A d \in Clips : d # c => sidecar'[d] = sidecar[d]
    BY <1>1, <2>2, <2>3
  <2>5. /\ hand' \in [at : {"rest", "film", "rung", "move", "note"}, of : Clips \cup {"none"}]
        /\ hand'.at = "move" /\ hand'.of = c
    BY <1>1, <2>1, <2>2
  <2>6. made' \in Renders /\ made'.renderer = r
    BY <2>2, <2>3, ProvenanceIsARender
  <2>7. SidecarsAreTrue'
    BY <2>2, <2>3, <2>4 DEF SidecarsAreTrue, NoClip
  <2>8. HandIsTrue'
    <3>1. Unserved' = Unserved /\ Renders' = Renders /\ NoClip' = NoClip
      BY <2>2 DEF Unserved, Renders, Renderers, NoClip, Unsourced
    <3>2. made' = Provenance(hand.of, made.renderer)'
      BY <2>2, <2>5, <2>6 DEF Provenance
    <3> QED  BY <2>2, <2>3, <2>4, <2>5, <2>6, <3>1, <3>2 DEF HandIsTrue
  <2> QED  BY <1>1, <2>2, <2>4, <2>5, <2>7, <2>8, HandlingKeeps
<1>12. CASE MoveClip
  <2>1. PICK c : c = hand.of
    OBVIOUS
  <2>2. /\ hand.at = "move" /\ clip' = [clip EXCEPT ![c] = made] /\ hand' = [hand EXCEPT !.at = "note"]
        /\ UNCHANGED <<image, map, ladder, moves, sidecar, rungs, made, source, tally>>
    BY <1>12, <2>1 DEF MoveClip, plates, asked
  <2>3. /\ c \in Unserved /\ c \in Clips /\ ladder \in {"warp", "flow"}
        /\ made \in Renders /\ made = Provenance(c, made.renderer) /\ sidecar[c] = NoClip
    BY <2>1, <2>2 DEF HandIsTrue, Unserved
  <2>4. /\ clip' \in [Clips -> Renders \cup {NoClip}] /\ clip'[c] = made
        /\ \A d \in Clips : d # c => clip'[d] = clip[d]
    BY <1>1, <2>2, <2>3
  <2>5. /\ hand' \in [at : {"rest", "film", "rung", "move", "note"}, of : Clips \cup {"none"}]
        /\ hand'.at = "note" /\ hand'.of = c
    BY <1>1, <2>1, <2>2
  <2>6. SidecarsAreTrue'
    BY <2>2, <2>3, <2>4 DEF SidecarsAreTrue, NoClip
  <2>7. HandIsTrue'
    <3>1. Unserved' = Unserved /\ Renders' = Renders /\ NoClip' = NoClip
      BY <2>2 DEF Unserved, Renders, Renderers, NoClip, Unsourced
    <3>2. Provenance(hand.of, made.renderer)' = Provenance(c, made.renderer)
      BY <2>2, <2>5 DEF Provenance
    <3> QED  BY <2>2, <2>3, <2>4, <2>5, <3>1, <3>2 DEF HandIsTrue
  <2> QED  BY <1>1, <2>2, <2>4, <2>5, <2>6, <2>7, HandlingKeeps
<1>13. CASE NoteClip
  <2>1. PICK c, r, of : c = hand.of /\ r = made.renderer /\ of = clip[c]
    OBVIOUS
  <2>2. /\ hand.at = "note" /\ sidecar' = [sidecar EXCEPT ![c] = made]
        /\ Served(c, r, FALSE, of) /\ UNCHANGED <<plates, asked, clip>>
    BY <1>13, <2>1 DEF NoteClip
  <2>3. c \in Unserved /\ c \in Clips /\ made \in Renders /\ made = Provenance(c, r) /\ of = made
    BY <2>1, <2>2 DEF HandIsTrue, Unserved
  <2>4. r \in Renderers
    BY <2>1, <2>3 DEF Renders
  <2>5. /\ sidecar' \in [Clips -> Renders \cup {NoClip}] /\ sidecar'[c] = made
        /\ \A d \in Clips : d # c => sidecar'[d] = sidecar[d]
    BY <1>1, <2>2, <2>3
  <2>6. SidecarsAreTrue'
    BY <2>1, <2>2, <2>3, <2>5 DEF SidecarsAreTrue, NoClip
  <2> QED  BY <2>2, <2>3, <2>4, <2>5, <2>6, ServedKeeps
<1> QED  BY <1>2, <1>3, <1>4, <1>5, <1>6, <1>7, <1>8, <1>9, <1>10, <1>11, <1>12, <1>13
  DEF MotionNext

\* No step loses a good clip but the one that begins to replace it.
LEMMA GoodClipsStay == ASSUME MotionInv, MotionNext PROVE ClipsAreKept
<1> SUFFICES ASSUME NEW c \in Clips, Good(c), ~Good(c)'
    PROVE  hand'.at = "move" /\ hand'.of = c /\ made' # sidecar[c]
  BY DEF ClipsAreKept
<1>1. /\ clip \in [Clips -> Renders \cup {NoClip}] /\ sidecar \in [Clips -> Renders \cup {NoClip}]
      /\ hand \in [at : {"rest", "film", "rung", "move", "note"}, of : Clips \cup {"none"}]
      /\ HandIsTrue
  BY DEF MotionInv, MotionTypeOK
<1>2. clip[c] # NoClip /\ sidecar[c] = clip[c]
  BY DEF Good
<1>3. CASE UNCHANGED <<clip, sidecar>>
  BY <1>3 DEF Good, NoClip
<1>4. CASE Render
  <2>1. c = hand.of
    BY <1>1, <1>4 DEF Render, Good, NoClip
  <2>2. sidecar[c] # Provenance(c, Head(rungs))
    BY <1>2, <1>4, <2>1 DEF Render, Hit
  <2> QED  BY <1>1, <1>4, <2>1, <2>2 DEF Render
<1>5. CASE MoveClip
  <2>1. hand.of \in Clips /\ sidecar[hand.of] = NoClip /\ sidecar' = sidecar
    BY <1>1, <1>5 DEF MoveClip, HandIsTrue, Unserved
  <2>2. c # hand.of
    BY <1>2, <2>1
  <2>3. clip'[c] = clip[c]
    BY <1>1, <1>5, <2>2 DEF MoveClip
  <2> QED  BY <2>1, <2>3 DEF Good, NoClip
<1>6. CASE NoteClip
  <2>1. hand.of \in Clips /\ sidecar[hand.of] = NoClip /\ clip' = clip
    BY <1>1, <1>6 DEF NoteClip, HandIsTrue, Unserved
  <2>2. c # hand.of
    BY <1>2, <2>1
  <2>3. sidecar'[c] = sidecar[c]
    BY <1>1, <1>6, <2>2 DEF NoteClip
  <2> QED  BY <2>1, <2>3 DEF Good, NoClip
<1> QED
  <2>1. CASE Remake \/ Roll \/ Wrap \/ Killed
    BY <1>3, <2>1 DEF Remake, Roll, Wrap, Killed
  <2>2. CASE Flat \/ Climb \/ Raised \/ Cached \/ Exhausted
    BY <1>3, <2>2 DEF Flat, Climb, Raised, Cached, Exhausted
  <2>3. CASE RungFails \/ ProbeRefuses
    BY <1>3, <2>3 DEF RungFails, ProbeRefuses, NextRung
  <2> QED  BY <1>4, <1>5, <1>6, <2>1, <2>2, <2>3 DEF MotionNext

LEMMA MotionStays == ASSUME MotionInv, UNCHANGED motionVars PROVE MotionInv'
<1>1. SidecarsAreTrue' /\ HandIsTrue'
  BY DEF motionVars, MotionInv, SidecarsAreTrue, HandIsTrue, Unserved, Provenance, Renders,
    Renderers, NoClip, Unsourced
<1> QED  BY <1>1, HandlingKeeps DEF motionVars, MotionInv, MotionTypeOK

LEMMA MotionHolds == Spec => []MotionInv
<1>1. Init => MotionInv
  BY MotionBegins DEF Init
<1>2. MotionInv /\ [Next]_allVars => MotionInv'
  <2>1. [Next]_allVars => MotionNext \/ UNCHANGED motionVars
    BY DEF Next, allVars
  <2> QED  BY <2>1, MotionSteps, MotionStays
<1> QED  BY <1>1, <1>2, PTL DEF Spec

\* A moving background is of its plate, its map, its trajectory and its
\* renderer, a pass tells of its renderers what it shows, and no good clip is
\* lost but to one that was rendered: for any clips, passes, changes, deaths.
THEOREM BackgroundsAreOfTheirPlates == Spec => MotionIsOfItsPlate
<1>1. MotionInv /\ [Next]_allVars => [ClipsAreOfTheirPlates' /\ TallyIsTrue' /\ ClipsAreKept]_motionVars
  <2> SUFFICES ASSUME MotionInv, [Next]_allVars, ~UNCHANGED motionVars
      PROVE  ClipsAreOfTheirPlates' /\ TallyIsTrue' /\ ClipsAreKept
    OBVIOUS
  <2>1. MotionNext
    BY DEF Next, allVars
  <2>2. MotionInv' /\ ClipsAreKept
    BY <2>1, MotionSteps, GoodClipsStay
  <2>3. TallyIsTrue'
    BY <2>2 DEF MotionInv, TallyIsTrue, Counted, FallsForAReason
  <2> QED  BY <2>2, <2>3 DEF MotionInv
<1> QED  BY <1>1, MotionHolds, PTL DEF Spec, MotionIsOfItsPlate
=============================================================================
