------------------------------ MODULE DepthMaps ------------------------------
(* The depth maps of the plates: estimated once per image and model, kept in *)
(* a cache that the runs and the backfill share.  Plates are drawn again in  *)
(* place, and the model is changed, while a map is on its way.               *)
EXTENDS PlateShelf

CONSTANTS
  Estimators,    \* processes that ask for maps, each for one at a time
  UploadOf,      \* the base name each uploads under
  Models,
  DepthFaults,   \* "estimate", "torn pair"; "namesake"
  MaxMaps

ASSUME MapsBounded == MaxMaps \in Nat /\ Models # {}

VARIABLES
  model,        \* the checkpoint of the settings
  maps,         \* the cache, by image and model: what its map was made of
  asking,       \* per estimator: the plate, the image it had, the model
  inbox,        \* ComfyUI's input directory: the image under each name
  estimates

depthVars == <<model, maps, asking, inbox, estimates>>

Unasked == [at |-> "idle", on |-> Unseeding.on, of |-> 0, by |-> CHOOSE m \in Models : TRUE]
NoPair == [of |-> 0, whole |-> FALSE]

DepthInit ==
  /\ model = Unasked.by
  /\ maps = [i \in 1 .. MaxPlates |-> [m \in Models |-> NoPair]]
  /\ asking = [w \in Estimators |-> Unasked]
  /\ inbox = [n \in {UploadOf[w] : w \in Estimators} |-> 0]
  /\ estimates = 0

\* verify_depth_pair.
Verified(i, m) == i # 0 /\ maps[i][m].whole

\* depth_map_file up to the await: the digest and the upload are of one image.
AskMap(w, p) ==
  /\ asking[w].at = "idle" /\ estimates < MaxMaps
  /\ disk[p].image # 0 /\ ~Verified(disk[p].image, model)
  /\ (\E v \in Estimators \ {w} : asking[v].at # "idle" /\ UploadOf[v] = UploadOf[w])
       => "namesake" \in DepthFaults
  /\ asking' = [asking EXCEPT ![w] =
       [at |-> "asked", on |-> p, of |-> disk[p].image, by |-> model]]
  /\ inbox' = [inbox EXCEPT ![UploadOf[w]] = disk[p].image]
  /\ estimates' = estimates + 1
  /\ UNCHANGED <<model, maps>>

Gives(w, i) ==
  LET a == asking[w]
      pair == [of |-> inbox[UploadOf[w]], whole |-> TRUE] IN
  /\ a.at = "asked"
  /\ asking' = [asking EXCEPT ![w] = Unasked]
  /\ \/ maps' = [maps EXCEPT ![i][a.by] = pair]
     \/ "estimate" \in DepthFaults /\ UNCHANGED maps
     \* The map, and no sidecar: the one that is there knows another digest.
     \/ /\ "torn pair" \in DepthFaults
        /\ maps' = [maps EXCEPT ![i][a.by] = [pair EXCEPT !.whole = @ /\ maps[i][a.by] = pair]]
  /\ UNCHANGED <<model, inbox, estimates>>

\* Mutant: the digest is taken of the plate as it is when the map comes back.
GiveMapLate(w) == Gives(w, disk[asking[w].on].image)
GiveMap(w) == Gives(w, asking[w].of)

ChangeModel ==
  /\ model' \in Models \ {model}
  /\ UNCHANGED <<maps, asking, inbox, estimates>>

DepthNext ==
  \/ \E w \in Estimators : (\E p \in Plates : AskMap(w, p)) \/ GiveMap(w)
  \/ ChangeModel

PlatesInit == ShelfInit /\ DepthInit
PlatesNext ==
  \/ ShelfNext /\ UNCHANGED depthVars
  \/ DepthNext /\ UNCHANGED shelfVars

(* The cache "cannot serve a stale map after a plate is re-rolled in place", *)
(* nor one of another plate: a pair that is verified is of the image it is   *)
(* asked for.                                                                *)
MapsAreOfTheirImages ==
  \A i \in 1 .. MaxPlates : \A m \in Models : Verified(i, m) => maps[i][m].of = i
=============================================================================
