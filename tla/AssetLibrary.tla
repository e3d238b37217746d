---------------------------- MODULE AssetLibrary ----------------------------
(* The works on the asset library: runs and the character page fill the rows *)
(* of a cast, the operator's scripts replace whole card sets, plates are      *)
(* drawn, judged and measured for depth, the candidate panel draws the        *)
(* angles of a character from references, and each of them has its cards      *)
(* drawn one by one.  They share the manifest's file and no entry of it, so a *)
(* behaviour shows one of them.                                               *)
EXTENDS CardProvisioning, RelitSprites, DepthMaps, CandidateBoard, CardDrawing

VARIABLE tended   \* which of them

allVars == <<vars, stagingVars, relitVars, shelfVars, depthVars, boardVars, drawVars, tended>>

LibraryInit ==
  /\ Init /\ CardsInit /\ PlatesInit /\ BoardInit /\ DrawInit
  /\ tended \in {"casts", "cards", "plates", "board", "drawing"}

LibraryNext ==
  /\ UNCHANGED tended
  /\ \/ /\ tended = "casts" /\ Next
        /\ UNCHANGED <<stagingVars, relitVars, shelfVars, depthVars, boardVars, drawVars>>
     \/ /\ tended = "cards" /\ CardsNext
        /\ UNCHANGED <<vars, shelfVars, depthVars, boardVars, drawVars>>
     \/ /\ tended = "plates" /\ PlatesNext
        /\ UNCHANGED <<vars, stagingVars, relitVars, boardVars, drawVars>>
     \/ /\ tended = "board" /\ BoardNext
        /\ UNCHANGED <<vars, stagingVars, relitVars, shelfVars, depthVars, drawVars>>
     \/ /\ tended = "drawing" /\ DrawNext
        /\ UNCHANGED <<vars, stagingVars, relitVars, shelfVars, depthVars, boardVars>>
LibrarySpec == LibraryInit /\ [][LibraryNext]_allVars

(* What is served was made for what it is served as, whatever is deleted,    *)
(* drawn again or promoted while it was being made: a card shows the         *)
(* character its key names and the person its reference shows, a plate that  *)
(* is offered the room that was judged fit, a sprite is of the card it       *)
(* stands for, a depth map of the image it is asked for.                     *)
NothingIsOfAnother ==
  /\ NeverAStranger /\ CardsAreOfTheirModels /\ OfferedAsJudged
  /\ SpritesAreOfTheirCards /\ MapsAreOfTheirImages
=============================================================================
