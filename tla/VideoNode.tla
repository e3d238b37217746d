------------------------------ MODULE VideoNode ------------------------------
(* The works of video_node: which cards its cast comes to, who is seen in   *)
(* the shots, what moves behind them, the film that is made of it, the      *)
(* filter graphs by which ffmpeg makes it, and where a card stands in them. *)
(* Each finds files of its own that earlier passes left, and none looks at  *)
(* the other's, so a behaviour shows one of them.                           *)
EXTENDS CastResolution, VideoStage, MotionLadder, FilmAssembly, FrameGraph, CardGeometry

allVars == <<castVars, figuresVars, motionVars, filmVars, graphVars, geometryVars>>

Init == CastInit /\ FiguresInit /\ MotionInit /\ FilmInit /\ GraphInit /\ GeometryInit

Resolved == casting # << >>
Figured == rounds > 0
Moved == films + remakes > 0
Scripted == script # <<>>
Graphed == job # NoJob
Staged == staged # NoShot

Next ==
  \/ /\ ~Figured /\ ~Moved /\ ~Scripted /\ ~Graphed /\ ~Staged /\ CastNext
     /\ UNCHANGED <<figuresVars, motionVars, filmVars, graphVars, geometryVars>>
  \/ /\ ~Resolved /\ ~Moved /\ ~Scripted /\ ~Graphed /\ ~Staged /\ FiguresNext
     /\ UNCHANGED <<castVars, motionVars, filmVars, graphVars, geometryVars>>
  \/ /\ ~Resolved /\ ~Figured /\ ~Scripted /\ ~Graphed /\ ~Staged /\ MotionNext
     /\ UNCHANGED <<castVars, figuresVars, filmVars, graphVars, geometryVars>>
  \/ /\ ~Resolved /\ ~Figured /\ ~Moved /\ ~Graphed /\ ~Staged /\ FilmNext
     /\ UNCHANGED <<castVars, figuresVars, motionVars, graphVars, geometryVars>>
  \/ /\ ~Resolved /\ ~Figured /\ ~Moved /\ ~Scripted /\ ~Staged /\ GraphNext
     /\ UNCHANGED <<castVars, figuresVars, motionVars, filmVars, geometryVars>>
  \/ /\ ~Resolved /\ ~Figured /\ ~Moved /\ ~Scripted /\ ~Graphed /\ GeometryNext
     /\ UNCHANGED <<castVars, figuresVars, motionVars, filmVars, graphVars>>
Spec == Init /\ [][Next]_allVars

(* Nobody the script calls for is lost on the way to the picture: a shot's   *)
(* cards are those its cast asks for (CastResolution), and each is seen in    *)
(* the shot (VideoStage); or the run is told.                                 *)
CastIsSeen == CastIsDealt /\ SeenOnceOrTold

(* The film is the whole script (FilmAssembly), and ffmpeg is given graphs it *)
(* takes and that show and sound what was made for it (FrameGraph).           *)
FilmIsTrue == FilmIsWhole /\ GraphIsSound
=============================================================================
