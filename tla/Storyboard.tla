----------------------------- MODULE Storyboard -----------------------------
(* From an outline to a plan of images: the outline itself and what each   *)
(* scene's writer is told of it, how the scenario node comes to a text and *)
(* the shots made for it, where the cast of each shot stands, how its      *)
(* camera moves, and when each shot of a scene is seen.  None reads what   *)
(* another writes but in the ways its module names, so a behaviour shows   *)
(* one of them.                                                            *)
EXTENDS ScenarioStage, OutlinePlan, ShotPlacement, CameraPlan, SceneTimeline

allVars == <<chainVars, outlineVars, placementVars, cameraVars, timelineVars>>

Init == ChainInit /\ OutlineInit /\ PlacementInit /\ CameraInit /\ TimelineInit

Planning == planning # "none"
Filming == mood # "none" \/ film # <<>>
Cutting == step # "none"
OthersIdle == ~Planning /\ ~Filming /\ ~Cutting

Next ==
  \/ /\ OthersIdle /\ PlacementInit /\ ChainNext
     /\ UNCHANGED <<outlineVars, placementVars, cameraVars, timelineVars>>
  \/ /\ OthersIdle /\ ChainInit /\ PlacementNext
     /\ UNCHANGED <<chainVars, outlineVars, cameraVars, timelineVars>>
  \/ /\ ~Filming /\ ~Cutting /\ ChainInit /\ PlacementInit /\ OutlineNext
     /\ UNCHANGED <<chainVars, placementVars, cameraVars, timelineVars>>
  \/ /\ ~Planning /\ ~Cutting /\ ChainInit /\ PlacementInit /\ CameraNext
     /\ UNCHANGED <<chainVars, outlineVars, placementVars, timelineVars>>
  \/ /\ ~Planning /\ ~Filming /\ ChainInit /\ PlacementInit /\ TimelineNext
     /\ UNCHANGED <<chainVars, outlineVars, placementVars, cameraVars>>
  \/ (OutlineEnded \/ CameraEnded \/ step \in {"cut", "failed"}) /\ UNCHANGED allVars

Spec == Init /\ [][Next]_allVars

(* What is planned holds together: the outline and the writers' briefs      *)
(* (OutlinePlan), the text with its shots and its verdict (ScenarioStage),  *)
(* and the movements of the camera (CameraPlan).                            *)
PlanHolds == OutlineIsKept /\ HandedOnFits /\ CamerasVary
=============================================================================
