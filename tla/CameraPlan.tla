----------------------------- MODULE CameraPlan -----------------------------
(* The camera of each shot: what the breakdown asks for, resolved by the    *)
(* mood of its scene and varied against the shot before it (build_scenes), *)
(* and the two motion metrics that the evaluation makes of a whole run.     *)
EXTENDS Integers, Sequences, FiniteSets

CONSTANTS
  MaxTakes,  \* bound: shots of a scene
  MaxFilm    \* bound: scenes of a run

VARIABLES
  mood,   \* of the scene in hand, "none" between scenes
  asked,  \* the camera_movement the breakdown gave each of its shots
  film    \* the scenes built: the camera_movement of each shot

cameraVars == <<mood, asked, film>>

Archetypes == {"push_in", "pull_back", "drift", "locked", "shake"}
CameraPreferences ==
  [dread |-> <<"push_in", "drift", "locked">>,
   clinical |-> <<"locked", "drift", "pull_back">>,
   escalation |-> <<"shake", "drift", "push_in">>,
   revelation |-> <<"push_in", "pull_back", "drift">>]

\* _resolve_camera_movement: what is absent or unknown is the mood's default.
Resolved(movement, m) == IF movement \in Archetypes THEN movement ELSE CameraPreferences[m][1]

\* _enforce_camera_variety: against the shot before, as it ended up.
Other(movement, m) == CameraPreferences[m][IF CameraPreferences[m][1] = movement THEN 2 ELSE 1]
Unlike(last, movement, m) == IF movement = last THEN Other(last, m) ELSE movement
CamerasOf(list, m) ==
  LET taken[i \in DOMAIN list] ==
        IF i = 1 THEN Resolved(list[i], m) ELSE Unlike(taken[i - 1], Resolved(list[i], m), m)
  IN taken

-----------------------------------------------------------------------------
CameraInit == mood = "none" /\ asked = <<>> /\ film = <<>>

\* resolve_mood gives a scene one of the four.
OpenScene ==
  /\ mood = "none" /\ Len(film) < MaxFilm
  /\ mood' \in DOMAIN CameraPreferences
  /\ asked' = <<>> /\ UNCHANGED film

AddShot ==
  /\ mood # "none" /\ Len(asked) < MaxTakes
  /\ \E movement \in Archetypes \cup {"unknown"} : asked' = Append(asked, movement)
  /\ UNCHANGED <<mood, film>>

CloseScene ==
  /\ mood # "none" /\ asked # <<>>
  /\ film' = Append(film, CamerasOf(asked, mood))
  /\ mood' = "none" /\ UNCHANGED asked

CameraNext == OpenScene \/ AddShot \/ CloseScene
CameraEnded == mood = "none" /\ Len(film) = MaxFilm

CameraSpec == CameraInit /\ [][CameraNext]_cameraVars
-----------------------------------------------------------------------------
(* The metrics: eval_service's _motion_repeat_ratio, over the shots of all  *)
(* scenes, and _motion_archetype_coverage.                                  *)

MotionKey(movement) == IF movement \in Archetypes THEN movement ELSE "unmapped"

\* The shots in the order of the run; no scene is without one.
Takes == UNION {{s} \X DOMAIN film[s] : s \in DOMAIN film}
Following(take) == IF take[2] < Len(film[take[1]]) THEN <<take[1], take[2] + 1>> ELSE <<take[1] + 1, 1>>
KeyOf(take) == MotionKey(film[take[1]][take[2]])
Repeats ==
  Cardinality({take \in Takes : Following(take) \in Takes /\ KeyOf(take) = KeyOf(Following(take))})
Used == {KeyOf(take) : take \in Takes} \ {"unmapped"}

(* No two shots of a scene that follow one another move alike, and a shot   *)
(* keeps the movement it was asked for unless the shot before it has it.    *)
(* What the metrics see is therefore the cut of the scenes: a repeat at     *)
(* most at each boundary, never a shot without an archetype, and two of     *)
(* them at least once a scene has two shots.                                *)
CamerasVary ==
  mood = "none" /\ film # <<>> =>
    LET shown == film[Len(film)]
    IN /\ \A i \in 2 .. Len(shown) : shown[i] # shown[i - 1]
       /\ \A i \in DOMAIN shown :
            asked[i] \in Archetypes /\ (i = 1 \/ shown[i - 1] # asked[i]) => shown[i] = asked[i]
       /\ Repeats <= Len(film) - 1
       /\ Cardinality(Used) >= IF \E s \in DOMAIN film : Len(film[s]) > 1 THEN 2 ELSE 1
=============================================================================
