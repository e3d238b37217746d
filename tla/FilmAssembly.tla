---------------------------- MODULE FilmAssembly ----------------------------
(* The last part of the video stage (video_node from the clip loop on): the *)
(* scenes of a script are rendered one by one, a dark piece is rendered for *)
(* every boundary, a credit for the end, and all of it is joined into one   *)
(* film.  Pieces are files of the run's directory; a later take of the run  *)
(* finds those of the earlier ones there.                                   *)
EXTENDS Integers, Sequences

CONSTANTS
  Scripts,   \* sequences of scenes: of each its mood and the shots of its plan
  Knobs,     \* settings a take may find
  FilmFaults,   \* "missing": an asset is; "stop": ffmpeg or the process ends; "credit"
  MaxTakes

Silence == "silence"
Torn == [kind |-> "torn"]

ASSUME ScriptsAreScripts ==
  \A s \in Scripts :
    /\ s \in Seq([mood : STRING, plan : Seq(STRING)]) /\ s # <<>>
    /\ \A n \in DOMAIN s : s[n].plan # <<>> /\ s[n].mood # Silence
ASSUME KnobsAreKnobs == Knobs \subseteq [cards : BOOLEAN, sound : BOOLEAN, noise : BOOLEAN, credit : BOOLEAN]
ASSUME TakesBounded == MaxTakes \in Nat

VARIABLES
  script,    \* the scenes of the checkpoint
  knobs,     \* the settings of the take
  bench,     \* what is done next, and for which scene
  cut,       \* the shot clips of the scene in hand
  shelf,     \* the pieces in the run's directory
  reel,      \* join_segments: the files to join, and their fades
  film,      \* video.mp4
  shown,     \* the stage returned a video_path
  credited,  \* ending_credit_error: "absent", "none" or "failed"
  takes

filmVars == <<script, knobs, bench, cut, shelf, reel, film, shown, credited, takes>>

Final == Len(script)
NoWork == [do |-> "rest", n |-> 0, credit |-> FALSE]
At(do) == bench.do = do

FilmInit ==
  /\ script = <<>> /\ knobs = [cards |-> FALSE, sound |-> FALSE, noise |-> FALSE, credit |-> FALSE]
  /\ bench = NoWork /\ cut = <<>>
  /\ shelf = <<>> /\ reel = <<>> /\ film = <<>>
  /\ shown = FALSE /\ credited = "absent" /\ takes = 0

-----------------------------------------------------------------------------
(* What a take goes by.                                                     *)

HasCards == knobs.cards /\ Final >= 2

\* include_stinger, and what of it the scene's sound design plays.
\* Mutant: the card and the scene both play it.
HitsAnyhow(n) == knobs.sound
Hits(n) == knobs.sound /\ ~(HasCards /\ n > 1)

\* scene_trauma: of the first clip alone.
Shakes(n, i) == knobs.noise /\ Hits(n) /\ i = 1

Mood(n) == IF knobs.sound THEN script[n].mood ELSE Silence
ShotClip(n, i) == [shot |-> script[n].plan[i], shaken |-> Shakes(n, i)]
Piece(kind, n, clips, hit) ==
  [kind |-> kind, mood |-> Mood(n), clips |-> clips, hit |-> hit, take |-> takes]
Shelved(file, piece) ==
  [f \in DOMAIN shelf \cup {file} |-> IF f = file THEN piece ELSE shelf[f]]

\* The scenario, and a retry of it, which leaves the directory as it is.
Rewrite ==
  /\ At("rest") /\ takes < MaxTakes
  /\ script' \in Scripts \ {script} /\ shown' = FALSE
  /\ UNCHANGED <<knobs, bench, cut, shelf, reel, film, credited, takes>>

\* _validate_scene_assets comes before anything is rendered; _nullify has
\* taken the video_path already.
Take ==
  /\ At("rest") /\ script # <<>> /\ takes < MaxTakes
  /\ knobs' \in Knobs
  /\ bench' \in {[NoWork EXCEPT !.do = "scene", !.n = 1]} \cup IF "missing" \in FilmFaults THEN {NoWork} ELSE {}
  /\ shown' = FALSE /\ takes' = takes + 1
  /\ reel' = <<>>
  /\ UNCHANGED <<script, cut, shelf, film, credited>>

-----------------------------------------------------------------------------
(* The scenes.                                                              *)

Plan == script[bench.n].plan
OnePass == Len(Plan) = 1

\* _compose_shot_clip, for a plan of more than one.
Cut ==
  /\ At("scene") /\ ~OnePass /\ Len(cut) < Len(Plan)
  /\ cut' = Append(cut, ShotClip(bench.n, Len(cut) + 1))
  /\ UNCHANGED <<script, knobs, bench, shelf, reel, film, shown, credited, takes>>

Rendered(clips) ==
  /\ shelf' = Shelved(<<"seg", bench.n>>, Piece("scene", bench.n, clips, Hits(bench.n)))
  /\ cut' = <<>>
  /\ bench' = IF bench.n < Final THEN [bench EXCEPT !.n = @ + 1]
              ELSE IF knobs.credit THEN [bench EXCEPT !.do = "credit"]
              ELSE [bench EXCEPT !.do = "splice", !.n = 1]
  /\ UNCHANGED <<script, knobs, reel, film, shown, credited, takes>>

\* _render_scene_fast.
RenderFast == At("scene") /\ OnePass /\ Rendered(<<ShotClip(bench.n, 1)>>)

\* _assemble_scene_from_clips.
AssembleCuts == At("scene") /\ ~OnePass /\ Len(cut) = Len(Plan) /\ Rendered(cut)

\* _compose_ending_credit: a card, stinger and all, moved to a name of its own.
Credit ==
  /\ At("credit")
  /\ shelf' = Shelved(<<"credit", 0>>, Piece("credit", Final, <<>>, knobs.sound))
  /\ bench' = [do |-> "splice", n |-> 1, credit |-> TRUE]
  /\ UNCHANGED <<script, knobs, cut, reel, film, shown, credited, takes>>

CreditFails ==
  /\ At("credit") /\ "credit" \in FilmFaults
  /\ shelf' \in {shelf, Shelved(<<"card", 0>>, Torn)}
  /\ bench' = [do |-> "splice", n |-> 1, credit |-> FALSE]
  /\ UNCHANGED <<script, knobs, cut, reel, film, shown, credited, takes>>

-----------------------------------------------------------------------------
(* The boundaries and the join.                                             *)

Segment(file, in, out) == [file |-> file, in |-> in, out |-> out]
SceneSegment(n) == Segment(<<"seg", n>>, n > 1, n < Final \/ bench.credit)

\* A silent hold is shared, one with a mood is its boundary's.
HoldFile(n) == <<"hold", IF knobs.sound THEN n ELSE 0>>

Boundary(file, piece) ==
  /\ At("splice") /\ bench.n < Final
  /\ shelf' = Shelved(file, piece)
  /\ reel' = reel \o <<SceneSegment(bench.n), Segment(file, FALSE, FALSE)>>
  /\ bench' = [bench EXCEPT !.n = @ + 1]
  /\ UNCHANGED <<script, knobs, cut, film, shown, credited, takes>>

\* _compose_chapter_card.
CardBetween ==
  HasCards /\ Boundary(<<"card", bench.n>>, Piece("card", bench.n + 1, <<>>, knobs.sound))

\* _compose_black_hold: the file that is there is taken.
HoldBetween ==
  /\ ~HasCards
  /\ LET file == HoldFile(bench.n)
     IN Boundary(file, IF file \in DOMAIN shelf THEN shelf[file]
                       ELSE Piece("hold", bench.n + 1, <<>>, FALSE))

Splice ==
  /\ At("splice") /\ bench.n = Final
  /\ reel' = Append(reel, SceneSegment(Final))
             \o IF bench.credit THEN <<Segment(<<"credit", 0>>, FALSE, FALSE)>> ELSE <<>>
  /\ bench' = [bench EXCEPT !.do = "join"]
  /\ UNCHANGED <<script, knobs, cut, shelf, film, shown, credited, takes>>

\* _join_with_fades; a lone scene is moved into place, its fades not made.
Joined ==
  [i \in DOMAIN reel |->
     [of |-> shelf[reel[i].file], in |-> reel[i].in, out |-> reel[i].out]]
Join ==
  /\ At("join")
  /\ film' = Joined
  /\ shelf' = [file \in {f \in DOMAIN shelf : Len(reel) > 1 \/ f # reel[1].file} |-> shelf[file]]
  /\ shown' = TRUE
  /\ credited' = IF knobs.credit THEN IF bench.credit THEN "none" ELSE "failed" ELSE credited
  /\ bench' = NoWork /\ reel' = <<>>
  /\ UNCHANGED <<script, knobs, cut, takes>>

\* ffmpeg fails or the process dies over a piece: what is rendered in its
\* place is left torn, which _compose_black_hold does not do.
InHand ==
  CASE At("scene")  -> {<<"seg", bench.n>>}
    [] At("credit") -> {<<"card", 0>>}
    [] At("splice") /\ bench.n < Final /\ HasCards -> {<<"card", bench.n>>}
    [] OTHER -> {}
Stopped ==
  /\ ~At("rest") /\ "stop" \in FilmFaults
  /\ shelf' \in {shelf} \cup {Shelved(file, Torn) : file \in InHand}
  /\ film' \in {film} \cup IF At("join") THEN {<<>>} ELSE {}
  /\ bench' = NoWork /\ cut' = <<>> /\ reel' = <<>>
  /\ UNCHANGED <<script, knobs, shown, credited, takes>>

FilmNext ==
  \/ Rewrite \/ Take
  \/ Cut \/ RenderFast \/ AssembleCuts \/ Credit \/ CreditFails
  \/ CardBetween \/ HoldBetween \/ Splice \/ Join
  \/ Stopped
FilmSpec == FilmInit /\ [][FilmNext]_filmVars
-----------------------------------------------------------------------------

Wholes == {i \in DOMAIN film : film[i].of.kind = "scene"}
IsDark(i) == film[i].of.kind \in {"card", "hold", "credit"}

\* Every scene of the script, of this take and with the shots of its plan,
\* and between two of them one dark piece.
SceneAt(n) == 2 * n - 1
ScenesInOrder ==
  /\ Len(film) = 2 * Final - (IF credited = "none" /\ knobs.credit THEN 0 ELSE 1)
  /\ \A n \in 1 .. Final :
       LET piece == film[SceneAt(n)].of
       IN /\ piece.kind = "scene" /\ piece.take = takes
          /\ [i \in DOMAIN piece.clips |-> piece.clips[i].shot] = script[n].plan
  /\ \A i \in DOMAIN film : i % 2 = 0 => IsDark(i)

\* A cut is never from picture to picture: what meets a dark piece fades, and
\* the film neither fades in nor fades out at its ends.
CutsAreDark ==
  \A i \in Wholes :
    /\ film[i].in = (i > 1)
    /\ film[i].out = (i < Len(film))

\* With sound, a scene is entered with one hit of its mood's stinger, its own
\* or its card's, and the picture shakes at its own hit only.
HitsBefore(n) ==
  (IF film[SceneAt(n)].of.hit THEN 1 ELSE 0)
  + (IF n > 1 /\ film[SceneAt(n) - 1].of.hit THEN 1 ELSE 0)
OneHitEach ==
  \A n \in 1 .. Final :
    LET piece == film[SceneAt(n)].of
    IN /\ HitsBefore(n) = (IF knobs.sound THEN 1 ELSE 0)
       /\ \A i \in DOMAIN piece.clips : piece.clips[i].shaken => i = 1 /\ piece.hit

\* The dark before a scene sounds of that scene, unless it is a hold that an
\* earlier take has left.
DarkIsOfTheNext ==
  \A n \in 2 .. Final :
    LET dark == film[SceneAt(n) - 1].of
    IN \/ dark.mood = Mood(n)
       \/ dark.kind = "hold" /\ dark.take < takes

(* The film a take shows is the whole script, whatever the earlier takes of *)
(* the run left in its directory and wherever they stopped.                 *)
FilmIsWhole ==
  shown => ScenesInOrder /\ CutsAreDark /\ OneHitEach /\ DarkIsOfTheNext
=============================================================================
