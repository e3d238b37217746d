--------------------------- MODULE SceneTimeline ---------------------------
(* One scene's way from sentences to clips: the shots that cover its       *)
(* sentences (visual_breakdown_step, build_scenes), the operator's edit of *)
(* its text, its speech (tts.py), the words' times as the aligner or the   *)
(* fallback has them (subtitle.py), and the cuts (shot_timing.py).  Times  *)
(* are whole ticks, and a division rounds down.                            *)
EXTENDS Integers, Sequences, FiniteSets, FiniteSetsExt

CONSTANTS
  Narrations,  \* texts: the number of words of each sentence
  D,           \* ticks of a scene's audio
  MinClip,     \* min_shot_clip_sec
  Heard        \* what an aligner may give for a word: from and till, or Unheard

Unheard == [from |-> -1, till |-> -1]

ASSUME TextsAreSpoken == Narrations \subseteq Seq(Nat \ {0}) \ {<<>>}
ASSUME TimesAreTicks == D \in Nat \ {0} /\ MinClip \in Nat \ {0} /\ Heard \subseteq [from : Nat, till : Nat] \cup {Unheard}

VARIABLES
  step,       \* what was done last
  narration,  \* the scene's text
  shots,      \* its shots: first and last of the sentence_indices
  timings,    \* word_timings: from and till of each word
  told,       \* subtitle_alignment_fallback is in the warnings
  clips       \* the clip plan

timelineVars == <<step, narration, shots, timings, told, clips>>

-----------------------------------------------------------------------------
(* The shots.                                                               *)

Sentences(text) == 1 .. Len(text)

\* visual_breakdown_step's parse: an ordered cover of the sentences, with no
\* more shots than sentences.
Covers(n) ==
  {cover \in UNION {[1..k -> [first : 1..n, last : 1..n]] : k \in 1..n} :
     /\ \A i \in DOMAIN cover : cover[i].first <= cover[i].last
     /\ \A i \in DOMAIN cover \ {1} :
          cover[i - 1].first <= cover[i].first /\ cover[i - 1].last <= cover[i].last
     /\ \A s \in 1..n : \E i \in DOMAIN cover : s \in cover[i].first .. cover[i].last}

\* build_scenes: a shot with no prompt is the previous one's, the first one
\* gets a prompt of its own.
Prompted(cover, empty) ==
  LET Shots[i \in 0 .. Len(cover)] ==
        IF i = 0 THEN <<>>
        ELSE LET was == Shots[i - 1]
             IN IF i \in empty /\ was # <<>>
                THEN [was EXCEPT ![Len(was)].first = Min({@, cover[i].first}),
                                 ![Len(was)].last = Max({@, cover[i].last})]
                ELSE Append(was, cover[i])
  IN Shots[Len(cover)]

-----------------------------------------------------------------------------
(* The words.                                                               *)

\* The words of the sentences up to one.
Upto(text) ==
  LET words[s \in 0 .. Len(text)] == IF s = 0 THEN 0 ELSE words[s - 1] + text[s]
  IN words
Words(text) == Upto(text)[Len(text)]
Rounded(p, q) == (2 * p + q) \div (2 * q)

\* _provisional_timings.
Provisional(n) ==
  [i \in 1..n |-> [from |-> Rounded((i - 1) * D, n), till |-> IF i = n THEN D ELSE Rounded(i * D, n)]]

\* reconcile_word_timings: a run of unheard words shares what is between its
\* neighbours, and every word then starts after the one before.
Known(heard, i) == heard[i] # Unheard
Filled(heard) ==
  LET n == Len(heard)
      left(i) == Max({0} \cup {j \in 1 .. i - 1 : Known(heard, j)})
      right(i) == Min({n + 1} \cup {j \in i + 1 .. n : Known(heard, j)})
      lo(i) == IF left(i) = 0 THEN 0 ELSE heard[left(i)].till
      hi(i) == IF right(i) = n + 1 THEN D ELSE heard[right(i)].from
      share(i, k) == lo(i) + (Max({hi(i) - lo(i), 0}) * k) \div (right(i) - left(i) - 1)
  IN [i \in 1..n |->
        IF Known(heard, i) THEN heard[i]
        ELSE [from |-> share(i, i - left(i) - 1), till |-> share(i, i - left(i))]]

NoTimings == <<>>
Reconciled(heard) ==
  LET filled == Filled(heard)
      fixed[i \in 0 .. Len(heard)] ==
        IF i = 0 THEN [from |-> 0, till |-> 0]
        ELSE LET was == fixed[i - 1]
                 from == Max({filled[i].from, was.till})
                 till == Min({filled[i].till, D})
             IN [from |-> from, till |-> IF till <= from THEN Min({from + 1, D}) ELSE till]
  IN IF \E i \in 1 .. Len(heard) : fixed[i].till <= fixed[i].from THEN NoTimings
     ELSE [i \in 1 .. Len(heard) |-> fixed[i]]

\* What becomes of anything an aligner may say of n words.
Outcomes ==
  [n \in {Words(text) : text \in Narrations} |->
     {Reconciled(heard) : heard \in [1..n -> Heard]}]

\* sentence_windows.
Windows(text, times) ==
  [s \in Sentences(text) |->
     [from |-> times[Upto(text)[s - 1] + 1].from, till |-> times[Upto(text)[s]].till]]

-----------------------------------------------------------------------------
(* The cuts: plan_shot_clips.                                               *)

Clip == [shot : Nat, from : Int, till : Int]

\* The shots that still have a sentence in the text.
Kept(text, list) == {i \in DOMAIN list : list[i].first <= Len(text)}

\* Shots that open on one sentence divide it.
Start(list, kept, windows, i) ==
  LET alike == {j \in kept : list[j].first = list[i].first}
      window == windows[list[i].first]
  IN window.from +
       ((window.till - window.from) * Cardinality({j \in alike : j < i})) \div Cardinality(alike)

\* The earliest first; gaps are the preceding shot's, and the ends are the
\* scene's.
Soonest(starts) ==
  CHOOSE s \in starts : \A r \in starts : s.from < r.from \/ (s.from = r.from /\ s.shot <= r.shot)
InOrder(starts, n) ==
  LET sorted[k \in 0 .. n] ==
        IF k = 0 THEN <<>>
        ELSE LET was == sorted[k - 1]
             IN Append(was, Soonest(starts \ {was[i] : i \in DOMAIN was}))
  IN sorted[n]
Planned(list, kept, windows) ==
  LET n == Cardinality(kept)
      order == InOrder({[shot |-> i, from |-> Start(list, kept, windows, i)] : i \in kept}, n)
  IN [k \in 1 .. n |->
        [shot |-> order[k].shot,
         from |-> IF k = 1 THEN 0 ELSE order[k].from,
         till |-> IF k = n THEN D ELSE order[k + 1].from]]

\* _merge_short_clips.
\* Mutant: a short first clip stays.
FirstKept(merged) == merged
FirstMerged(merged) ==
  IF Len(merged) > 1 /\ merged[1].till - merged[1].from < MinClip
  THEN [Tail(merged) EXCEPT ![1].from = merged[1].from]
  ELSE merged
Merged(plan) ==
  LET merged[i \in 0 .. Len(plan)] ==
        IF i = 0 THEN <<>>
        ELSE LET was == merged[i - 1]
             IN IF was # <<>> /\ plan[i].till - plan[i].from < MinClip
                THEN [was EXCEPT ![Len(was)].till = plan[i].till]
                ELSE Append(was, plan[i])
  IN FirstMerged(merged[Len(plan)])

Cuts(text, list, times) ==
  LET kept == Kept(text, list)
  IN IF kept = {} THEN <<[shot |-> 1, from |-> 0, till |-> D]>>
     ELSE Merged(Planned(list, kept, Windows(text, times)))

-----------------------------------------------------------------------------
TimelineInit ==
  /\ step = "none" /\ narration = <<>>
  /\ shots = <<>> /\ timings = NoTimings /\ told = FALSE /\ clips = <<>>

\* writing_step.
Narrate ==
  /\ step = "none"
  /\ narration' \in Narrations
  /\ step' = "written"
  /\ UNCHANGED <<shots, timings, told, clips>>

BreakDown ==
  /\ step = "written"
  /\ \E cover \in Covers(Len(narration)), empty \in SUBSET Sentences(narration) :
       shots' = Prompted(cover, empty \cap DOMAIN cover)
  /\ step' = "approved"
  /\ UNCHANGED <<narration, timings, told, clips>>

\* edit_artifact of the scenario: the text, and nothing of the shots.
Edit ==
  /\ step = "approved"
  /\ narration' \in Narrations
  /\ step' = "edited"
  /\ UNCHANGED <<shots, timings, told, clips>>

Speak ==
  /\ step \in {"approved", "edited"} /\ D >= Words(narration)
  /\ timings' = Provisional(Words(narration))
  /\ step' = "spoken"
  /\ UNCHANGED <<narration, shots, told, clips>>

\* _validate_segments, of the cues of whole sentences.
Valid(windows) ==
  \A s \in DOMAIN windows :
    /\ windows[s].from < windows[s].till /\ windows[s].till <= D
    /\ s > 1 => windows[s - 1].till <= windows[s].from

Aligned ==
  /\ step = "spoken"
  /\ \E times \in Outcomes[Words(narration)] :
       /\ timings' = IF times = NoTimings THEN timings ELSE times
       /\ told' = (times = NoTimings)
       /\ step' = IF Valid(Windows(narration, timings')) THEN "timed" ELSE "failed"
  /\ UNCHANGED <<narration, shots, clips>>

\* The aligner raises, or hears another number of words.
Unaligned ==
  /\ step = "spoken"
  /\ told' = TRUE
  /\ step' = IF Valid(Windows(narration, timings)) THEN "timed" ELSE "failed"
  /\ UNCHANGED <<narration, shots, timings, clips>>

Cut ==
  /\ step = "timed"
  /\ clips' = Cuts(narration, shots, timings)
  /\ step' = "cut"
  /\ UNCHANGED <<narration, shots, timings, told>>

TimelineNext == Narrate \/ BreakDown \/ Edit \/ Speak \/ Aligned \/ Unaligned \/ Cut
TimelineSpec == TimelineInit /\ [][TimelineNext]_timelineVars
-----------------------------------------------------------------------------

(* The clips of a scene follow one another from its first tick to its last, *)
(* none of them shorter than the least a clip may be unless it is the only  *)
(* one, whatever the shots cover after the operator's edit.                 *)
ClipsTileTheScene ==
  /\ clips # <<>> /\ clips[1].from = 0 /\ clips[Len(clips)].till = D
  /\ \A i \in 1 .. Len(clips) - 1 : clips[i].till = clips[i + 1].from
  /\ \A i \in DOMAIN clips : Len(clips) > 1 => clips[i].till - clips[i].from >= MinClip

(* A cut never comes before or after the sentence its image opens on, the   *)
(* images come in the order of the story, and of the images that divide a   *)
(* sentence none is left out that has time enough.                          *)
CutsFollowTheSpeech ==
  LET windows == Windows(narration, timings)
      Window(i) == windows[shots[i].first]
      Alike(i) == {j \in DOMAIN shots : shots[j].first = shots[i].first}
  IN /\ \A c \in DOMAIN clips \ {1} :
          Window(clips[c].shot).from <= clips[c].from /\ clips[c].from < Window(clips[c].shot).till
     /\ \A c \in 1 .. Len(clips) - 1 : clips[c].shot < clips[c + 1].shot
     /\ \A i \in DOMAIN shots :
          /\ shots[i].first \in DOMAIN windows
          /\ (Window(i).till - Window(i).from) \div Cardinality(Alike(i)) > MinClip
          => \E c \in DOMAIN clips : clips[c].shot = i

(* Whatever was heard, the stage does not fail, and timings that were not   *)
(* heard are reported.                                                      *)
AlignmentNeverFails ==
  /\ step # "failed"
  /\ step \in {"timed", "cut"} /\ ~told =>
       \A i \in DOMAIN timings : /\ timings[i].from < timings[i].till /\ timings[i].till <= D
                                 /\ i > 1 => timings[i - 1].till <= timings[i].from
  /\ told => timings = Provisional(Words(narration))

(* Together: the images are seen when their sentences are spoken.           *)
ImagesFollowTheSpeech ==
  AlignmentNeverFails /\ (step = "cut" => ClipsTileTheScene /\ CutsFollowTheSpeech)
=============================================================================
