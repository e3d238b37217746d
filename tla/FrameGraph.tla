----------------------------- MODULE FrameGraph -----------------------------
(* The filter graphs the video stage hands to ffmpeg (_build_card_chain and  *)
(* its four callers, _assemble_scene_from_clips, sound_design): which files   *)
(* are read, which filter takes what from which other, what is mapped.        *)
(* A pad is <<"v", i>> or <<"a", i>>, a stream of file i, or a label.         *)
EXTENDS Naturals, Sequences, SequencesExt, FiniteSets, TLC

CONSTANTS
  Troupes,   \* the cards of a shot, in the order of its cast: how deep, occluded or not
  MostClips  \* clips of a scene

Depths == <<"far", "mid", "near">>
ASSUME ClipsBounded == MostClips \in Nat
ASSUME TroupesKnown == Troupes \subseteq Seq([depth : {"far", "mid", "near"}, hidden : BOOLEAN])

VARIABLES
  job,     \* what is rendered: "none", or the way and its settings
  feeds,   \* the -i files, in order: <<what, which>>
  wires,   \* the filters so far
  top,     \* prev_label: the picture so far
  laid,    \* cards laid
  mapped   \* the -map pads: picture, sound, and does -t bound them

graphVars == <<job, feeds, wires, top, laid, mapped>>

NoJob == [way |-> "none"]
NoPad == <<"", 0>>
NotMapped == [picture |-> NoPad, sound |-> NoPad, timed |-> FALSE]
GraphInit ==
  job = NoJob /\ feeds = << >> /\ wires = << >> /\ top = NoPad /\ laid = 0 /\ mapped = NotMapped

Filter(op, of, from, to) == [op |-> op, of |-> of, from |-> from, to |-> to]
IsFile(pad) == pad[1] \in {"v", "a"}

\* Far is painted first; a stable sort: the k-th has k - 1 before it.
Layer(card) == CHOOSE d \in 1 .. 3 : Depths[d] = card.depth
Earlier(troupe, j, i) ==
  Layer(troupe[j]) < Layer(troupe[i]) \/ (Layer(troupe[j]) = Layer(troupe[i]) /\ j < i)
Ordered(troupe) ==
  [k \in DOMAIN troupe |-> CHOOSE i \in DOMAIN troupe :
     Cardinality({j \in DOMAIN troupe : Earlier(troupe, j, i)}) = k - 1]

-----------------------------------------------------------------------------
(* The files and the background.                                             *)

\* _render_scene_fast, _compose_shot_clip, render_composite_still.
Compose(way, troupe, tier, seen) ==
  /\ job.way = "none"
  /\ way \in {"scene", "clip", "still"}
  /\ job' = [way |-> way, troupe |-> troupe, order |-> Ordered(troupe), tier |-> tier,
             shaken |-> way # "still" /\ seen.shaken, graded |-> seen.graded,
             sound |-> seen.sound, stinger |-> seen.stinger, clips |-> 0]
  /\ feeds' = << <<"plate", 0>> >> \o [i \in DOMAIN troupe |-> <<"card", Ordered(troupe)[i]>>]
  /\ wires' = IF troupe = << >> THEN << >> ELSE <<Filter("keep", 0, << <<"v", 0>> >>, << <<"bg", 0>> >>)>>
  /\ top' = IF troupe = << >> THEN <<"v", 0>> ELSE <<"bg", 0>>
  /\ UNCHANGED <<laid, mapped>>

\* _assemble_scene_from_clips: each clip is normalised, then they are joined.
JoinClips(clips, seen) ==
  /\ job.way = "none"
  /\ job' = [way |-> "join", troupe |-> << >>, order |-> << >>, tier |-> 0, shaken |-> FALSE,
             graded |-> seen.graded, sound |-> seen.sound, stinger |-> seen.stinger, clips |-> clips]
  /\ feeds' = [i \in 1 .. clips |-> <<"clip", i>>]
  /\ wires' = [i \in 1 .. clips |-> Filter("keep", 0, << <<"v", i - 1>> >>, << <<"cn", i>> >>)]
                \o <<Filter("concat", 0, [i \in 1 .. clips |-> <<"cn", i>>], << <<"joined", 0>> >>)>>
  /\ top' = <<"joined", 0>>
  /\ UNCHANGED <<laid, mapped>>

-----------------------------------------------------------------------------
(* One card (_build_card_chain's loop).                                      *)

\* _occlusion_fragment: the mask is multiplied into the sprite's alpha.
Occluded(k, who) ==
  << Filter("split", 0, << <<"v", k>> >>, << <<"om_a", k>>, <<"om_b", k>> >>),
     Filter("matte", 0, << <<"om_a", k>> >>, << <<"om_alpha", k>> >>),
     Filter("matte", 0, << >>, << <<"om_mask", k>> >>),
     Filter("matte", 0, << <<"om_alpha", k>>, <<"om_mask", k>> >>, << <<"om_alpha2", k>> >>),
     Filter("cut", who, << <<"om_b", k>>, <<"om_alpha2", k>> >>, << <<"om", k>> >>) >>

\* build_contact_shadow, between the picture and the card.
Shadowed(k, who, base) ==
  << Filter("matte", 0, << >>, << <<"sh_src", k>> >>),
     Filter("shadow", who, << <<"sh_src", k>> >>, << <<"sh", k>> >>),
     Filter("overlay", 0, <<base, <<"sh", k>> >>, << <<"shg", k>> >>) >>

\* build_light_wrap; the picture is needed once more for the overlay.
\* Mutant: it is not split.
WrappedUnsplit(k, who, base) ==
  << Filter("split", 0, << <<"c", k>> >>, << <<"cw_c1", k>>, <<"cw_c2", k>> >>),
     Filter("matte", 0, << <<"cw_c1", k>> >>, << <<"cw_mask", k>> >>),
     Filter("matte", 0, <<base>>, << <<"cw_raw", k>> >>),
     Filter("fit", 0, << <<"cw_c2", k>>, <<"cw_raw", k>> >>, << <<"cw_c2ref", k>>, <<"cw_edge", k>> >>),
     Filter("matte", 0, << <<"cw_edge", k>>, <<"cw_mask", k>> >>, << <<"cw_bleed", k>> >>),
     Filter("wrap", who, << <<"cw_c2ref", k>>, <<"cw_bleed", k>> >>, << <<"cw", k>> >>) >>
Wrapped(k, who, base) ==
  << Filter("split", 0, <<base>>, << <<"wbg_a", k>>, <<"wbg_b", k>> >>) >>
    \o WrappedUnsplit(k, who, <<"wbg_a", k>>)

Lay ==
  LET k == laid + 1
      who == job.order[k]
      hidden == job.troupe[who].hidden
      shade == job.tier >= 1
      wrap == job.tier >= 2
      base == IF shade THEN <<"shg", k>> ELSE top
  IN /\ job.way \in {"scene", "clip", "still"} /\ laid < Len(job.order)
     /\ wires' = wires
          \o (IF hidden THEN Occluded(k, who) ELSE << >>)
          \o <<Filter("keep", 0, <<IF hidden THEN <<"om", k>> ELSE <<"v", k>> >>, << <<"c", k>> >>)>>
          \o (IF shade THEN Shadowed(k, who, top) ELSE << >>)
          \o (IF wrap THEN Wrapped(k, who, base) ELSE << >>)
          \o <<Filter("overlay", 0, <<IF wrap THEN <<"wbg_b", k>> ELSE base,
                                      IF wrap THEN <<"cw", k>> ELSE <<"c", k>> >>, << <<"o", k>> >>)>>
     /\ top' = <<"o", k>>
     /\ laid' = k
     /\ UNCHANGED <<job, feeds, mapped>>

-----------------------------------------------------------------------------
(* What comes over the whole picture, and the sound.                         *)

\* The camera shakes the world, the grade is the lens, the subtitles the screen.
Overall == (IF job.shaken THEN <<"shake">> ELSE << >>)
             \o (IF job.graded /\ job.way \in {"scene", "join"} THEN <<"grade">> ELSE << >>)
             \o (IF job.way \in {"scene", "join"} THEN <<"subtitles">> ELSE << >>)
Finished == LET ops == Overall IN
  [i \in DOMAIN ops |-> Filter(ops[i], 0, <<IF i = 1 THEN top ELSE <<"f", i - 1>> >>, << <<"f", i>> >>)]

\* build_sound_design_args and build_sound_design_filter; at: the first of its files.
Beds == << <<"bgm", 0>>, <<"ambient", 0>> >> \o (IF job.stinger THEN << <<"stinger", 0>> >> ELSE << >>)
Ducked(at, voice) ==
  [i \in DOMAIN Beds |-> Filter("keep", 0, << <<"a", at + i - 1>> >>, << <<"bed", i>> >>)]
    \o << Filter("mix", 0, [i \in DOMAIN Beds |-> <<"bed", i>>], << <<"bgmix", 0>> >>),
          Filter("duck", 0, << <<"bgmix", 0>>, voice>>, << <<"ducked", 0>> >>),
          Filter("mix", 0, << <<"ducked", 0>>, voice>>, << <<"aout", 0>> >>) >>

Finish0 ==
  LET voice == <<"a", Len(feeds)>>
      talks == job.way \in {"scene", "join"}
      sounds == talks /\ job.sound
  IN /\ job.way # "none" /\ laid = Len(job.order) /\ mapped = NotMapped
     /\ feeds' = feeds \o (IF talks THEN << <<"narration", 0>> >> ELSE << >>)
                       \o (IF sounds THEN Beds ELSE << >>)
     /\ wires' = wires \o Finished \o (IF sounds THEN Ducked(Len(feeds) + 1, voice) ELSE << >>)
     /\ mapped' = [picture |-> IF Overall = << >> THEN top ELSE <<"f", Len(Overall)>>,
                   sound |-> IF sounds THEN <<"aout", 0>> ELSE IF talks THEN voice ELSE NoPad,
                   timed |-> sounds \/ job.way \in {"clip", "still"}]
     /\ UNCHANGED <<job, top, laid>>

NextJob ==
  /\ mapped # NotMapped
  /\ job' = NoJob /\ feeds' = << >> /\ wires' = << >> /\ top' = NoPad /\ laid' = 0 /\ mapped' = NotMapped

Seen == [shaken : BOOLEAN, graded : BOOLEAN, sound : BOOLEAN, stinger : BOOLEAN]
GraphNext ==
  \/ \E way \in {"scene", "clip", "still"}, troupe \in Troupes, tier \in 0 .. 2, seen \in Seen :
       Compose(way, troupe, tier, seen)
  \/ \E clips \in 2 .. MostClips, seen \in Seen : JoinClips(clips, seen)
  \/ Lay \/ Finish0 \/ NextJob
GraphSpec == GraphInit /\ [][GraphNext]_graphVars

-----------------------------------------------------------------------------
(* What ffmpeg makes of a graph: the layers a pad carries, lowest first.      *)

FileShows(files, pad) == IF pad[2] + 1 \in DOMAIN files THEN <<files[pad[2] + 1]>> ELSE << <<"no file", 0>> >>
Carries(known, files, pad) ==
  IF IsFile(pad) THEN FileShows(files, pad)
  ELSE IF pad \in DOMAIN known THEN known[pad] ELSE << <<"no label", 0>> >>
Gives(known, files, f) ==
  LET in == [i \in DOMAIN f.from |-> Carries(known, files, f.from[i])] IN
  CASE f.op \in {"keep", "split", "fit"} -> in[1]
    [] f.op \in {"overlay", "mix", "concat"} -> FlattenSeq(in)
    [] f.op = "matte" -> << >>
    [] f.op = "shadow" -> << <<"shadow", f.of>> >>
    [] f.op = "duck" -> Append(in[1], <<IF in[2] = << <<"narration", 0>> >> THEN "ducked" ELSE "squeezed", 0>>)
    [] OTHER -> Append(in[1], <<f.op, f.of>>)
\* One filter after the other.
Run1(known, files, f) ==
  [p \in DOMAIN known \cup ToSet(f.to) |-> IF p \in ToSet(f.to) THEN Gives(known, files, f) ELSE known[p]]
Ran(filters, files) ==
  LET ran[i \in 0 .. Len(filters)] == IF i = 0 THEN << >> ELSE Run1(ran[i - 1], files, filters[i])
  IN ran[Len(filters)]

\* ffmpeg takes the graph: every label is put out once, before it is taken, and
\* taken once, by a filter or by -map.
Uses(p) == UNION {{<<i, n>> : n \in {m \in DOMAIN wires[i].from : wires[i].from[m] = p}} : i \in DOMAIN wires}
Takes(p) == Cardinality(Uses(p)) + (IF p \in {mapped.picture, mapped.sound} THEN 1 ELSE 0)
Labels == UNION {ToSet(wires[i].to) : i \in DOMAIN wires}
Wired ==
  /\ \A p \in Labels : Takes(p) = 1 /\ Cardinality({i \in DOMAIN wires : p \in ToSet(wires[i].to)}) = 1
  /\ \A i \in DOMAIN wires : \A n \in DOMAIN wires[i].from :
       LET p == wires[i].from[n] IN IsFile(p) \/ \E j \in 1 .. i - 1 : p \in ToSet(wires[j].to)

Figure(who) ==
  (IF job.tier >= 1 THEN << <<"shadow", who>> >> ELSE << >>) \o << <<"card", who>> >>
    \o (IF job.troupe[who].hidden THEN << <<"cut", who>> >> ELSE << >>)
    \o (IF job.tier >= 2 THEN << <<"wrap", who>> >> ELSE << >>)
Shown0 == Carries(Ran(wires, feeds), feeds, mapped.picture)
Heard0 == Carries(Ran(wires, feeds), feeds, mapped.sound)
FarToNear(figures) ==
  /\ ToSet(figures) = DOMAIN job.troupe
  /\ \A i, j \in DOMAIN figures : i < j => Earlier(job.troupe, figures[i], figures[j])
Due(op) ==
  LET due == CASE op = "shake" -> job.shaken
               [] op = "grade" -> job.graded /\ job.way \notin {"clip", "still"}
               [] op = "subtitles" -> job.way \notin {"clip", "still"}
  IN IF due THEN << <<op, 0>> >> ELSE << >>

(* The picture is the plate, then every figure of the shot once, the farther  *)
(* behind the nearer, each with its own shadow below it and its own mask cut, *)
(* then the shake, the grade and the subtitles; a joined scene is its clips   *)
(* in order.  What is heard is the narration, once, over beds that are ducked *)
(* under it, and a graph whose beds never end is bounded by -t.               *)
GraphIsSound ==
  mapped # NotMapped =>
    /\ Wired
    /\ \E figures \in [DOMAIN job.troupe -> DOMAIN job.troupe] :
         /\ FarToNear(figures)
         /\ Shown0 = (IF job.way = "join" THEN [i \in 1 .. job.clips |-> <<"clip", i>>]
                      ELSE << <<"plate", 0>> >> \o FlattenSeq([i \in DOMAIN figures |-> Figure(figures[i])]))
                     \o Due("shake") \o Due("grade") \o Due("subtitles")
    /\ job.way \in {"scene", "join"} =>
         Heard0 = (IF job.sound THEN Append(Beds, <<"ducked", 0>>) ELSE << >>) \o << <<"narration", 0>> >>
    /\ job.sound => mapped.timed \/ job.way \notin {"scene", "join"}
=============================================================================
