---------------------------- MODULE OutlinePlan ----------------------------
(* From the outline the model answers to what each scene's writer is told   *)
(* (pipeline/nodes/scenario_chain.py): the prompts that must know what the  *)
(* code enforces, the contract an outline is read against scene by scene,  *)
(* the immersion devices shared out over it, and the brief of each scene.  *)
(* What a scene says is left out; where a field is malformed the outline   *)
(* is refused.                                                             *)
EXTENDS Integers, Sequences, FiniteSets, FiniteSetsExt

CONSTANTS
  Beats,      \* what a scene may be planned to do: [hook, interrupt, budget]
  Ledgers,    \* and the loops it may plant and close: [plants, closes]
  MaxOutline  \* bound: scenes of an outline

VARIABLES
  planning,   \* how far the outline has come, or why it has not
  outline,    \* the scenes read so far
  devices,    \* assigned_devices of each
  briefs      \* of each, the loops it is told it owes and whence

outlineVars == <<planning, outline, devices, briefs>>

-----------------------------------------------------------------------------
(* The contract.                                                            *)

Interrupts == {"none", "tone_shift", "pov_shift", "direct_address", "format_change"}
Devices == {"dramatic_question", "second_person", "narrator_reaction", "hypothetical"}
MaxQuiet == 2                 \* MAX_SCENES_WITHOUT_PATTERN_INTERRUPT
PlantedLoops == 2 .. 3
SceneBudget == 22 .. 130      \* 5% to 30% of 3 minutes at TARGET_WPM, 435 words
TotalBudget == 370 .. 500     \* within WORD_BUDGET_TOLERANCE of them

PlantedIn(list) == UNION {list[i].plants : i \in DOMAIN list}
ClosedIn(list) == UNION {list[i].closes : i \in DOMAIN list}
Total(list) ==
  LET sum[i \in 0 .. Len(list)] == IF i = 0 THEN 0 ELSE sum[i - 1] + list[i].budget
  IN sum[Len(list)]
Budgets(list) == {list[i].budget : i \in DOMAIN list}

HookStands(scene, pos) == scene.hook <=> pos = 1

\* scenes_since_interrupt: the hook is the first scene's interrupt.
Quiet(list) == Len(list) - Max({1} \cup {i \in DOMAIN list : list[i].interrupt # "none"})

LedgerHolds(list, scene) ==
  /\ scene.plants \cap scene.closes = {}
  /\ scene.plants \cap PlantedIn(list) = {}
  /\ scene.closes \subseteq PlantedIn(list) \ ClosedIn(list)

\* The body of _validate_retention_outline's loop.
SceneHolds(list, scene) ==
  /\ HookStands(scene, Len(list) + 1)
  /\ scene.interrupt \in Interrupts
  /\ Quiet(Append(list, scene)) <= MaxQuiet
  /\ scene.budget \in SceneBudget
  /\ LedgerHolds(list, scene)

\* And what is asked of the whole.
LoopsHold(list) ==
  /\ Cardinality(PlantedIn(list)) \in PlantedLoops
  /\ list[1].plants # {}
  /\ ClosedIn(list) = PlantedIn(list)
BudgetsHold(list) ==
  /\ Total(list) \in TotalBudget
  /\ 5 * list[1].budget <= Total(list)
  /\ 5 * list[Len(list)].budget <= Total(list)
  /\ 10 * Max(Budgets(list)) >= 16 * Min(Budgets(list))
OutlineHolds(list) == LoopsHold(list) /\ BudgetsHold(list) /\ Len(list) >= 4

-----------------------------------------------------------------------------
(* The devices: _allocate_devices.                                          *)

Kinds(list, kinds) == {i \in DOMAIN list : list[i].interrupt \in kinds}

\* The middle scenes, and every scene when there is none.
Pool(list) == IF 2 .. Len(list) - 1 = {} THEN DOMAIN list ELSE 2 .. Len(list) - 1

\* The n scenes of S with the largest budgets, and the n first ones.
Larger(list, i, j) ==
  \/ list[i].budget > list[j].budget
  \/ list[i].budget = list[j].budget /\ i < j
Largest(list, S, n) == {i \in S : Cardinality({j \in S : Larger(list, j, i)}) < n}
Earliest(S, n) == {i \in S : Cardinality({j \in S : j < i}) < n}

SecondPerson(list) ==
  LET planned == Kinds(list, {"direct_address"})
  IN planned \cup Largest(list, Pool(list) \ planned, 2 - Cardinality(planned))

Reaction(list) ==
  LET planned == Kinds(list, {"tone_shift", "pov_shift"})
      unused == Pool(list) \ SecondPerson(list)
  IN IF planned # {} THEN Earliest(planned, 2)
     ELSE Largest(list, IF unused # {} THEN unused ELSE Pool(list), 1)

Owners(list) ==
  [dramatic_question |-> {1, Len(list)},
   second_person |-> SecondPerson(list),
   narrator_reaction |-> Reaction(list),
   hypothetical |-> {Min(SecondPerson(list))}]

Allocated(list) ==
  LET owners == Owners(list)
  IN [i \in DOMAIN list |-> {device \in Devices : i \in owners[device]}]

-----------------------------------------------------------------------------
(* The briefs: _writing_scene_brief, _loops_to_close_context.               *)

Planters(list, i, loop) == {p \in 1 .. i - 1 : loop \in list[p].plants}
Owed(list, i) ==
  {[loop |-> loop, planted |-> Min(Planters(list, i, loop))] :
     loop \in {l \in list[i].closes : Planters(list, i, l) # {}}}

-----------------------------------------------------------------------------
OutlineInit ==
  /\ planning = "none" /\ outline = <<>> /\ devices = <<>> /\ briefs = <<>>

Ends(how) == planning' = how /\ outline' = <<>> /\ devices' = <<>> /\ briefs' = <<>>

\* _require_seeded_budget_variables: what the seeded structure prompt reads.
RequireBudgetVariables ==
  /\ planning = "none"
  /\ \E read \in SUBSET {"band", "source"} :
       CASE "band" \notin read -> Ends("predates 12.6")
         [] read = {"band"} -> Ends("predates 12.8")
         [] OTHER -> Ends("outline")

\* The next scene of the outline is read; an error drops it all.
ReadScene ==
  /\ planning = "outline" /\ Len(outline) < MaxOutline
  /\ \E beat \in Beats, ledger \in Ledgers :
       LET scene == [hook |-> beat.hook, interrupt |-> beat.interrupt, budget |-> beat.budget,
                     plants |-> ledger.plants, closes |-> ledger.closes]
       IN IF SceneHolds(outline, scene)
          THEN outline' = Append(outline, scene) /\ UNCHANGED <<planning, devices, briefs>>
          ELSE Ends("refused")

\* No event, no facts, no list where a list must be, no loop's id.
SceneMalformed == planning = "outline" /\ Len(outline) < MaxOutline /\ Ends("refused")

ReadWhole ==
  /\ planning = "outline" /\ outline # <<>>
  /\ IF OutlineHolds(outline)
     THEN planning' = "planned" /\ devices' = Allocated(outline) /\ UNCHANGED <<outline, briefs>>
     ELSE Ends("refused")

\* writing_step, in the first pass and in a full rewrite, asks the prompt of
\* the moment (_require_seeded_device_allocation).
WriteScenes ==
  /\ planning \in {"planned", "written"}
  /\ \/ Ends("predates 12.7")
     \/ /\ briefs' = [i \in DOMAIN outline |-> Owed(outline, i)]
        /\ planning' = "written"
        /\ UNCHANGED <<outline, devices>>

OutlineNext ==
  \/ RequireBudgetVariables
  \/ ReadScene \/ SceneMalformed \/ ReadWhole
  \/ WriteScenes
OutlineEnded == planning \in {"refused", "predates 12.6", "predates 12.7", "predates 12.8"}

OutlineSpec == OutlineInit /\ [][OutlineNext]_outlineVars
-----------------------------------------------------------------------------

(* Every promise of the outline is kept, and the scene that keeps it is     *)
(* told which one: a planted loop is closed by one scene, a later one,      *)
(* whose brief names the scene that planted it; and no brief owes another. *)
(* One at least spans from the opening.                                     *)
PromisesAreKept ==
  /\ \A loop \in PlantedIn(outline) :
       \E p, c \in DOMAIN outline :
         /\ p < c
         /\ {i \in DOMAIN outline : loop \in outline[i].plants} = {p}
         /\ {i \in DOMAIN outline : \E owed \in briefs[i] : owed.loop = loop} = {c}
         /\ [loop |-> loop, planted |-> p] \in briefs[c]
  /\ \E i \in DOMAIN outline : \E owed \in briefs[i] : owed.planted = 1

(* Nowhere after the opening do three scenes pass without an interrupt, and *)
(* no outline of fewer than four scenes could be shared out at all: the     *)
(* floor on the number of scenes only names what the shares forbid.         *)
PaceHolds ==
  \A i \in 2 .. Len(outline) - MaxQuiet :
    \E j \in i .. i + MaxQuiet : outline[j].interrupt # "none"
FloorIsImplied == \A n \in 1 .. 3 : n <= Len(outline) => ~BudgetsHold(SubSeq(outline, 1, n))

(* Every device has a scene to carry it; the last scene is never without    *)
(* one, and no scene carries them all.  A scene planned to address the      *)
(* viewer may do so, the hypothetical goes to such a scene, and a reaction  *)
(* nobody planned shares a scene with the second person only when each      *)
(* middle scene is taken.                                                   *)
Carrying(device) == {i \in DOMAIN devices : device \in devices[i]}
DevicesAreCarried ==
  /\ \A device \in Devices : Carrying(device) # {}
  /\ devices[Len(devices)] # {} /\ \A i \in DOMAIN devices : devices[i] # Devices
  /\ Kinds(outline, {"direct_address"}) \subseteq Carrying("second_person")
  /\ Cardinality(Carrying("second_person")) >= 2
  /\ Cardinality(Carrying("hypothetical")) = 1
  /\ Carrying("hypothetical") \subseteq Carrying("second_person")
  /\ \A i \in Carrying("narrator_reaction") \cap Carrying("second_person") :
       \/ outline[i].interrupt \in {"tone_shift", "pov_shift"}
       \/ 2 .. Len(outline) - 1 \subseteq Carrying("second_person")

OutlineIsKept ==
  planning = "written" => PromisesAreKept /\ PaceHolds /\ FloorIsImplied /\ DevicesAreCarried
=============================================================================
