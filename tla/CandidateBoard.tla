--------------------------- MODULE CandidateBoard ---------------------------
(* The candidates of a character (api/routes/characters.py, CandidatePanel): *)
(* a request makes a pending row per angle and a background task that draws   *)
(* them one after the other; the page polls the rows and offers to finalize.  *)
(* The task and the request to generate share the event loop; the other       *)
(* requests run in threads, between any two commits.                          *)
EXTENDS Naturals, Sequences, SequencesExt

CONSTANTS
  Faces,        \* the angles, in order
  MaxBatches,   \* requests to generate
  MaxVisits,    \* other requests that change something
  BoardFaults   \* "draw", "kill"; "wipe", "late", "bare": what the page avoids

Face == ToSet(Faces)
ASSUME BoardBounded == MaxBatches \in Nat /\ MaxVisits \in Nat
ASSUME FacesAssumption == Faces \in Seq(STRING) /\ Faces # << >>

VARIABLES
  person,    \* the characters row: its id, 0 for none, who made it, is it described,
             \* has it references
  paths,     \* the angles whose angle_*_path is set
  board,     \* character_candidates: [job, face, of, status]
  pictures,  \* the file of each angle: the job that drew it, 0 for none
  jobs,      \* the background tasks, in the order of their requests: how far each is,
             \* and the places in Faces it has left
  screen,    \* the page's copy: whose character, references, status of each angle
  births,    \* characters created so far
  visits, kills

boardVars == <<person, paths, board, pictures, jobs, screen, births, visits, kills>>

Nobody0 == [id |-> 0, by |-> "operator", told |-> FALSE, refs |-> FALSE]
NoCandidate == "none"
Jobs == DOMAIN jobs

BoardInit ==
  /\ person = [Nobody0 EXCEPT !.id = 1] /\ births = 1
  /\ paths = {} /\ board = {} /\ pictures = [f \in Face |-> 0] /\ jobs = << >>
  /\ screen = [id |-> 1, refs |-> FALSE, of |-> [f \in Face |-> NoCandidate]]
  /\ visits = 0 /\ kills = 0

Rows(f) == {r \in board : r.face = f}
Hand(j) == Faces[Min(jobs[j].todo)]   \* the face in hand
RowOf(j) == {r \in board : r.job = j /\ r.face = Hand(j)}
Status(j, s) == (board \ RowOf(j)) \cup {[r EXCEPT !.status = s] : r \in RowOf(j)}

\* A task between two awaits; it has the event loop.
Busy(j) == jobs[j].at \in {"next", "ready"}
LoopIsFree == \A j \in Jobs : ~Busy(j)

-----------------------------------------------------------------------------
(* POST generate. *)

\* Mutant: the rows of the batch before are left beside the new ones.
BatchBeside(wanted) ==
  board \cup {[job |-> Len(jobs) + 1, face |-> f, of |-> person.id, status |-> "pending"] : f \in wanted}
\* create_candidate_batch.
Batch(wanted) ==
  {r \in board : r.face \notin wanted} \cup
    {[job |-> Len(jobs) + 1, face |-> f, of |-> person.id, status |-> "pending"] : f \in wanted}

\* The page asks for all angles when it knows of references, for one that failed.
Wants ==
  (IF screen.refs \/ "bare" \in BoardFaults THEN {Face} ELSE {}) \cup
    {{f} : f \in {g \in Face : screen.of[g] = "failed"}}

\* The batch comes before the check for references, whose 422 leaves it there.
PostBatch(wanted) ==
  /\ LoopIsFree /\ Len(jobs) < MaxBatches
  /\ wanted \in Wants /\ screen.id = person.id /\ person.id # 0
  /\ board' = Batch(wanted)
  /\ jobs' = Append(jobs, IF person.refs
                          THEN [at |-> "new", todo |-> {i \in DOMAIN Faces : Faces[i] \in wanted}]
                          ELSE [at |-> "refused", todo |-> {}])
  /\ UNCHANGED <<person, paths, pictures, screen, births, visits, kills>>

-----------------------------------------------------------------------------
(* _generate_all: one angle after the other, each in a session of its own. *)

\* A step may keep the loop only if nobody has it.
MayRun(j) == \A i \in Jobs \ {j} : ~Busy(i)
GoTo(j, at) == jobs' = [jobs EXCEPT ![j].at = at]
NextFace(j) ==
  LET rest == jobs[j].todo \ {Min(jobs[j].todo)} IN
  jobs' = [jobs EXCEPT ![j] = [at |-> IF rest = {} THEN "done" ELSE "next", todo |-> rest]]

\* "generating", unless the row is gone; then the prompt, if there is a description.
TakeUp(j) ==
  /\ jobs[j].at \in {"new", "next"} /\ MayRun(j)
  /\ IF RowOf(j) = {} THEN NextFace(j) /\ UNCHANGED board
     ELSE IF person.told THEN GoTo(j, "draw") /\ board' = Status(j, "generating")
     ELSE NextFace(j) /\ board' = Status(j, "failed")
  /\ UNCHANGED <<person, paths, pictures, screen, births, visits, kills>>

\* ComfyUI has drawn what was asked first for this file.
First(j) == \A i \in 1 .. j - 1 : jobs[i].at = "draw" => Hand(i) # Hand(j)

\* The file is written and its entry approved, whatever has become of the row.
Drawn0(j) ==
  /\ jobs[j].at = "draw" /\ LoopIsFree
  /\ First(j) \/ "late" \in BoardFaults
  /\ pictures' = [pictures EXCEPT ![Hand(j)] = j]
  /\ IF RowOf(j) = {} THEN NextFace(j) /\ UNCHANGED board
     ELSE GoTo(j, "ready") /\ board' = Status(j, "ready")
  /\ UNCHANGED <<person, paths, screen, births, visits, kills>>

\* Every rung of the provider failed, or the picture was refused.
NotDrawn(j) ==
  /\ jobs[j].at = "draw" /\ LoopIsFree /\ "draw" \in BoardFaults
  /\ NextFace(j) /\ board' = Status(j, "failed")
  /\ UNCHANGED <<person, paths, pictures, screen, births, visits, kills>>

\* select_candidate: a character that is gone is created before the row is missed.
SelectDrawn(j) ==
  LET f == Hand(j) IN
  /\ jobs[j].at = "ready"
  /\ IF person.id = 0
     THEN person' = [Nobody0 EXCEPT !.id = births + 1, !.by = "task"] /\ births' = births + 1
     ELSE UNCHANGED <<person, births>>
  /\ IF \E r \in Rows(f) : r.status = "ready"
     THEN paths' = paths \cup {f} /\ UNCHANGED board
     ELSE board' = Status(j, "failed") /\ UNCHANGED paths
  /\ NextFace(j)
  /\ UNCHANGED <<pictures, screen, visits, kills>>

\* The server is killed, and its tasks with it.
BoardKilled ==
  /\ "kill" \in BoardFaults /\ kills = 0 /\ kills' = 1
  /\ jobs' = [j \in Jobs |-> [at |-> "done", todo |-> {}]]
  /\ UNCHANGED <<person, paths, board, pictures, screen, births, visits>>

-----------------------------------------------------------------------------
(* The page. *)

Visit == visits < MaxVisits /\ visits' = visits + 1

\* search-refs, which finds something and does not describe it.
FindRefs ==
  /\ Visit /\ person.id # 0 /\ ~person.refs
  /\ person' = [person EXCEPT !.refs = TRUE]
  /\ UNCHANGED <<paths, board, pictures, jobs, screen, births, kills>>

\* PATCH visual_descriptor.
TellLooks(text) ==
  /\ Visit /\ person.id # 0 /\ person.told # text
  /\ person' = [person EXCEPT !.told = text]
  /\ UNCHANGED <<paths, board, pictures, jobs, screen, births, kills>>

\* delete_character takes its candidates along; the files stay.
DeletePerson ==
  /\ Visit /\ person.id # 0
  /\ (\E j \in Jobs : jobs[j].at = "ready") => "wipe" \in BoardFaults
  /\ board' = {r \in board : r.of # person.id}
  /\ person' = Nobody0 /\ paths' = {}
  /\ UNCHANGED <<pictures, jobs, screen, births, kills>>
CreatePerson ==
  /\ Visit /\ person.id = 0
  /\ person' = [Nobody0 EXCEPT !.id = births + 1] /\ births' = births + 1
  /\ UNCHANGED <<paths, board, pictures, jobs, screen, kills>>

StatusOf(f) == IF Rows(f) = {} THEN NoCandidate ELSE (CHOOSE r \in Rows(f) : TRUE).status
Statuses == [f \in Face |-> StatusOf(f)]

\* GET the character; every three seconds its candidates, while one is under way.
LoadPerson ==
  /\ person.id # 0
  /\ screen' = [id |-> person.id, refs |-> person.refs, of |-> Statuses]
  /\ screen' # screen
  /\ UNCHANGED <<person, paths, board, pictures, jobs, births, visits, kills>>
PollBoard ==
  /\ \E f \in Face : screen.of[f] \in {"pending", "generating"}
  /\ screen.id = person.id /\ screen.of # Statuses
  /\ screen' = [screen EXCEPT !.of = Statuses]
  /\ UNCHANGED <<person, paths, board, pictures, jobs, births, visits, kills>>

BoardNext ==
  \/ \E wanted \in SUBSET Face : PostBatch(wanted)
  \/ \E j \in Jobs : TakeUp(j) \/ Drawn0(j) \/ NotDrawn(j) \/ SelectDrawn(j)
  \/ FindRefs \/ (\E text \in BOOLEAN : TellLooks(text)) \/ DeletePerson \/ CreatePerson
  \/ LoadPerson \/ PollBoard \/ BoardKilled
BoardSpec == BoardInit /\ [][BoardNext]_boardVars

-----------------------------------------------------------------------------
(* What a row promises: while the server stays up, somebody is at work on    *)
(* every row that is under way, so the page's spinner ends; a ready row has   *)
(* the picture its own task drew, and its character shows it; and two rows    *)
(* never answer for one angle, since select_candidate would take either.      *)
Underway(r) == r.status \in {"pending", "generating"}
AtWorkOn(j, r) == r.job = j /\ jobs[j].at # "refused" /\ \E i \in jobs[j].todo : Faces[i] = r.face
Selecting(r) == jobs[r.job].at = "ready" /\ Hand(r.job) = r.face
RowsAreServed ==
  /\ \A r, q \in board : r.face = q.face => r = q
  /\ \A r \in board : r.of = person.id
  /\ kills = 0 => \A r \in board : Underway(r) => \E j \in Jobs : AtWorkOn(j, r)
  /\ \A r \in board : r.status = "ready" =>
       pictures[r.face] = r.job /\ (kills = 0 /\ ~Selecting(r) => r.face \in paths)

(* What the page offers, the server takes: finalize, once every angle of the  *)
(* character was seen ready and none is just being selected.                  *)
Finalizable == \A f \in Face : screen.of[f] = "ready"
\* finalize_character.
Finalized == person.id # 0 /\ paths = Face
FinalizeIsTaken ==
  Finalizable /\ screen.id = person.id /\ kills = 0 /\ (\A j \in Jobs : jobs[j].at # "ready") =>
    Finalized

(* Rows, files and the page of a character agree, however many batches are    *)
(* under way, and nobody is created but by the operator.                      *)
BoardIsTrue == RowsAreServed /\ FinalizeIsTaken /\ person.by = "operator"
=============================================================================
