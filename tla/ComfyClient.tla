---------------------------- MODULE ComfyClient ----------------------------
(* Concurrent calls of the ComfyUI adapter (services/comfyui_client.py)     *)
(* and the server they share.  A call uploads its reference image, submits *)
(* a graph, polls /history, asks /queue about a prompt that does not show  *)
(* up, resubmits what the server dropped, and downloads the image.  The    *)
(* server is another process: it moves between any two requests, may lose  *)
(* an answer, fail a read, drop a prompt it accepted, or be restarted.     *)
EXTENDS Integers, Sequences, FiniteSets

CONSTANTS
  Callers,          \* the calls in flight
  Bare,             \* those that upload under the bare name of their file
  ConnectAttempts,  \* CONNECT_ATTEMPTS
  DropResubmits,    \* DROP_RESUBMITS
  MaxPolls,         \* the budget of _poll_budget
  GraceEvery,       \* polls in a DROP_GRACE_SEC
  Faults,           \* what may go wrong
  MaxMishaps        \* bound: how often it does

ASSUME CallersFinite == IsFiniteSet(Callers) /\ Bare \subseteq Callers
ASSUME Counts == /\ {ConnectAttempts, MaxPolls, GraceEvery} \subseteq Nat \ {0}
                 /\ {DropResubmits, MaxMishaps} \subseteq Nat
ASSUME FaultsKnown ==
  Faults \subseteq {"upload", "refused", "reply", "invalid", "unread",
                    "drop", "broken", "unsaid", "view", "restart"}

VARIABLES
  call,     \* the locals of each call
  prompts,  \* every prompt the server accepted, in order
  input,    \* the server's input directory: whose image a name holds
  mishaps   \* what went wrong so far, for the bound

vars == <<call, prompts, input, mishaps>>

-----------------------------------------------------------------------------
(* The name a call uploads under.  Some callers qualify it by a digest, the *)
(* others use the file's own, which their peers use too.                    *)
NoOne == "nobody"
Names == Callers \cup {"bare"}

\* Mutant: no caller qualifies its name.
NameBare(c) == "bare"
Name(c) == IF c \in Bare THEN "bare" ELSE c

\* What is done with a prompt.  "lost" was accepted and is in no list.
Waiting == {"pending", "running"}
Places == Waiting \cup {"lost", "history"}
Outcomes == {"none", "image", "nothing", "error", "unsaid"}

Prompt == [of : Callers,                 \* the call that sent it,
           token : Nat,                  \* the token of its save nodes,
           told : BOOLEAN,               \* whether the reply arrived,
           place : Places, drew : Callers \cup {NoOne}, outcome : Outcomes]

Call == [pc : {"upload", "submit", "poll", "ask", "download", "done", "failed"},
         tries : 0..ConnectAttempts - 1,     \* POSTs of the graph in hand
         token : Nat,                    \* its token
         prompt : Nat,                   \* the prompt polled for, 0 is none
         polls : 0..MaxPolls - 1, nextCheck : Nat,
         dropped : 0..DropResubmits,
         got : Callers \cup {NoOne},     \* whose image the picture is drawn from
         why : {"", "upload", "submit", "empty", "budget", "drops", "view"}]

Fresh == [pc |-> "upload", tries |-> 0, token |-> 0, prompt |-> 0, polls |-> 0,
          nextCheck |-> GraceEvery, dropped |-> 0, got |-> NoOne, why |-> ""]

Init ==
  /\ call = [c \in Callers |-> Fresh]
  /\ prompts = <<>>
  /\ input = [n \in Names |-> NoOne]
  /\ mishaps = 0

GoesWrong(fault) ==
  /\ fault \in Faults /\ mishaps < MaxMishaps
  /\ mishaps' = mishaps + 1
GoesWell == mishaps' = mishaps

\* The call is over and its locals are gone; which prompt it ended with is
\* kept for the properties.
Fails(c, reason) ==
  call' = [call EXCEPT ![c] = [Fresh EXCEPT !.pc = "failed", !.why = reason, !.prompt = call[c].prompt]]

-----------------------------------------------------------------------------
(* upload_image and _submit.                                                *)

\* overwrite=true: the last upload of a name is what it holds.
Upload(c) ==
  /\ call[c].pc = "upload"
  /\ \/ /\ input' = [input EXCEPT ![Name(c)] = c]
        /\ call' = [call EXCEPT ![c].pc = "submit"]
        /\ GoesWell
     \/ /\ GoesWrong("upload")
        /\ Fails(c, "upload")
        /\ UNCHANGED input
  /\ UNCHANGED prompts

\* _bust_save_cache: once per _submit, so the POSTs of one _submit share a
\* token.  A graph is its caller and its token.

\* Mutant: the graph is not made unique again for a resubmit.
TokenOnce(c) == 1
Token(c) == IF call[c].tries = 0 THEN call[c].token + 1 ELSE call[c].token

Accepted(c, told, place) ==
  Append(prompts, [of |-> c, token |-> Token(c), told |-> told, place |-> place,
                   drew |-> NoOne, outcome |-> "none"])

\* The prompt is accepted and its id arrives.
Submit(c) ==
  /\ call[c].pc = "submit"
  /\ \/ GoesWell /\ prompts' = Accepted(c, TRUE, "pending")
     \/ GoesWrong("drop") /\ prompts' = Accepted(c, TRUE, "lost")
  /\ call' = [call EXCEPT ![c].pc = "poll", ![c].tries = 0, ![c].token = Token(c),
                          ![c].prompt = Len(prompts'), ![c].polls = 0,
                          ![c].nextCheck = GraceEvery]
  /\ UNCHANGED input

\* A transport error: the server refused the connection, or took the prompt
\* and the answer did not come back.  _request_with_retry posts it again.
SubmitBreaks(c) ==
  /\ call[c].pc = "submit"
  /\ \/ GoesWrong("refused") /\ UNCHANGED prompts
     \/ GoesWrong("reply") /\ prompts' = Accepted(c, FALSE, "pending")
  /\ IF call[c].tries + 1 = ConnectAttempts THEN Fails(c, "submit")
     ELSE call' = [call EXCEPT ![c].token = Token(c), ![c].tries = @ + 1]
  /\ UNCHANGED input

\* HTTP 400, an "error" in the body, or no prompt_id.
SubmitInvalid(c) ==
  /\ call[c].pc = "submit" /\ GoesWrong("invalid")
  /\ Fails(c, "submit")
  /\ UNCHANGED <<prompts, input>>

-----------------------------------------------------------------------------
(* _poll_history.                                                           *)

\* The end of an iteration that found nothing: the next one, or the timeout.

Sleep(c) ==
  IF call[c].polls + 1 = MaxPolls THEN Fails(c, "budget")
  ELSE call' = [call EXCEPT ![c].polls = @ + 1]

Entry(c) == prompts[call[c].prompt]

\* A read that fails is counted and otherwise ignored.
PollFails(c) ==
  /\ call[c].pc = "poll" /\ GoesWrong("unread")
  /\ Sleep(c)
  /\ UNCHANGED <<prompts, input>>

\* An entry with an image, one that is finished without, one with neither.
PollFinds(c) ==
  /\ call[c].pc = "poll" /\ Entry(c).place = "history"
  /\ CASE Entry(c).outcome = "image" -> call' = [call EXCEPT ![c].pc = "download"]
       [] Entry(c).outcome \in {"nothing", "error"} -> Fails(c, "empty")
       [] OTHER -> Sleep(c)
  /\ UNCHANGED <<prompts, input, mishaps>>

\* No entry: every DROP_GRACE_SEC the queue is asked before the sleep.
PollMisses(c) ==
  /\ call[c].pc = "poll" /\ Entry(c).place # "history"
  /\ IF call[c].polls + 1 >= call[c].nextCheck
     THEN call' = [call EXCEPT ![c].pc = "ask", ![c].nextCheck = @ + GraceEvery]
     ELSE Sleep(c)
  /\ UNCHANGED <<prompts, input, mishaps>>

\* _is_live.  Unknown counts as live.
Alive(c, answered) == ~answered \/ Entry(c).place \in Waiting

\* _submit_and_await: what is neither in the history, as read before, nor in
\* the queue now, was dropped.
AskQueue(c) ==
  /\ call[c].pc = "ask"
  /\ \E answered \in BOOLEAN :
       /\ IF answered THEN GoesWell ELSE GoesWrong("unread")
       /\ IF Alive(c, answered)
          THEN IF call[c].polls + 1 = MaxPolls THEN Fails(c, "budget")
               ELSE call' = [call EXCEPT ![c].pc = "poll", ![c].polls = @ + 1]
          ELSE IF call[c].dropped = DropResubmits
               THEN Fails(c, "drops")
               ELSE call' = [call EXCEPT ![c].pc = "submit", ![c].tries = 0, ![c].dropped = @ + 1]
  /\ UNCHANGED <<prompts, input>>

\* /view: the server's error and an empty body fail the call.
Returns(c) ==
  call' = [call EXCEPT ![c] = [Fresh EXCEPT !.pc = "done", !.got = Entry(c).drew, !.prompt = call[c].prompt]]
Download(c) ==
  /\ call[c].pc = "download"
  /\ \/ GoesWell /\ Returns(c)
     \/ GoesWrong("view") /\ Fails(c, "view")
  /\ UNCHANGED <<prompts, input>>

Step(c) ==
  \/ Upload(c) \/ Submit(c) \/ SubmitBreaks(c) \/ SubmitInvalid(c)
  \/ PollFails(c) \/ PollFinds(c) \/ PollMisses(c) \/ AskQueue(c) \/ Download(c)

-----------------------------------------------------------------------------
(* The server, as the client uses it: one prompt runs at a time, in order. *)
(* LoadImage reads its file when the prompt runs, not when it is accepted. *)

Ids == DOMAIN prompts

\* The graph of prompt i was executed, on the same image, since the server
\* started: its save node is in the execution cache.
Cached(i) ==
  \E j \in Ids : /\ prompts[j].place = "history" /\ prompts[j].outcome \in {"image", "unsaid"}
                /\ \A part \in {"of", "token", "drew"} : prompts[j][part] = prompts[i][part]

Begin(i) ==
  /\ prompts[i].place = "pending"
  /\ \A j \in Ids : prompts[j].place # "running" /\ (j < i => prompts[j].place # "pending")
  /\ prompts' = [prompts EXCEPT ![i].place = "running", ![i].drew = input[Name(prompts[i].of)]]
  /\ UNCHANGED <<call, input, mishaps>>

\* A graph whose save node is cached finishes without any output.
Finish(i) ==
  /\ prompts[i].place = "running"
  /\ \E outcome \in {"image", "nothing", "error", "unsaid"} :
       /\ outcome = "nothing" <=> Cached(i)
       /\ CASE outcome = "error" -> GoesWrong("broken")
            [] outcome = "unsaid" -> GoesWrong("unsaid")
            [] OTHER -> GoesWell
       /\ prompts' = [prompts EXCEPT ![i].place = "history", ![i].outcome = outcome]
  /\ UNCHANGED <<call, input>>

\* An entry that had neither outputs nor a status gets both.
Complete(i) ==
  /\ prompts[i].place = "history" /\ prompts[i].outcome = "unsaid"
  /\ prompts' = [prompts EXCEPT ![i].outcome = "image"]
  /\ UNCHANGED <<call, input, mishaps>>

\* The queue, the history and the cache are in the server's memory.
Restart ==
  /\ GoesWrong("restart")
  /\ \E i \in Ids : prompts[i].place # "lost"
  /\ prompts' = [i \in Ids |-> [prompts[i] EXCEPT !.place = "lost"]]
  /\ UNCHANGED <<call, input>>

Next ==
  \/ \E c \in Callers : Step(c)
  \/ \E i \in Ids : Begin(i) \/ Finish(i) \/ Complete(i)
  \/ Restart

Spec == Init /\ [][Next]_vars

\* Every request has a timeout and every sleep ends.  Nothing is assumed of
\* the server.
FairSpec == Spec /\ \A c \in Callers : WF_vars(Step(c))

-----------------------------------------------------------------------------

TypeOK ==
  /\ call \in [Callers -> Call]
  /\ prompts \in Seq(Prompt)
  /\ input \in [Names -> Callers \cup {NoOne}]
  /\ mishaps \in 0..MaxMishaps
  /\ \A c \in Callers :
       /\ call[c].prompt \in 0..Len(prompts)
       /\ call[c].pc \in {"poll", "ask", "download"} =>
            call[c].prompt # 0 /\ Entry(c).of = c /\ Entry(c).told

(* A resubmit repeats no work and is never answered with nothing.  No call  *)
(* has two prompts of its own that the server is working on or still will, *)
(* as far as their ids reached it: a drop is only concluded of a prompt    *)
(* that will never run (_is_live: unknown counts as live).  And a finished *)
(* prompt without an image is the workflow's own failure, or the second    *)
(* copy of a graph whose first answer was lost: a resubmit is not served   *)
(* from the execution cache (_bust_save_cache, _submit_and_await).          *)
NoWorkInProgressIsRepeated ==
  \A i, j \in Ids :
    /\ prompts[i].of = prompts[j].of
    /\ prompts[i].told /\ prompts[j].told
    /\ {prompts[i].place, prompts[j].place} \subseteq Waiting
    => i = j
EmptyOnlyAfterALostReply ==
  \A c \in Callers :
    call[c].why = "empty" =>
      \/ Entry(c).outcome = "error"
      \/ \E i \in Ids : prompts[i].of = c /\ ~prompts[i].told
ResubmitsAreFresh == NoWorkInProgressIsRepeated /\ EmptyOnlyAfterALostReply

(* While at most one caller uses a bare name, the calls keep ImageCall's    *)
(* promise, whatever the server does: each returns a picture drawn from its *)
(* own upload, or raises, once and in the end, since budget, attempts and   *)
(* resubmits are all bounded.                                               *)
Answer(c) ==
  CASE call[c].pc = "done" -> [kind |-> "picture", of |-> call[c].got]
    [] call[c].pc = "failed" -> [kind |-> "error"]
    [] OTHER -> [kind |-> "pending"]

Promise == INSTANCE ImageCall WITH answer <- [c \in Callers |-> Answer(c)]
AnswersItsCall == Promise!Spec
=============================================================================
