----------------------------- MODULE ComfyProofs -----------------------------
(***************************************************************************)
(* Theorems about ComfyClient, for any number of calls, attempts, polls    *)
(* and mishaps: no resubmit repeats work in progress, a workflow without   *)
(* an image is its own failure or a lost answer's, and a call never        *)
(* returns a picture of another's image.                                   *)
(***************************************************************************)
EXTENDS ComfyClient, SequenceTheorems, TLAPS

Ended == {"done", "failed"}

\* What the server works on, or will, is what its call polls for.
WorkIsAwaited ==
  \A i \in Ids : prompts[i].told /\ prompts[i].place \in Waiting =>
    LET c == prompts[i].of
    IN call[c].prompt = i /\ call[c].pc \notin {"upload", "submit"}

\* The token of a POST is newer than those of every prompt whose id arrived.
TokensAreSpent ==
  \A i \in Ids :
    LET p == prompts[i]
        k == call[p.of]
    IN k.pc \notin Ended =>
         p.token <= k.token /\ (p.told /\ k.pc = "submit" /\ k.tries > 0 => p.token < k.token)

TokensDiffer ==
  \A i, j \in Ids :
    /\ prompts[i].of = prompts[j].of /\ prompts[i].token = prompts[j].token
    /\ prompts[i].told /\ prompts[j].told
    => i = j

\* A graph that ended without an output had been run before.
NothingWasCached ==
  \A i \in Ids :
    /\ prompts[i].outcome # "none" => prompts[i].place \notin Waiting
    /\ prompts[i].outcome = "nothing" =>
         \E j \in Ids : j # i /\ prompts[j].of = prompts[i].of /\ prompts[j].token = prompts[i].token

EmptyIsSeen ==
  \A c \in Callers : call[c].why = "empty" =>
    call[c].pc = "failed" /\ call[c].prompt # 0 /\ Entry(c).of = c /\ Entry(c).outcome \in {"nothing", "error"}

\* A call that has not uploaded has posted nothing.
NoPromptYet == \A c \in Callers : call[c].pc = "upload" => call[c].tries = 0

FreshInv ==
  TypeOK /\ NoPromptYet /\ WorkIsAwaited /\ TokensAreSpent /\ TokensDiffer /\ NothingWasCached /\ EmptyIsSeen

\* One call at most uploads under the bare name, and no call is named like it.
OneBareCall == (\A c, d \in Bare : c = d) /\ "bare" \notin Callers /\ NoOne \notin Callers

\* Once a call has uploaded, its name holds its image; and what was drawn for
\* it was drawn from that.
UploadsHold ==
  /\ \A c \in Callers :
       /\ input[Name(c)] \in {c, NoOne}
       /\ call[c].pc \notin Ended \cup {"upload"} => input[Name(c)] = c
       /\ call[c].pc = "download" => Entry(c).drew = c
       /\ call[c].pc = "done" => call[c].got = c
  /\ \A i \in Ids :
       /\ input[Name(prompts[i].of)] = prompts[i].of
       /\ prompts[i].drew \in {prompts[i].of, NoOne}
       /\ prompts[i].place \in {"running", "history"} => prompts[i].drew = prompts[i].of

DrawnInv == TypeOK /\ UploadsHold

-----------------------------------------------------------------------------
(* Types, and what a step does to the prompts. *)

LEMMA CountFacts ==
  /\ ConnectAttempts \in Nat \ {0} /\ MaxPolls \in Nat \ {0} /\ GraceEvery \in Nat \ {0}
  /\ DropResubmits \in Nat /\ MaxMishaps \in Nat
  /\ Fresh \in Call
<1>1. /\ ConnectAttempts \in Nat \ {0} /\ MaxPolls \in Nat \ {0} /\ GraceEvery \in Nat \ {0}
      /\ DropResubmits \in Nat /\ MaxMishaps \in Nat
  BY Counts
<1> QED  BY <1>1 DEF Fresh, Call

LEMMA IdFacts ==
  ASSUME TypeOK
  PROVE  /\ Ids = 1 .. Len(prompts) /\ Len(prompts) \in Nat
         /\ \A i \in Ids : prompts[i] \in Prompt
         /\ \A c \in Callers : call[c].prompt # 0 => call[c].prompt \in Ids
         /\ \A c \in Callers : call[c] \in Call
<1>1. prompts \in Seq(Prompt) /\ call \in [Callers -> Call]
      /\ \A c \in Callers : call[c].prompt \in 0 .. Len(prompts)
  BY DEF TypeOK
<1>2. Ids = 1 .. Len(prompts) /\ Len(prompts) \in Nat
  BY <1>1, LenProperties DEF Ids
<1>3. \A i \in Ids : prompts[i] \in Prompt
  BY <1>1, <1>2, ElementOfSeq
<1> QED  BY <1>1, <1>2, <1>3

LEMMA CallFacts ==
  ASSUME TypeOK, NEW c \in Callers
  PROVE  /\ call[c] \in Call /\ call[c].token \in Nat /\ call[c].nextCheck \in Nat
         /\ call[c].tries \in 0 .. ConnectAttempts - 1 /\ call[c].polls \in 0 .. MaxPolls - 1
         /\ call[c].dropped \in 0 .. DropResubmits /\ Token(c) \in Nat
         /\ 0 \in 0 .. ConnectAttempts - 1 /\ 0 \in 0 .. MaxPolls - 1
<1>1. call[c] \in Call
  BY IdFacts
<1>2. /\ call[c].token \in Nat /\ call[c].nextCheck \in Nat
      /\ call[c].tries \in 0 .. ConnectAttempts - 1 /\ call[c].polls \in 0 .. MaxPolls - 1
      /\ call[c].dropped \in 0 .. DropResubmits
  BY <1>1 DEF Call
<1>3. Token(c) \in Nat
  BY <1>2 DEF Token
<1>4. 0 \in 0 .. ConnectAttempts - 1 /\ 0 \in 0 .. MaxPolls - 1
  BY CountFacts
<1> QED  BY <1>1, <1>2, <1>3, <1>4

\* A prompt of c goes to the end of the list.
Grows(c, told, place) ==
  LET n == Len(prompts) + 1 IN
  /\ prompts' \in Seq(Prompt) /\ Len(prompts') = n /\ Ids' = Ids \cup {n} /\ n \notin Ids
  /\ \A i \in Ids : prompts'[i] = prompts[i]
  /\ prompts'[n].of = c /\ prompts'[n].token = Token(c) /\ prompts'[n].told = told
  /\ prompts'[n].place = place /\ prompts'[n].drew = NoOne /\ prompts'[n].outcome = "none"

LEMMA Accepting ==
  ASSUME TypeOK, NEW c \in Callers, NEW told \in BOOLEAN, NEW place \in {"pending", "lost"},
         prompts' = Accepted(c, told, place)
  PROVE  Grows(c, told, place)
<1> DEFINE p == [of |-> c, token |-> Token(c), told |-> told, place |-> place,
                 drew |-> NoOne, outcome |-> "none"]
<1>1. Token(c) \in Nat
  BY CallFacts
<1>2. /\ p \in Prompt /\ p.of = c /\ p.token = Token(c) /\ p.told = told /\ p.place = place
      /\ p.drew = NoOne /\ p.outcome = "none"
  BY <1>1 DEF Prompt, Places, Waiting, Outcomes
<1>3. prompts' = Append(prompts, p)
  BY DEF Accepted
<1> HIDE DEF p
<1>4. prompts \in Seq(Prompt)
  BY DEF TypeOK
<1>5. prompts' \in Seq(Prompt) /\ Len(prompts') = Len(prompts) + 1
  BY <1>2, <1>3, <1>4
<1>6. Ids' = 1 .. Len(prompts) + 1 /\ Ids = 1 .. Len(prompts) /\ Len(prompts) \in Nat
  BY <1>4, <1>5 DEF Ids
<1>7. (\A i \in Ids : prompts'[i] = prompts[i]) /\ prompts'[Len(prompts) + 1] = p
  BY <1>2, <1>3, <1>4, <1>6
<1> QED  BY <1>2, <1>5, <1>6, <1>7 DEF Grows

\* What the server does to the prompts: nothing it keeps of one changes.
Moves ==
  /\ prompts' \in Seq(Prompt) /\ Len(prompts') = Len(prompts) /\ Ids' = Ids
  /\ \A i \in Ids :
       /\ prompts'[i].of = prompts[i].of /\ prompts'[i].token = prompts[i].token
       /\ prompts'[i].told = prompts[i].told
       /\ prompts'[i].place \in Waiting => prompts[i].place \in Waiting

LEMMA OneMoves ==
  ASSUME TypeOK, NEW i \in Ids, NEW q \in Prompt, prompts' = [prompts EXCEPT ![i] = q],
         q.of = prompts[i].of, q.token = prompts[i].token, q.told = prompts[i].told,
         q.place \in Waiting => prompts[i].place \in Waiting
  PROVE  Moves /\ prompts'[i] = q /\ \A j \in Ids : j # i => prompts'[j] = prompts[j]
<1>1. prompts \in Seq(Prompt) /\ i \in 1 .. Len(prompts) /\ Ids = 1 .. Len(prompts)
  BY IdFacts DEF TypeOK
<1>2. /\ prompts' \in Seq(Prompt) /\ Len(prompts') = Len(prompts)
      /\ \A j \in 1 .. Len(prompts) : prompts'[j] = IF j = i THEN q ELSE prompts[j]
  BY <1>1, ExceptSeq
<1>3. Ids' = Ids
  BY <1>1, <1>2 DEF Ids
<1> QED  BY <1>1, <1>2, <1>3 DEF Moves

\* A prompt is begun.
LEMMA BeginMoves ==
  ASSUME TypeOK, NEW i \in Ids, Begin(i)
  PROVE  /\ Moves /\ \A j \in Ids : j # i => prompts'[j] = prompts[j]
         /\ prompts[i].place = "pending" /\ prompts'[i].place = "running"
         /\ prompts'[i].drew = input[Name(prompts[i].of)]
         /\ prompts'[i].outcome = prompts[i].outcome
<1> DEFINE d == input[Name(prompts[i].of)]
           q == [prompts[i] EXCEPT !.place = "running", !.drew = d]
<1>1. prompts[i] \in Prompt /\ d \in Callers \cup {NoOne}
  BY IdFacts DEF TypeOK, Prompt, Name, Names
<1>2. prompts' = [prompts EXCEPT ![i] = q] /\ prompts[i].place = "pending"
  BY DEF Begin
<1> HIDE DEF d
<1>3. /\ q \in Prompt /\ q.of = prompts[i].of /\ q.token = prompts[i].token
      /\ q.told = prompts[i].told /\ q.place = "running" /\ q.drew = d
      /\ q.outcome = prompts[i].outcome
  BY <1>1 DEF Prompt, Places, Waiting
<1> HIDE DEF q
<1> QED  BY <1>2, <1>3, OneMoves DEF Waiting, d

LEMMA FinishMoves ==
  ASSUME TypeOK, NEW i \in Ids, Finish(i)
  PROVE  /\ Moves /\ \A j \in Ids : j # i => prompts'[j] = prompts[j]
         /\ prompts[i].place = "running" /\ prompts'[i].place = "history"
         /\ prompts'[i].drew = prompts[i].drew
         /\ prompts'[i].outcome = "nothing" => Cached(i)
<1> PICK outcome \in {"image", "nothing", "error", "unsaid"} :
      /\ outcome = "nothing" <=> Cached(i)
      /\ prompts' = [prompts EXCEPT ![i].place = "history", ![i].outcome = outcome]
  BY DEF Finish
<1> DEFINE q == [prompts[i] EXCEPT !.place = "history", !.outcome = outcome]
<1>1. prompts[i] \in Prompt /\ prompts[i].place = "running"
  BY IdFacts DEF Finish
<1>2. prompts' = [prompts EXCEPT ![i] = q]
  OBVIOUS
<1>3. /\ q \in Prompt /\ q.of = prompts[i].of /\ q.token = prompts[i].token
      /\ q.told = prompts[i].told /\ q.place = "history" /\ q.drew = prompts[i].drew
      /\ q.outcome = outcome
  BY <1>1 DEF Prompt, Places, Waiting, Outcomes
<1> HIDE DEF q
<1> QED  BY <1>1, <1>2, <1>3, OneMoves DEF Waiting

LEMMA CompleteMoves ==
  ASSUME TypeOK, NEW i \in Ids, Complete(i)
  PROVE  /\ Moves /\ \A j \in Ids : j # i => prompts'[j] = prompts[j]
         /\ prompts[i].place = "history" /\ prompts'[i].place = "history"
         /\ prompts'[i].drew = prompts[i].drew
         /\ prompts[i].outcome = "unsaid" /\ prompts'[i].outcome = "image"
<1> DEFINE q == [prompts[i] EXCEPT !.outcome = "image"]
<1>1. prompts[i] \in Prompt /\ prompts[i].place = "history" /\ prompts[i].outcome = "unsaid"
  BY IdFacts DEF Complete
<1>2. prompts' = [prompts EXCEPT ![i] = q]
  BY DEF Complete
<1>3. /\ q \in Prompt /\ q.of = prompts[i].of /\ q.token = prompts[i].token
      /\ q.told = prompts[i].told /\ q.place = "history" /\ q.drew = prompts[i].drew
      /\ q.outcome = "image"
  BY <1>1 DEF Prompt, Outcomes
<1> HIDE DEF q
<1> QED  BY <1>1, <1>2, <1>3, OneMoves DEF Waiting

LEMMA RestartMoves ==
  ASSUME TypeOK, Restart
  PROVE  Moves /\ \A i \in Ids : prompts'[i] = [prompts[i] EXCEPT !.place = "lost"]
<1>1. prompts' = [i \in Ids |-> [prompts[i] EXCEPT !.place = "lost"]]
  BY DEF Restart
<1>2. Ids = 1 .. Len(prompts) /\ Len(prompts) \in Nat /\ \A i \in Ids : prompts[i] \in Prompt
  BY IdFacts
<1>3. \A i \in Ids : [prompts[i] EXCEPT !.place = "lost"] \in Prompt
  BY <1>2 DEF Prompt, Places
<1>4. prompts' \in [1 .. Len(prompts) -> Prompt]
  BY <1>1, <1>2, <1>3
<1>5. prompts' \in Seq(Prompt) /\ Len(prompts') = Len(prompts)
  BY <1>2, <1>4, SeqDef
<1>6. Ids' = Ids
  BY <1>2, <1>4 DEF Ids
<1>7. \A i \in Ids : prompts'[i] = [prompts[i] EXCEPT !.place = "lost"]
  BY <1>1
<1> QED  BY <1>2, <1>5, <1>6, <1>7 DEF Moves, Prompt, Waiting

-----------------------------------------------------------------------------
(* What a step of a call does. *)

\* Only the call moves.
Goes(c) ==
  /\ call' \in [Callers -> Call]
  /\ \A d \in Callers : d # c => call'[d] = call[d]
  /\ call[c].pc \notin Ended
Keeps(c) ==
  call'[c].prompt = call[c].prompt /\ call'[c].why = call[c].why /\ call'[c].token = call[c].token
Still == UNCHANGED <<prompts, input>>

Uploads(c) ==
  /\ call[c].pc = "upload" /\ call'[c].pc = "submit" /\ Keeps(c) /\ call'[c].tries = call[c].tries
  /\ UNCHANGED prompts /\ input' = [input EXCEPT ![Name(c)] = c]
FailsFor(c, reason) ==
  /\ call'[c].pc = "failed" /\ call'[c].why = reason /\ call'[c].prompt = call[c].prompt
  /\ reason = "empty" => call[c].pc = "poll" /\ Entry(c).outcome \in {"nothing", "error"}
  /\ UNCHANGED input
  /\ UNCHANGED prompts \/ (call[c].pc = "submit" /\ Grows(c, FALSE, "pending"))
PostsAgain(c) ==
  /\ call[c].pc = "submit" /\ call'[c].pc = "submit" /\ call'[c].tries > 0
  /\ call'[c].token = Token(c) /\ call'[c].why = call[c].why
  /\ call'[c].prompt = call[c].prompt /\ UNCHANGED input
  /\ UNCHANGED prompts \/ Grows(c, FALSE, "pending")
IsAccepted(c) ==
  /\ call[c].pc = "submit" /\ call'[c].pc = "poll" /\ call'[c].token = Token(c)
  /\ call'[c].why = call[c].why /\ call'[c].prompt = Len(prompts) + 1 /\ UNCHANGED input
  /\ Grows(c, TRUE, "pending") \/ Grows(c, TRUE, "lost")
Waits(c) ==
  /\ call[c].pc \in {"poll", "ask"} /\ call'[c].pc \in {"poll", "ask", "download"}
  /\ Keeps(c) /\ Still
  /\ call'[c].pc = "download" => Entry(c).place = "history"
Resubmits(c) ==
  /\ call[c].pc = "ask" /\ call'[c].pc = "submit" /\ call'[c].tries = 0 /\ Keeps(c) /\ Still
  /\ Entry(c).place \notin Waiting
GetsIt(c) ==
  /\ call[c].pc = "download" /\ call'[c].pc = "done" /\ call'[c].got = Entry(c).drew
  /\ call'[c].prompt = call[c].prompt /\ call'[c].why = "" /\ Still

Does(c) ==
  Goes(c) /\ (\/ Uploads(c) \/ PostsAgain(c) \/ IsAccepted(c) \/ Waits(c) \/ Resubmits(c) \/ GetsIt(c)
              \/ \E reason \in {"upload", "submit", "empty", "budget", "drops", "view"} : FailsFor(c, reason))

LEMMA Becomes ==
  ASSUME TypeOK, NEW c \in Callers, NEW t \in Call, call' = [call EXCEPT ![c] = t],
         call[c].pc \notin Ended
  PROVE  Goes(c) /\ call'[c] = t
  BY DEF TypeOK, Goes

LEMMA FailsDoes ==
  ASSUME TypeOK, NEW c \in Callers,
         NEW reason \in {"upload", "submit", "empty", "budget", "drops", "view"},
         Fails(c, reason), call[c].pc \notin Ended
  PROVE  Goes(c) /\ call'[c].pc = "failed" /\ call'[c].why = reason
         /\ call'[c].prompt = call[c].prompt
<1> DEFINE k == call[c].prompt
           t == [Fresh EXCEPT !.pc = "failed", !.why = reason, !.prompt = k]
<1>1. k \in Nat
  BY IdFacts DEF TypeOK, Call
<1>2. call' = [call EXCEPT ![c] = t]
  BY DEF Fails
<1> HIDE DEF k
<1>3. t \in Call /\ t.pc = "failed" /\ t.why = reason /\ t.prompt = k
  BY <1>1, CountFacts DEF Call
<1> HIDE DEF t
<1> QED  BY <1>2, <1>3, Becomes DEF k

LEMMA SleepDoes ==
  ASSUME TypeOK, NEW c \in Callers, Sleep(c), Still, call[c].pc = "poll"
  PROVE  Does(c)
<1>1. call[c].pc \notin Ended
  BY DEF Ended
<1>2. CASE Fails(c, "budget")
  BY <1>1, <1>2, FailsDoes DEF FailsFor, Does, Still
<1>3. CASE call[c].polls + 1 # MaxPolls /\ call' = [call EXCEPT ![c].polls = @ + 1]
  <2> DEFINE k == call[c].polls + 1
             t == [call[c] EXCEPT !.polls = k]
  <2>0. k \in 0 .. MaxPolls - 1 /\ call[c] \in Call
    BY <1>3, CallFacts, CountFacts
  <2>2. call' = [call EXCEPT ![c] = t]
    BY <1>3, <2>0 DEF Call
  <2> HIDE DEF k
  <2>1. /\ t \in Call /\ t.pc = call[c].pc /\ t.prompt = call[c].prompt /\ t.why = call[c].why
        /\ t.token = call[c].token
    BY <2>0 DEF Call
  <2> HIDE DEF t
  <2> QED  BY <1>1, <2>1, <2>2, Becomes DEF Does, Waits, Keeps
<1> QED  BY <1>2, <1>3 DEF Sleep

LEMMA UploadDoes == ASSUME TypeOK, NEW c \in Callers, Upload(c) PROVE Does(c)
<1>1. call[c].pc = "upload" /\ call[c].pc \notin Ended /\ UNCHANGED prompts
  BY DEF Upload, Ended
<1>2. CASE Fails(c, "upload") /\ UNCHANGED input
  BY <1>1, <1>2, FailsDoes DEF FailsFor, Does
<1>3. CASE input' = [input EXCEPT ![Name(c)] = c] /\ call' = [call EXCEPT ![c].pc = "submit"]
  <2> DEFINE t == [call[c] EXCEPT !.pc = "submit"]
  <2>1. /\ t \in Call /\ t.pc = "submit" /\ t.prompt = call[c].prompt /\ t.why = call[c].why
        /\ t.token = call[c].token /\ t.tries = call[c].tries
    BY IdFacts DEF Call
  <2>2. call' = [call EXCEPT ![c] = t]
    BY <1>3
  <2> HIDE DEF t
  <2> QED  BY <1>1, <1>3, <2>1, <2>2, Becomes DEF Does, Uploads, Keeps
<1> QED  BY <1>2, <1>3 DEF Upload

LEMMA SubmitDoes == ASSUME TypeOK, NEW c \in Callers, Submit(c) PROVE Does(c)
<1>1. call[c].pc = "submit" /\ call[c].pc \notin Ended /\ UNCHANGED input
  BY DEF Submit, Ended
<1>2. Grows(c, TRUE, "pending") \/ Grows(c, TRUE, "lost")
  BY Accepting DEF Submit
<1>3. Len(prompts') = Len(prompts) + 1 /\ Len(prompts) \in Nat
  BY <1>2, IdFacts DEF Grows
<1> DEFINE t == [call[c] EXCEPT !.pc = "poll", !.tries = 0, !.token = Token(c),
                                !.prompt = Len(prompts) + 1, !.polls = 0, !.nextCheck = GraceEvery]
<1>4. call' = [call EXCEPT ![c] = t]
  BY <1>3, CallFacts DEF Submit, Call
<1>5. Token(c) \in Nat /\ call[c] \in Call /\ 0 \in 0 .. ConnectAttempts - 1 /\ 0 \in 0 .. MaxPolls - 1
  BY CallFacts
<1>6. /\ t \in Call /\ t.pc = "poll" /\ t.prompt = Len(prompts) + 1 /\ t.why = call[c].why
      /\ t.token = Token(c)
  <2> DEFINE k == Token(c)
             n == Len(prompts) + 1
  <2>1. k \in Nat /\ n \in Nat /\ GraceEvery \in Nat
    BY <1>3, <1>5, CountFacts
  <2> HIDE DEF k, n
  <2>2. t = [call[c] EXCEPT !.pc = "poll", !.tries = 0, !.token = k,
                            !.prompt = n, !.polls = 0, !.nextCheck = GraceEvery]
    BY DEF k, n
  <2>3. t \in Call /\ t.pc = "poll" /\ t.prompt = n /\ t.why = call[c].why /\ t.token = k
    BY <1>5, <2>1, <2>2 DEF Call
  <2> QED  BY <2>3 DEF k, n
<1> HIDE DEF t
<1> QED  BY <1>1, <1>2, <1>4, <1>6, Becomes DEF Does, IsAccepted

LEMMA SubmitBreaksDoes == ASSUME TypeOK, NEW c \in Callers, SubmitBreaks(c) PROVE Does(c)
<1>1. call[c].pc = "submit" /\ call[c].pc \notin Ended /\ UNCHANGED input
  BY DEF SubmitBreaks, Ended
<1>2. UNCHANGED prompts \/ Grows(c, FALSE, "pending")
  BY Accepting DEF SubmitBreaks
<1>3. CASE Fails(c, "submit")
  BY <1>1, <1>2, <1>3, FailsDoes DEF FailsFor, Does
<1>4. CASE /\ call[c].tries + 1 # ConnectAttempts
           /\ call' = [call EXCEPT ![c].token = Token(c), ![c].tries = @ + 1]
  <2> DEFINE k == call[c].tries + 1
             t == [call[c] EXCEPT !.token = Token(c), !.tries = k]
  <2>1. call[c] \in Call
    BY IdFacts
  <2>2. call[c].tries \in 0 .. ConnectAttempts - 1 /\ call[c].token \in Nat
    BY <2>1 DEF Call
  <2>3. k \in 0 .. ConnectAttempts - 1 /\ k > 0 /\ Token(c) \in Nat
    BY <1>4, <2>2, CountFacts DEF Token
  <2>4. call' = [call EXCEPT ![c] = t]
    BY <1>4, <2>1 DEF Call
  <2> HIDE DEF k
  <2>5. /\ t \in Call /\ t.pc = call[c].pc /\ t.prompt = call[c].prompt /\ t.why = call[c].why
        /\ t.token = Token(c) /\ t.tries = k
    BY <2>1, <2>3 DEF Call
  <2> HIDE DEF t
  <2> QED  BY <1>1, <1>2, <2>3, <2>4, <2>5, Becomes DEF Does, PostsAgain
<1> QED  BY <1>3, <1>4 DEF SubmitBreaks

LEMMA FindsDoes == ASSUME TypeOK, NEW c \in Callers, PollFinds(c) PROVE Does(c)
<1>1. call[c].pc = "poll" /\ call[c].pc \notin Ended /\ Still /\ Entry(c).place = "history"
  BY DEF PollFinds, Ended, Still
<1>2. CASE Sleep(c)
  BY <1>1, <1>2, SleepDoes
<1>3. CASE Entry(c).outcome \in {"nothing", "error"} /\ Fails(c, "empty")
  BY <1>1, <1>3, FailsDoes DEF FailsFor, Does, Still
<1>4. CASE call' = [call EXCEPT ![c].pc = "download"]
  <2> DEFINE t == [call[c] EXCEPT !.pc = "download"]
  <2>1. /\ t \in Call /\ t.pc = "download" /\ t.prompt = call[c].prompt /\ t.why = call[c].why
        /\ t.token = call[c].token
    BY IdFacts DEF Call
  <2>2. call' = [call EXCEPT ![c] = t]
    BY <1>4
  <2> HIDE DEF t
  <2> QED  BY <1>1, <2>1, <2>2, Becomes DEF Does, Waits, Keeps
<1> QED  BY <1>2, <1>3, <1>4 DEF PollFinds

LEMMA MissesDoes == ASSUME TypeOK, NEW c \in Callers, PollMisses(c) PROVE Does(c)
<1>1. call[c].pc = "poll" /\ call[c].pc \notin Ended /\ Still
  BY DEF PollMisses, Ended, Still
<1>2. CASE Sleep(c)
  BY <1>1, <1>2, SleepDoes
<1>3. CASE call' = [call EXCEPT ![c].pc = "ask", ![c].nextCheck = @ + GraceEvery]
  <2> DEFINE k == call[c].nextCheck + GraceEvery
             t == [call[c] EXCEPT !.pc = "ask", !.nextCheck = k]
  <2>1. k \in Nat /\ call[c] \in Call
    BY CallFacts, CountFacts
  <2>2. call' = [call EXCEPT ![c] = t]
    BY <1>3, <2>1 DEF Call
  <2> HIDE DEF k
  <2>3. /\ t \in Call /\ t.pc = "ask" /\ t.prompt = call[c].prompt /\ t.why = call[c].why
        /\ t.token = call[c].token
    BY <2>1 DEF Call
  <2> HIDE DEF t
  <2> QED  BY <1>1, <2>2, <2>3, Becomes DEF Does, Waits, Keeps
<1> QED  BY <1>2, <1>3 DEF PollMisses

LEMMA AskDoes == ASSUME TypeOK, NEW c \in Callers, AskQueue(c) PROVE Does(c)
<1>1. call[c].pc = "ask" /\ call[c].pc \notin Ended /\ Still
  BY DEF AskQueue, Ended, Still
<1>2. CASE Fails(c, "budget") \/ Fails(c, "drops")
  BY <1>1, <1>2, FailsDoes DEF FailsFor, Does, Still
<1>3. CASE /\ call[c].polls + 1 # MaxPolls
           /\ call' = [call EXCEPT ![c].pc = "poll", ![c].polls = @ + 1]
  <2> DEFINE k == call[c].polls + 1
             t == [call[c] EXCEPT !.pc = "poll", !.polls = k]
  <2>1. k \in 0 .. MaxPolls - 1 /\ call[c] \in Call
    BY <1>3, CallFacts, CountFacts
  <2>2. call' = [call EXCEPT ![c] = t]
    BY <1>3, <2>1 DEF Call
  <2> HIDE DEF k
  <2>3. /\ t \in Call /\ t.pc = "poll" /\ t.prompt = call[c].prompt /\ t.why = call[c].why
        /\ t.token = call[c].token
    BY <2>1 DEF Call
  <2> HIDE DEF t
  <2> QED  BY <1>1, <2>2, <2>3, Becomes DEF Does, Waits, Keeps
<1>4. CASE /\ Entry(c).place \notin Waiting /\ call[c].dropped # DropResubmits
           /\ call' = [call EXCEPT ![c].pc = "submit", ![c].tries = 0, ![c].dropped = @ + 1]
  <2> DEFINE k == call[c].dropped + 1
             t == [call[c] EXCEPT !.pc = "submit", !.tries = 0, !.dropped = k]
  <2>1. k \in 0 .. DropResubmits /\ call[c] \in Call
    BY <1>4, CallFacts, CountFacts
  <2>2. call' = [call EXCEPT ![c] = t]
    BY <1>4, <2>1 DEF Call
  <2> HIDE DEF k
  <2>3. /\ t \in Call /\ t.pc = "submit" /\ t.prompt = call[c].prompt /\ t.why = call[c].why
        /\ t.token = call[c].token /\ t.tries = 0
    BY <2>1, CallFacts DEF Call
  <2> HIDE DEF t
  <2> QED  BY <1>1, <1>4, <2>2, <2>3, Becomes DEF Does, Resubmits, Keeps
<1> QED  BY <1>2, <1>3, <1>4 DEF AskQueue, Alive

LEMMA DownloadDoes == ASSUME TypeOK, NEW c \in Callers, Download(c) PROVE Does(c)
<1>1. call[c].pc = "download" /\ call[c].pc \notin Ended /\ Still
  BY DEF Download, Ended, Still
<1>2. CASE Fails(c, "view")
  BY <1>1, <1>2, FailsDoes DEF FailsFor, Does, Still
<1>3. CASE Returns(c)
  <2> DEFINE k == call[c].prompt
             d == Entry(c).drew
             t == [Fresh EXCEPT !.pc = "done", !.got = d, !.prompt = k]
  <2>1. k \in Nat /\ k # 0 /\ k \in Ids
    BY <1>1, IdFacts DEF TypeOK, Call
  <2>2. d \in Callers \cup {NoOne}
    <3>1. prompts[k] \in Prompt
      BY <2>1, IdFacts
    <3> QED  BY <3>1 DEF Entry, Prompt
  <2>3. call' = [call EXCEPT ![c] = t]
    BY <1>3 DEF Returns
  <2> HIDE DEF k, d
  <2>4. t \in Call /\ t.pc = "done" /\ t.got = d /\ t.prompt = k /\ t.why = ""
    BY <2>1, <2>2, CountFacts DEF Call, Fresh
  <2> HIDE DEF t
  <2> QED  BY <1>1, <2>3, <2>4, Becomes DEF Does, GetsIt, k, d
<1> QED  BY <1>2, <1>3 DEF Download

LEMMA StepDoes == ASSUME TypeOK, NEW c \in Callers, Step(c) PROVE Does(c)
<1>1. CASE SubmitInvalid(c)
  BY <1>1, FailsDoes DEF SubmitInvalid, FailsFor, Does, Ended
<1>2. CASE PollFails(c)
  BY <1>2, SleepDoes DEF PollFails, Still
<1> QED
  BY <1>1, <1>2, UploadDoes, SubmitDoes, SubmitBreaksDoes, FindsDoes, MissesDoes, AskDoes,
     DownloadDoes DEF Step

\* What never changes of a prompt.
Past ==
  /\ prompts' \in Seq(Prompt) /\ Len(prompts) <= Len(prompts') /\ Ids \subseteq Ids'
  /\ \A i \in Ids :
       /\ prompts'[i].of = prompts[i].of /\ prompts'[i].token = prompts[i].token
       /\ prompts'[i].told = prompts[i].told

LEMMA MovesArePast == TypeOK /\ (Moves \/ UNCHANGED prompts) => Past
<1> SUFFICES ASSUME TypeOK, Moves \/ UNCHANGED prompts PROVE Past
  OBVIOUS
<1>1. Len(prompts) \in Nat /\ prompts \in Seq(Prompt)
  BY IdFacts DEF TypeOK
<1> QED  BY <1>1 DEF Moves, Past, Ids

LEMMA GrowthIsPast == ASSUME TypeOK, NEW c, NEW b, NEW p, Grows(c, b, p) PROVE Past
<1>1. Len(prompts) \in Nat
  BY IdFacts
<1> QED  BY <1>1 DEF Grows, Past

LEMMA CallsArePast == ASSUME TypeOK, NEW c \in Callers, Does(c) PROVE Past
<1>1. UNCHANGED prompts \/ \E b \in BOOLEAN, p \in {"pending", "lost"} : Grows(c, b, p)
  BY DEF Does, Uploads, PostsAgain, IsAccepted, Waits, Resubmits, GetsIt, FailsFor, Still
<1> QED  BY <1>1, MovesArePast, GrowthIsPast

\* The step of one of the two processes.
LEMMA TwoProcesses ==
  ASSUME TypeOK, [Next]_vars
  PROVE  \/ \E c \in Callers : Does(c)
         \/ UNCHANGED <<call, input>> /\ (Moves \/ UNCHANGED prompts)
<1>1. ASSUME NEW i \in Ids, Begin(i) \/ Finish(i) \/ Complete(i)
      PROVE  UNCHANGED <<call, input>> /\ Moves
  <2>1. Moves
    BY <1>1, BeginMoves, FinishMoves, CompleteMoves
  <2> QED  BY <1>1, <2>1 DEF Begin, Finish, Complete
<1>2. CASE Restart
  BY <1>2, RestartMoves DEF Restart
<1>3. CASE UNCHANGED vars
  BY <1>3 DEF vars
<1>4. CASE \E c \in Callers : Step(c)
  BY <1>4, StepDoes
<1> QED  BY <1>1, <1>2, <1>3, <1>4 DEF Next

LEMMA MishapsType == TypeOK /\ [Next]_vars => mishaps' \in 0 .. MaxMishaps
<1> SUFFICES ASSUME TypeOK, [Next]_vars PROVE mishaps' \in 0 .. MaxMishaps
  OBVIOUS
<1> DEFINE Fine == GoesWell \/ (\E fault \in Faults : GoesWrong(fault))
<1>1. Fine => mishaps' \in 0 .. MaxMishaps
  BY CountFacts DEF Fine, GoesWell, GoesWrong, TypeOK
<1>2. ASSUME NEW c \in Callers, Step(c) PROVE Fine
  BY <1>2 DEF Step, Upload, Submit, SubmitBreaks, SubmitInvalid, PollFails, PollFinds, PollMisses,
              AskQueue, Download, GoesWell, GoesWrong
<1>3. ASSUME NEW i \in Ids, Begin(i) \/ Finish(i) \/ Complete(i) PROVE Fine
  BY <1>3 DEF Begin, Finish, Complete, GoesWell, GoesWrong
<1>4. Restart \/ UNCHANGED vars => Fine
  BY DEF Restart, vars, GoesWell, GoesWrong
<1> QED  BY <1>1, <1>2, <1>3, <1>4 DEF Next

LEMMA TypeBegin == Init => TypeOK
<1> SUFFICES ASSUME Init PROVE TypeOK
  OBVIOUS
<1>1. prompts \in Seq(Prompt) /\ Len(prompts) = 0
  BY EmptySeq DEF Init
<1>2. \A c \in Callers : call[c] = Fresh
  BY DEF Init
<1>3. Fresh.pc = "upload" /\ Fresh.prompt = 0
  BY DEF Fresh
<1>4. call \in [Callers -> Call]
  BY CountFacts DEF Init
<1>5. \A c \in Callers : call[c].pc = "upload" /\ call[c].prompt = 0
  BY <1>2, <1>3
<1> QED  BY <1>1, <1>4, <1>5, CountFacts DEF Init, TypeOK

LEMMA TypeStep == TypeOK /\ [Next]_vars => TypeOK'
<1> SUFFICES ASSUME TypeOK, [Next]_vars PROVE TypeOK'
  OBVIOUS
<1>1. mishaps' \in 0 .. MaxMishaps
  BY MishapsType
<1> DEFINE At(d) == /\ call[d].prompt \in 0 .. Len(prompts)
                    /\ call[d].pc \in {"poll", "ask", "download"} =>
                         call[d].prompt # 0 /\ Entry(d).of = d /\ Entry(d).told
<1>2. /\ \A d \in Callers : At(d)
      /\ \A d \in Callers : call[d].prompt # 0 => call[d].prompt \in Ids
      /\ Len(prompts) \in Nat
  BY IdFacts DEF TypeOK
<1>3. CASE UNCHANGED <<call, input>> /\ (Moves \/ UNCHANGED prompts)
  <2>1. Past
    BY <1>3, MovesArePast
  <2>2. \A d \in Callers : At(d)'
    BY <1>2, <1>3, <2>1 DEF Past, Entry
  <2> QED  BY <1>1, <1>3, <2>1, <2>2 DEF TypeOK, Past
<1>4. ASSUME NEW c \in Callers, Does(c) PROVE TypeOK'
  <2>1. Past
    BY <1>4, CallsArePast
  <2>2. Goes(c)
    BY <1>4 DEF Does
  <2>3. ASSUME NEW d \in Callers, d # c PROVE At(d)'
    BY <1>2, <2>1, <2>2, <2>3 DEF Goes, Past, Entry
  <2>4. At(c)'
    <3>1. CASE Uploads(c) \/ PostsAgain(c) \/ Resubmits(c) \/ GetsIt(c)
      <4>1. call'[c].prompt = call[c].prompt /\ call'[c].pc \in {"submit", "done"}
        BY <3>1 DEF Uploads, PostsAgain, Resubmits, GetsIt, Keeps
      <4> QED  BY <1>2, <2>1, <4>1 DEF Past
    <3>4. CASE Waits(c)
      <4>1. call'[c].prompt = call[c].prompt /\ call[c].pc \in {"poll", "ask"}
        BY <3>4 DEF Waits, Keeps
      <4> QED  BY <1>2, <2>1, <4>1 DEF Past, Entry
    <3>2. CASE \E reason \in {"upload", "submit", "empty", "budget", "drops", "view"} : FailsFor(c, reason)
      BY <1>2, <2>1, <3>2 DEF FailsFor, Past
    <3>3. CASE IsAccepted(c)
      BY <1>2, <3>3 DEF IsAccepted, Grows, Entry
    <3> QED  BY <1>4, <3>1, <3>2, <3>3, <3>4 DEF Does
  <2>5. input' \in [Names -> Callers \cup {NoOne}]
    <3>1. input \in [Names -> Callers \cup {NoOne}]
      BY DEF TypeOK
    <3>2. UNCHANGED input \/ input' = [input EXCEPT ![Name(c)] = c]
      BY <1>4 DEF Does, Uploads, PostsAgain, IsAccepted, Waits, Resubmits, GetsIt, FailsFor, Still
    <3> QED  BY <3>1, <3>2
  <2>6. \A d \in Callers : At(d)'
    BY <2>3, <2>4
  <2> QED  BY <1>1, <2>1, <2>2, <2>5, <2>6 DEF TypeOK, Goes, Past
<1> QED  BY <1>3, <1>4, TwoProcesses

-----------------------------------------------------------------------------
(* No work in progress is repeated. *)

LEMMA AwaitedBegin == Init => FreshInv
<1> SUFFICES ASSUME Init PROVE FreshInv
  OBVIOUS
<1>1. TypeOK
  BY TypeBegin
<1>2. Ids = {}
  <2>1. Len(prompts) = 0
    BY DEF Init
  <2> QED  BY <1>1, <2>1, IdFacts
<1>3. \A c \in Callers : call[c].why = "" /\ call[c].tries = 0
  BY DEF Init, Fresh
<1> QED
  BY <1>1, <1>2, <1>3
  DEF FreshInv, NoPromptYet, WorkIsAwaited, TokensAreSpent, TokensDiffer, NothingWasCached, EmptyIsSeen

LEMMA WorkStep == FreshInv /\ [Next]_vars => WorkIsAwaited'
<1> SUFFICES ASSUME FreshInv, [Next]_vars PROVE WorkIsAwaited'
  OBVIOUS
<1>0. TypeOK /\ WorkIsAwaited
  BY DEF FreshInv
<1>1. CASE UNCHANGED <<call, input>> /\ (Moves \/ UNCHANGED prompts)
  BY <1>0, <1>1 DEF Moves, WorkIsAwaited, Ids
<1>2. ASSUME NEW c \in Callers, Does(c) PROVE WorkIsAwaited'
  <2> DEFINE Awaited(i) == prompts[i].told /\ prompts[i].place \in Waiting =>
                LET k == prompts[i].of IN call[k].prompt = i /\ call[k].pc \notin {"upload", "submit"}
  <2>1. \A i \in Ids : Awaited(i) /\ prompts[i].of \in Callers /\ prompts[i].told \in BOOLEAN
    BY <1>0, IdFacts DEF WorkIsAwaited, Prompt
  <2>2. Goes(c) /\ Past
    BY <1>0, <1>2, CallsArePast DEF Does
  <2>3. ASSUME NEW i \in Ids, prompts'[i] = prompts[i], Awaited(i)
        PROVE  prompts[i].of # c => Awaited(i)'
    BY <2>1, <2>2, <2>3 DEF Goes
  <2>4. CASE UNCHANGED prompts /\ (Uploads(c) \/ PostsAgain(c) \/ GetsIt(c)
          \/ \E reason \in {"upload", "submit", "empty", "budget", "drops", "view"} : FailsFor(c, reason))
    <3>0. /\ UNCHANGED prompts /\ call'[c].prompt = call[c].prompt
          /\ call'[c].pc \in Ended \/ call[c].pc \in {"upload", "submit"}
      BY <2>4 DEF Uploads, PostsAgain, GetsIt, FailsFor, Keeps, Ended
    <3>1. \A i \in Ids : Awaited(i)'
      BY <2>1, <2>3, <3>0 DEF Ended
    <3> QED  BY <2>4, <3>1 DEF WorkIsAwaited, Ids
  <2>5. CASE Waits(c)
    <3>1. \A i \in Ids : Awaited(i)'
      BY <2>1, <2>3, <2>5 DEF Waits, Keeps, Still
    <3> QED  BY <2>5, <3>1 DEF WorkIsAwaited, Ids, Waits, Still
  <2>6. CASE Resubmits(c)
    <3>1. \A i \in Ids : Awaited(i)'
      BY <2>1, <2>3, <2>6 DEF Resubmits, Keeps, Still, Entry
    <3> QED  BY <2>6, <3>1 DEF WorkIsAwaited, Ids, Resubmits, Still
  <2>7. CASE call[c].pc = "submit" /\ Grows(c, FALSE, "pending")
    <3>1. \A i \in Ids : prompts[i].of = c => ~(prompts[i].told /\ prompts[i].place \in Waiting)
      BY <2>1, <2>7
    <3>2. \A i \in Ids : Awaited(i)'
      BY <2>1, <2>3, <2>7, <3>1 DEF Grows
    <3> QED  BY <2>7, <3>2 DEF WorkIsAwaited, Grows
  <2>8. CASE IsAccepted(c)
    <3>1. \A i \in Ids : prompts[i].of = c => ~(prompts[i].told /\ prompts[i].place \in Waiting)
      BY <2>1, <2>8 DEF IsAccepted
    <3>2. \A i \in Ids : Awaited(i)'
      BY <2>1, <2>3, <2>8, <3>1 DEF IsAccepted, Grows
    <3>3. \A i \in Ids' : i \in Ids \/ Awaited(i)'
      BY <2>8 DEF IsAccepted, Grows
    <3> QED  BY <3>2, <3>3 DEF WorkIsAwaited
  <2> QED  BY <1>2, <2>4, <2>5, <2>6, <2>7, <2>8 DEF Does, Uploads, PostsAgain, GetsIt, FailsFor, Still
<1> QED  BY <1>0, <1>1, <1>2, TwoProcesses

\* Tokens: what TokensAreSpent says of one prompt.
Spent(i) ==
  LET p == prompts[i]
      k == call[p.of]
  IN k.pc \notin Ended =>
       p.token <= k.token /\ (p.told /\ k.pc = "submit" /\ k.tries > 0 => p.token < k.token)

LEMMA TokenFacts ==
  ASSUME FreshInv, NEW i \in Ids
  PROVE  /\ Spent(i) /\ prompts[i].of \in Callers /\ prompts[i].token \in Nat
         /\ prompts[i].told \in BOOLEAN
<1>1. prompts[i] \in Prompt
  BY IdFacts DEF FreshInv
<1> QED  BY <1>1 DEF FreshInv, TokensAreSpent, Spent, Prompt

\* The token of the next POST is newer than all that were told.
LEMMA NextToken ==
  ASSUME FreshInv, NEW c \in Callers, call[c].pc = "submit", NEW i \in Ids, prompts[i].of = c
  PROVE  /\ prompts[i].token <= Token(c) /\ call[c].token <= Token(c)
         /\ prompts[i].told => prompts[i].token < Token(c)
<1>1. /\ call[c].token \in Nat /\ call[c].tries \in Nat
      /\ call[c].tries \in 0 .. ConnectAttempts - 1
  BY CallFacts, CountFacts DEF FreshInv
<1>2. /\ prompts[i].token \in Nat /\ prompts[i].token <= call[c].token
      /\ prompts[i].told /\ call[c].tries > 0 => prompts[i].token < call[c].token
  BY TokenFacts DEF Spent, Ended
<1> QED  BY <1>1, <1>2 DEF Token

LEMMA SpentStep == FreshInv /\ [Next]_vars => TokensAreSpent'
<1> SUFFICES ASSUME FreshInv, [Next]_vars PROVE \A i \in Ids' : Spent(i)'
  BY DEF TokensAreSpent, Spent
<1>0. TypeOK
  BY DEF FreshInv
<1>1. CASE UNCHANGED <<call, input>> /\ (Moves \/ UNCHANGED prompts)
  BY <1>0, <1>1, TokenFacts DEF Moves, Spent, Ids
<1>2. ASSUME NEW c \in Callers, Does(c), NEW i \in Ids' PROVE Spent(i)'
  <2>1. Goes(c) /\ Past
    BY <1>0, <1>2, CallsArePast DEF Does
  <2>2. CASE i \in Ids /\ prompts[i].of # c
    BY <2>1, <2>2, TokenFacts DEF Spent, Goes, Past
  <2>3. CASE i \in Ids /\ prompts[i].of = c
    <3>1. /\ Spent(i) /\ prompts[i].token \in Nat /\ call[c].token \in Nat
          /\ prompts'[i].of = c /\ prompts'[i].token = prompts[i].token
          /\ prompts'[i].told = prompts[i].told /\ call[c].pc \notin Ended
      BY <1>0, <2>1, <2>3, TokenFacts, CallFacts DEF Past, Goes
    <3>2. CASE Uploads(c)
      <4>1. /\ call'[c].token = call[c].token /\ call'[c].pc = "submit"
            /\ call'[c].tries = call[c].tries /\ call[c].pc = "upload"
        BY <3>2 DEF Uploads, Keeps
      <4>2. call[c].tries = 0
        BY <1>2, <2>3, <4>1 DEF FreshInv, NoPromptYet
      <4> QED  BY <2>3, <3>1, <4>1, <4>2 DEF Spent, Ended
    <3>3. CASE PostsAgain(c)
      BY <2>3, <3>1, <3>3, NextToken DEF PostsAgain, Spent
    <3>4. CASE IsAccepted(c)
      BY <2>3, <3>1, <3>4, NextToken DEF IsAccepted, Spent
    <3>5. CASE Waits(c) \/ Resubmits(c)
      <4>1. call'[c].token = call[c].token /\ (call'[c].pc = "submit" => call'[c].tries = 0)
        BY <3>5 DEF Waits, Resubmits, Keeps
      <4> QED  BY <2>3, <3>1, <4>1 DEF Spent
    <3>6. CASE call'[c].pc \in Ended
      BY <3>1, <3>6 DEF Spent
    <3> QED  BY <1>2, <3>2, <3>3, <3>4, <3>5, <3>6 DEF Does, GetsIt, FailsFor, Ended
  <2>4. CASE i \notin Ids
    <3>1. (\E b \in BOOLEAN, p \in {"pending", "lost"} : Grows(c, b, p)) /\ call[c].pc = "submit"
      BY <1>2, <2>4 DEF Does, Uploads, PostsAgain, IsAccepted, Waits, Resubmits, GetsIt, FailsFor,
                        Still, Ids
    <3>2. prompts'[i].of = c /\ prompts'[i].token = Token(c) /\ Token(c) \in Nat
      BY <1>0, <2>4, <3>1, CallFacts DEF Grows
    <3>3. CASE PostsAgain(c)
      <4>1. prompts'[i].told = FALSE
        BY <2>4, <3>3 DEF PostsAgain, Grows, Ids
      <4> QED  BY <3>2, <3>3, <4>1 DEF PostsAgain, Spent
    <3>4. CASE IsAccepted(c)
      BY <3>2, <3>4 DEF IsAccepted, Spent
    <3>5. CASE call'[c].pc \in Ended
      BY <3>2, <3>5 DEF Spent
    <3> QED  BY <1>2, <3>1, <3>3, <3>4, <3>5
             DEF Does, Uploads, Waits, Resubmits, GetsIt, FailsFor, Ended
  <2> QED  BY <2>2, <2>3, <2>4
<1> QED  BY <1>0, <1>1, <1>2, TwoProcesses

LEMMA DifferStep == FreshInv /\ [Next]_vars => TokensDiffer'
<1> SUFFICES ASSUME FreshInv, [Next]_vars, NEW i \in Ids', NEW j \in Ids',
                    prompts'[i].of = prompts'[j].of, prompts'[i].token = prompts'[j].token,
                    prompts'[i].told, prompts'[j].told
             PROVE  i = j
  BY DEF TokensDiffer
<1>0. TypeOK
  BY DEF FreshInv
<1>1. CASE i \in Ids /\ j \in Ids
  <2>1. Past
    BY <1>0, TwoProcesses, CallsArePast, MovesArePast
  <2> QED  BY <1>1, <2>1 DEF Past, FreshInv, TokensDiffer
<1>2. CASE i \notin Ids \/ j \notin Ids
  <2>1. PICK c \in Callers : IsAccepted(c) \/ (\E p \in {"pending", "lost"} : Grows(c, FALSE, p))
    <3>1. ~(UNCHANGED <<call, input>> /\ (Moves \/ UNCHANGED prompts))
      BY <1>2 DEF Moves, Ids
    <3>2. PICK c \in Callers : Does(c)
      BY <1>0, <3>1, TwoProcesses
    <3> QED
      BY <1>2, <3>2 DEF Does, Uploads, PostsAgain, Waits, Resubmits, GetsIt, FailsFor, Still, Ids
  <2>2. CASE IsAccepted(c)
    <3>1. call[c].pc = "submit" /\ \E p \in {"pending", "lost"} : Grows(c, TRUE, p)
      BY <2>2 DEF IsAccepted
    <3>2. Token(c) \in Nat /\ \A k \in Ids : prompts'[k] = prompts[k]
      BY <1>0, <3>1, CallFacts DEF Grows
    <3>3. \A k \in Ids' : k \notin Ids => /\ k = Len(prompts) + 1 /\ prompts'[k].of = c
                                          /\ prompts'[k].token = Token(c)
      BY <3>1 DEF Grows
    <3>4. \A k \in Ids : prompts[k].of = c /\ prompts[k].told => prompts[k].token # Token(c)
      BY <3>1, <3>2, NextToken, TokenFacts
    <3> QED  BY <1>2, <3>2, <3>3, <3>4
  <2>3. CASE \E p \in {"pending", "lost"} : Grows(c, FALSE, p)
    BY <1>2, <2>3 DEF Grows
  <2> QED  BY <2>1, <2>2, <2>3
<1> QED  BY <1>1, <1>2

-----------------------------------------------------------------------------
(* A workflow without an image. *)

\* What a step does to what is known of a prompt that exists.
RowMoves(i) ==
  \/ prompts'[i] = prompts[i]
  \/ prompts[i].place = "pending" /\ prompts'[i].place = "running"
       /\ prompts'[i].outcome = prompts[i].outcome
  \/ prompts[i].place = "running" /\ prompts'[i].place = "history"
       /\ (prompts'[i].outcome = "nothing" => Cached(i))
  \/ prompts[i].place = "history" /\ prompts'[i].place = "history"
       /\ prompts[i].outcome = "unsaid" /\ prompts'[i].outcome = "image"
  \/ prompts'[i].place = "lost" /\ prompts'[i].outcome = prompts[i].outcome

LEMMA RowsMove ==
  ASSUME TypeOK, [Next]_vars
  PROVE  /\ Past /\ \A i \in Ids : RowMoves(i)
         /\ \A i \in Ids' \ Ids : prompts'[i].outcome = "none"
<1>1. Past
  BY TwoProcesses, CallsArePast, MovesArePast
<1>2. CASE \E c \in Callers : Does(c)
  <2>1. UNCHANGED prompts \/ \E c \in Callers, b \in BOOLEAN, p \in {"pending", "lost"} : Grows(c, b, p)
    BY <1>2 DEF Does, Uploads, PostsAgain, IsAccepted, Waits, Resubmits, GetsIt, FailsFor, Still
  <2> QED  BY <1>1, <2>1 DEF Grows, RowMoves, Ids
<1>3. ASSUME NEW i \in Ids, Begin(i) \/ Finish(i) \/ Complete(i)
      PROVE  Ids' = Ids /\ \A j \in Ids : RowMoves(j)
  <2>1. Moves /\ \A j \in Ids : j # i => prompts'[j] = prompts[j]
    BY <1>3, BeginMoves, FinishMoves, CompleteMoves
  <2>2. RowMoves(i)
    BY <1>3, BeginMoves, FinishMoves, CompleteMoves DEF RowMoves
  <2> QED  BY <2>1, <2>2 DEF Moves, RowMoves
<1>4. CASE Restart
  <2>1. \A i \in Ids : prompts[i] \in Prompt
    BY IdFacts
  <2>2. \A i \in Ids : RowMoves(i)
    BY <1>4, <2>1, RestartMoves DEF RowMoves, Prompt
  <2> QED  BY <1>1, <1>4, <2>2, RestartMoves DEF Moves
<1>5. CASE UNCHANGED vars
  BY <1>1, <1>5 DEF vars, RowMoves, Ids
<1> QED  BY <1>1, <1>2, <1>3, <1>4, <1>5, StepDoes DEF Next

LEMMA NothingStep == FreshInv /\ [Next]_vars => NothingWasCached'
<1> SUFFICES ASSUME FreshInv, [Next]_vars, NEW i \in Ids', prompts'[i].outcome # "none"
             PROVE  /\ prompts'[i].place \notin Waiting
                    /\ prompts'[i].outcome = "nothing" =>
                         \E j \in Ids' : j # i /\ prompts'[j].of = prompts'[i].of
                                              /\ prompts'[j].token = prompts'[i].token
  BY DEF NothingWasCached
<1>1. TypeOK
  BY DEF FreshInv
<1>2. i \in Ids /\ Past /\ RowMoves(i)
  BY <1>1, RowsMove
<1>3. /\ prompts[i].outcome # "none" => prompts[i].place \notin Waiting
      /\ prompts[i].outcome = "nothing" =>
           \E j \in Ids : j # i /\ prompts[j].of = prompts[i].of /\ prompts[j].token = prompts[i].token
  BY <1>2 DEF FreshInv, NothingWasCached
<1>4. Cached(i) /\ prompts[i].place = "running" =>
        \E j \in Ids : j # i /\ prompts[j].of = prompts[i].of /\ prompts[j].token = prompts[i].token
  BY DEF Cached
<1>5. prompts'[i].place \notin Waiting
  BY <1>2, <1>3 DEF RowMoves, Waiting
<1>6. prompts'[i].outcome = "nothing" =>
        \E j \in Ids : j # i /\ prompts[j].of = prompts[i].of /\ prompts[j].token = prompts[i].token
  BY <1>2, <1>3, <1>4 DEF RowMoves
<1> QED  BY <1>2, <1>5, <1>6 DEF Past

LEMMA OutcomesStay ==
  ASSUME FreshInv, [Next]_vars, NEW i \in Ids, prompts[i].outcome \in {"nothing", "error"}
  PROVE  prompts'[i].outcome = prompts[i].outcome
<1>1. TypeOK /\ prompts[i].place \notin Waiting
  BY DEF FreshInv, NothingWasCached
<1>2. RowMoves(i)
  BY <1>1, RowsMove
<1> QED  BY <1>1, <1>2 DEF RowMoves, Waiting

LEMMA EmptyStep == FreshInv /\ [Next]_vars => EmptyIsSeen' /\ NoPromptYet'
<1> SUFFICES ASSUME FreshInv, [Next]_vars PROVE EmptyIsSeen' /\ NoPromptYet'
  OBVIOUS
<1>0. TypeOK
  BY DEF FreshInv
<1> DEFINE Seen(d) == call[d].why = "empty" =>
             call[d].pc = "failed" /\ call[d].prompt # 0 /\ Entry(d).of = d
               /\ Entry(d).outcome \in {"nothing", "error"}
           Not(d) == call[d].pc = "upload" => call[d].tries = 0
<1>1. ASSUME NEW d \in Callers, call'[d] = call[d] PROVE Seen(d)' /\ Not(d)'
  <2>1. Seen(d) /\ Not(d)
    BY DEF FreshInv, EmptyIsSeen, NoPromptYet
  <2>2. call[d].prompt # 0 => call[d].prompt \in Ids
    BY <1>0, IdFacts
  <2>3. Past
    BY <1>0, RowsMove
  <2> QED  BY <1>1, <2>1, <2>2, <2>3, OutcomesStay DEF Entry, Past
<1>2. ASSUME NEW c \in Callers, Does(c) PROVE Seen(c)' /\ Not(c)'
  <2>1. call[c].pc \notin Ended /\ call[c].why # "empty"
    BY <1>2 DEF Does, Goes, FreshInv, EmptyIsSeen, Ended
  <2>2. CASE \E reason \in {"upload", "submit", "empty", "budget", "drops", "view"} : FailsFor(c, reason)
    <3> PICK reason \in {"upload", "submit", "empty", "budget", "drops", "view"} : FailsFor(c, reason)
      BY <2>2
    <3>1. CASE reason = "empty"
      <4>1. /\ call[c].prompt # 0 /\ Entry(c).of = c /\ call[c].prompt \in Ids
            /\ call[c].pc = "poll" /\ Entry(c).outcome \in {"nothing", "error"}
        BY <1>0, <3>1, IdFacts DEF FailsFor, TypeOK
      <4>2. Past
        BY <1>0, RowsMove
      <4>3. call'[c].prompt = call[c].prompt /\ call'[c].pc = "failed"
        BY DEF FailsFor
      <4> QED  BY <4>1, <4>2, <4>3, OutcomesStay DEF Entry, Past
    <3>2. CASE reason # "empty"
      BY <3>2 DEF FailsFor
    <3> QED  BY <3>1, <3>2
  <2>3. CASE Uploads(c) \/ PostsAgain(c) \/ IsAccepted(c) \/ Waits(c) \/ Resubmits(c) \/ GetsIt(c)
    <3>1. call'[c].why # "empty" /\ call'[c].pc # "upload"
      BY <2>1, <2>3 DEF Uploads, PostsAgain, IsAccepted, Waits, Resubmits, GetsIt, Keeps
    <3> QED  BY <3>1
  <2> QED  BY <1>2, <2>2, <2>3 DEF Does
<1>3. \A d \in Callers : Seen(d)' /\ Not(d)'
  BY <1>0, <1>1, <1>2, TwoProcesses DEF Does, Goes
<1> QED  BY <1>3 DEF EmptyIsSeen, NoPromptYet

LEMMA FreshStep == FreshInv /\ [Next]_vars => FreshInv'
<1> SUFFICES ASSUME FreshInv, [Next]_vars PROVE FreshInv'
  OBVIOUS
<1>1. TypeOK'
  BY TypeStep DEF FreshInv
<1> QED  BY <1>1, WorkStep, SpentStep, DifferStep, NothingStep, EmptyStep DEF FreshInv

LEMMA FreshEnough == FreshInv => ResubmitsAreFresh
<1> SUFFICES ASSUME FreshInv PROVE ResubmitsAreFresh
  OBVIOUS
<1>0. TypeOK
  BY DEF FreshInv
<1>1. NoWorkInProgressIsRepeated
  BY DEF FreshInv, WorkIsAwaited, NoWorkInProgressIsRepeated, Waiting
<1>2. ASSUME NEW c \in Callers, call[c].why = "empty", Entry(c).outcome # "error"
      PROVE  \E i \in Ids : prompts[i].of = c /\ ~prompts[i].told
  <2> DEFINE k == call[c].prompt
  <2>1. k \in Ids /\ prompts[k].of = c /\ prompts[k].outcome = "nothing"
    BY <1>0, <1>2, IdFacts DEF FreshInv, EmptyIsSeen, Entry
  <2>2. PICK j \in Ids : j # k /\ prompts[j].of = c /\ prompts[j].token = prompts[k].token
    BY <2>1 DEF FreshInv, NothingWasCached
  <2>3. ~prompts[j].told \/ ~prompts[k].told
    BY <2>1, <2>2 DEF FreshInv, TokensDiffer
  <2> QED  BY <2>1, <2>2, <2>3
<1> QED  BY <1>1, <1>2 DEF ResubmitsAreFresh, EmptyOnlyAfterALostReply

\* No call has two prompts of its own at work whose ids reached it, and one that
\* ends without an image is the workflow's own failure or a lost answer's.
THEOREM NothingIsSubmittedTwice == Spec => []ResubmitsAreFresh
  BY AwaitedBegin, FreshStep, FreshEnough, PTL DEF Spec

-----------------------------------------------------------------------------
(* A call's picture is drawn from its own image. *)

LEMMA NamesDiffer ==
  ASSUME OneBareCall, NEW c \in Callers, NEW d \in Callers, c # d
  PROVE  Name(c) # Name(d) /\ Name(c) \in Names /\ Name(d) \in Names
  BY CallersFinite DEF OneBareCall, Name, Names

Drawn == {"running", "history"}

\* What a step does to what a prompt is drawn from.
Draws(i) ==
  \/ prompts'[i].drew = prompts[i].drew /\ (prompts'[i].place \in Drawn => prompts[i].place \in Drawn)
  \/ prompts'[i].drew = input[Name(prompts[i].of)]

LEMMA AllDraw ==
  ASSUME TypeOK, [Next]_vars
  PROVE  /\ \A i \in Ids : Draws(i)
         /\ \A i \in Ids' \ Ids : prompts'[i].drew = NoOne /\ prompts'[i].place \notin Drawn
<1>1. CASE \E c \in Callers : Does(c)
  <2>1. UNCHANGED prompts \/ \E c \in Callers, b \in BOOLEAN, p \in {"pending", "lost"} : Grows(c, b, p)
    BY <1>1 DEF Does, Uploads, PostsAgain, IsAccepted, Waits, Resubmits, GetsIt, FailsFor, Still
  <2> QED  BY <2>1 DEF Grows, Draws, Ids, Drawn
<1>2. ASSUME NEW i \in Ids, Begin(i) \/ Finish(i) \/ Complete(i)
      PROVE  Ids' = Ids /\ \A j \in Ids : Draws(j)
  <2>1. Moves /\ \A j \in Ids : j # i => prompts'[j] = prompts[j]
    BY <1>2, BeginMoves, FinishMoves, CompleteMoves
  <2>2. Draws(i)
    BY <1>2, BeginMoves, FinishMoves, CompleteMoves DEF Draws, Drawn
  <2> QED  BY <2>1, <2>2 DEF Moves, Draws
<1>3. CASE Restart
  <2>1. \A i \in Ids : prompts[i] \in Prompt
    BY IdFacts
  <2>2. \A i \in Ids : Draws(i)
    BY <1>3, <2>1, RestartMoves DEF Draws, Drawn, Prompt
  <2> QED  BY <1>3, <2>2, RestartMoves DEF Moves
<1>4. CASE UNCHANGED vars
  BY <1>4 DEF vars, Draws, Ids
<1> QED  BY <1>1, <1>2, <1>3, <1>4, StepDoes DEF Next

\* What UploadsHold says of a call and of a prompt.
CallHolds(d) ==
  /\ input[Name(d)] \in {d, NoOne}
  /\ call[d].pc \notin Ended \cup {"upload"} => input[Name(d)] = d
  /\ call[d].pc = "download" => Entry(d).drew = d
  /\ call[d].pc = "done" => call[d].got = d
PromptHolds(i) ==
  /\ input[Name(prompts[i].of)] = prompts[i].of
  /\ prompts[i].drew \in {prompts[i].of, NoOne}
  /\ prompts[i].place \in Drawn => prompts[i].drew = prompts[i].of

LEMMA DrawnBegin == Init => DrawnInv
<1> SUFFICES ASSUME Init PROVE DrawnInv
  OBVIOUS
<1>1. TypeOK
  BY TypeBegin
<1>2. Ids = {}
  <2>1. Len(prompts) = 0
    BY DEF Init
  <2> QED  BY <1>1, <2>1, IdFacts
<1>3. \A d \in Callers : call[d].pc = "upload" /\ Name(d) \in Names
  BY DEF Init, Fresh, Name, Names
<1> QED  BY <1>1, <1>2, <1>3 DEF DrawnInv, UploadsHold, Init, Ended

\* The names that calls and prompts hold go on holding.
LEMMA InputsHold ==
  ASSUME DrawnInv, OneBareCall, NEW c \in Callers, Does(c), NEW d \in Callers
  PROVE  /\ input'[Name(d)] \in {d, NoOne} /\ (input[Name(d)] = d => input'[Name(d)] = d)
         /\ call[c].pc = "upload" => call'[c].pc \in Ended \/ input'[Name(c)] = c
<1>1. input \in [Names -> Callers \cup {NoOne}] /\ input[Name(d)] \in {d, NoOne} /\ Name(c) \in Names
  BY DEF DrawnInv, TypeOK, UploadsHold, Name, Names
<1>2. UNCHANGED input \/ input' = [input EXCEPT ![Name(c)] = c]
  BY DEF Does, Uploads, PostsAgain, IsAccepted, Waits, Resubmits, GetsIt, FailsFor, Still
<1>3. call[c].pc = "upload" => call'[c].pc \in Ended \/ input' = [input EXCEPT ![Name(c)] = c]
  BY DEF Does, Uploads, PostsAgain, IsAccepted, Waits, Resubmits, GetsIt, FailsFor, Still, Ended
<1> QED  BY <1>1, <1>2, <1>3, NamesDiffer

LEMMA DrawnStep == DrawnInv /\ OneBareCall /\ [Next]_vars => DrawnInv'
<1> SUFFICES ASSUME DrawnInv, OneBareCall, [Next]_vars PROVE DrawnInv'
  OBVIOUS
<1>0. TypeOK /\ TypeOK' /\ Past /\ (\A d \in Callers : CallHolds(d)) /\ (\A i \in Ids : PromptHolds(i))
  BY TypeStep, RowsMove DEF DrawnInv, UploadsHold, CallHolds, PromptHolds, Drawn
<1>1. \A i \in Ids : prompts[i].of \in Callers
  BY <1>0, IdFacts DEF Prompt
<1>2. ASSUME NEW d \in Callers, NEW k \in Ids, prompts[k].of = d, prompts[k].drew = d
      PROVE  prompts'[k].drew = d
  BY <1>0, <1>2, AllDraw DEF Draws, PromptHolds
<1>3. CASE UNCHANGED <<call, input>> /\ (Moves \/ UNCHANGED prompts)
  <2>1. ASSUME NEW d \in Callers PROVE CallHolds(d)'
    <3>1. call[d].pc = "download" => call[d].prompt \in Ids /\ prompts[call[d].prompt].of = d
      BY <1>0, IdFacts DEF TypeOK, Entry
    <3> QED  BY <1>0, <1>2, <1>3, <3>1 DEF CallHolds, Entry
  <2>2. Ids' = Ids
    BY <1>3 DEF Moves, Ids
  <2>3. ASSUME NEW i \in Ids PROVE PromptHolds(i)'
    BY <1>0, <1>1, <1>3, AllDraw DEF Draws, PromptHolds, Past
  <2> QED  BY <1>0, <2>1, <2>2, <2>3 DEF DrawnInv, UploadsHold, CallHolds, PromptHolds, Drawn
<1>4. ASSUME NEW c \in Callers, Does(c) PROVE DrawnInv'
  <2>1. ASSUME NEW d \in Callers, d # c PROVE CallHolds(d)'
    <3>1. call[d].pc = "download" => call[d].prompt \in Ids /\ prompts[call[d].prompt].of = d
      BY <1>0, IdFacts DEF TypeOK, Entry
    <3>2. call'[d] = call[d]
      BY <1>4, <2>1 DEF Does, Goes
    <3> QED  BY <1>0, <1>2, <1>4, <3>1, <3>2, InputsHold DEF CallHolds, Entry
  <2>2. CallHolds(c)'
    <3>1. input'[Name(c)] \in {c, NoOne}
      BY <1>4, InputsHold
    <3>2. call'[c].pc \notin Ended \cup {"upload"} => input'[Name(c)] = c
      BY <1>0, <1>4, InputsHold DEF CallHolds, Does, Goes, Ended
    <3>3. call'[c].pc = "download" => Entry(c)'.drew = c
      <4>1. SUFFICES ASSUME call'[c].pc = "download" PROVE Entry(c)'.drew = c
        OBVIOUS
      <4>2. Waits(c)
        BY <1>4, <4>1 DEF Does, Uploads, PostsAgain, IsAccepted, Resubmits, GetsIt, FailsFor
      <4>3. call[c].prompt \in Ids /\ prompts[call[c].prompt].of = c /\ Entry(c).place = "history"
        BY <1>0, <4>1, <4>2, IdFacts DEF TypeOK, Entry, Waits
      <4>4. call'[c].prompt = call[c].prompt /\ prompts' = prompts
        BY <4>2 DEF Waits, Keeps, Still
      <4> QED  BY <1>0, <4>3, <4>4 DEF PromptHolds, Entry, Drawn
    <3>4. call'[c].pc = "done" => call'[c].got = c
      BY <1>0, <1>4 DEF CallHolds, Does, Uploads, PostsAgain, IsAccepted, Waits, Resubmits, GetsIt, FailsFor
    <3> QED  BY <3>1, <3>2, <3>3, <3>4 DEF CallHolds
  <2>3. ASSUME NEW i \in Ids PROVE PromptHolds(i)'
    <3>1. input'[Name(prompts[i].of)] = prompts[i].of
      BY <1>0, <1>1, <1>4, InputsHold DEF PromptHolds
    <3> QED  BY <1>0, <3>1, AllDraw DEF Draws, PromptHolds, Past
  <2>4. ASSUME NEW i \in Ids' \ Ids PROVE PromptHolds(i)'
    <3>1. prompts'[i].of = c /\ call[c].pc = "submit" /\ UNCHANGED input
      BY <1>4, <2>4 DEF Does, Uploads, PostsAgain, IsAccepted, Waits, Resubmits, GetsIt, FailsFor,
                        Still, Ids, Grows
    <3>2. input'[Name(c)] = c
      BY <1>0, <3>1 DEF CallHolds, Ended
    <3> QED  BY <1>0, <3>1, <3>2, AllDraw DEF PromptHolds
  <2>5. \A i \in Ids' : PromptHolds(i)'
    BY <2>3, <2>4
  <2> QED  BY <1>0, <2>1, <2>2, <2>5 DEF DrawnInv, UploadsHold, CallHolds, PromptHolds, Drawn
<1> QED  BY <1>0, <1>3, <1>4, TwoProcesses

\* ImageCall's promise, but for its liveness.
KeepsTheCall == Promise!Init /\ [][Promise!Next]_(Promise!vars)

LEMMA AnswersBegin == Init => Promise!Init
<1> SUFFICES ASSUME Init PROVE Promise!Init
  OBVIOUS
<1>1. \A c \in Callers : call[c].pc = "upload"
  BY DEF Init, Fresh
<1>2. \A c \in Callers : Answer(c) = [kind |-> "pending"]
  BY <1>1 DEF Answer
<1> QED  BY <1>2 DEF Promise!Init, Promise!Pending

LEMMA AnswersStep == DrawnInv /\ DrawnInv' /\ [Next]_vars => [Promise!Next]_(Promise!vars)
<1> SUFFICES ASSUME DrawnInv, DrawnInv', [Next]_vars PROVE Promise!Next \/ UNCHANGED Promise!vars
  OBVIOUS
<1> DEFINE now == [c \in Callers |-> Answer(c)]
           next == [c \in Callers |-> Answer(c)']
<1>0. TypeOK
  BY DEF DrawnInv
<1>1. CASE UNCHANGED call
  <2>1. \A c \in Callers : Answer(c)' = Answer(c)
    BY <1>1 DEF Answer
  <2> QED  BY <2>1 DEF Promise!vars
<1>2. ASSUME NEW c \in Callers, Does(c) PROVE Promise!Next \/ UNCHANGED Promise!vars
  <2>1. \A d \in Callers : d # c => Answer(d)' = Answer(d)
    BY <1>2 DEF Does, Goes, Answer
  <2>2. Answer(c) = [kind |-> "pending"]
    BY <1>2 DEF Does, Goes, Answer, Ended
  <2>3. \/ Answer(c)' = [kind |-> "pending"]
        \/ Answer(c)' = [kind |-> "error"]
        \/ Answer(c)' = [kind |-> "picture", of |-> c]
    BY DEF Answer, DrawnInv, UploadsHold
  <2>4. next = [now EXCEPT ![c] = Answer(c)']
    BY <2>1
  <2>5. CASE Answer(c)' = [kind |-> "pending"]
    <3>1. next = now
      BY <2>2, <2>4, <2>5
    <3> QED  BY <3>1 DEF Promise!vars
  <2>6. CASE Answer(c)' = [kind |-> "error"]
    <3>1. Promise!Raise(c)
      BY <2>2, <2>4, <2>6 DEF Promise!Raise, Promise!Pending, Promise!Error
    <3> QED  BY <3>1 DEF Promise!Next
  <2>7. CASE Answer(c)' = [kind |-> "picture", of |-> c]
    <3>1. Promise!Return(c)
      BY <2>2, <2>4, <2>7 DEF Promise!Return, Promise!Pending, Promise!Picture
    <3> QED  BY <3>1 DEF Promise!Next
  <2> QED  BY <2>3, <2>5, <2>6, <2>7
<1> QED  BY <1>0, <1>1, <1>2, TwoProcesses

\* A call ends once, with an error or with a picture drawn from its own image,
\* while at most one call uploads under a bare name.
THEOREM CallsGetTheirOwn == OneBareCall => (Spec => KeepsTheCall)
<1> SUFFICES ASSUME OneBareCall PROVE Spec => KeepsTheCall
  OBVIOUS
<1>1. DrawnInv /\ [Next]_vars => DrawnInv'
  BY DrawnStep
<1> QED  BY <1>1, DrawnBegin, AnswersBegin, AnswersStep, PTL DEF Spec, KeepsTheCall
==============================================================================
