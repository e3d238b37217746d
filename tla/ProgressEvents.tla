---------------------------- MODULE ProgressEvents ----------------------------
(***************************************************************************)
(* How a page of the web UI learns what its run is doing.  The driver      *)
(* (run_service._consume) writes the run's row and publishes events; the   *)
(* registry (api/sse.py) keeps one queue per run, the newest subscriber's; *)
(* a page (RunDetail) reads the row once, opens an EventSource beside that *)
(* and from then on only applies events and the answers to its own         *)
(* requests.  Rows, queues and pages are three copies of one state, and    *)
(* nothing but this protocol keeps them together.                          *)
(*                                                                         *)
(* The driver is reduced to what it writes and publishes, in its order     *)
(* (RunService has the rest).  Stages are 1 .. N; a reject at stage 1 ends *)
(* the run.  Definitions marked "Mutant" are slips a change to the code    *)
(* could make; no action uses them.                                        *)
(***************************************************************************)
EXTENDS Naturals, Sequences

CONSTANTS
  N,         \* number of stages; the program has 5
  Pages,     \* open tabs on the run
  Streams,   \* the subscriptions that may exist at once
  NoStream,  \* nobody is subscribed
  Backlog,   \* bound: events a slow stream may be behind
  Requests,  \* what the operators ask for, of "approve", "reject", "retry"
  Faults     \* of "drop", "reload", "midrun", "race", "late", "raise"

ASSUME StagesAssumption == N \in Nat \ {0}
ASSUME StreamsAssumption == Streams \cap {NoStream, "closed", "opening"} = {}
ASSUME RequestsAssumption == Requests \subseteq {"approve", "reject", "retry"}
ASSUME BacklogAssumption == Backlog \in Nat

Stages == 1 .. N
Scenario == 1

GateState == {"n/a", "pending", "approved", "rejected", "failed"}
Retryable == {"approved", "rejected", "failed"}
RunStatus == {"unread", "running", "awaiting_approval", "failed", "complete"}

\* The row, and a page's copy of it (status "unread" before it has one).
Row ==
  [status: RunStatus, stage: 0 .. N, gates: [Stages -> GateState]]
Unread == [status |-> "unread", stage |-> 0, gates |-> [s \in Stages |-> "n/a"]]

EventKinds == {"stage_entry", "stage_exit", "gate_pending", "run_failed"}
Event == [kind: EventKinds \cup {"close"}, stage: 0 .. N]
Close == [kind |-> "close", stage |-> 0]
Ev(kind, s) == [kind |-> kind, stage |-> s]

VARIABLES
  row,         \* the runs table
  work,        \* what the driver still has to write, publish and answer, in order
  at,          \* the stage the graph executes after that, 0 when it stops
  registered,  \* SSEQueueRegistry._queues[run_id]
  stream,      \* the subscribe() generators: "free", "live", "lost" (client gone)
  queue,       \* their queues
  view,        \* each page's run
  get,         \* its request for the row
  conn,        \* its EventSource: "closed", "opening", or the stream it reads
  post         \* its gate or retry request

vars == <<row, work, at, registered, stream, queue, view, get, conn, post>>

Get == [is: {"none", "sent", "answered"}, row: Row]
NoGet == [is |-> "none", row |-> Unread]
Post == [is: {"none", "sent", "taken", "answered"}, kind: Requests \cup {"approve"}, stage: 0 .. N, ok: BOOLEAN]
NoPost == [is |-> "none", kind |-> "approve", stage |-> 0, ok |-> FALSE]

\* What the driver does next: a write of the row, of one gate, a publication,
\* a retry's write of both, or the answer to a page.
Op(op, to, s) == [op |-> op, to |-> to, stage |-> s, page |-> {}]
Write(status, s) == Op("row", status, s)
Mirror(s, value) == Op("gate", value, s)
Publish(kind, s) == Op("publish", kind, s)
Reset(s) == Op("reset", "running", s)
Answers(p) == [Op("answer", "ok", 0) EXCEPT !.page = {p}]

driver == <<row, work, at>>
registry == <<registered, stream, queue>>
pages == <<view, get, conn, post>>

-----------------------------------------------------------------------------
(* What the driver writes and publishes. *)

\* Mutants: the gate is announced before the row asks for it; or not at all.
PausedEarly(s) ==
  <<Write("running", s), Publish("stage_exit", s), Publish("gate_pending", s),
    Write("awaiting_approval", s), Mirror(s, "pending")>>
PausedQuietly(s) ==
  <<Write("running", s), Publish("stage_exit", s), Write("awaiting_approval", s),
    Mirror(s, "pending")>>

\* A stage that succeeded, up to its gate.
Paused(s) ==
  <<Write("running", s), Publish("stage_exit", s),
    Write("awaiting_approval", s), Mirror(s, "pending"), Publish("gate_pending", s)>>

\* Mutant: the failure is written and not published.
FailedQuietly(s) == <<Write("failed", s), Mirror(s, "failed")>>

\* A stage that returned an error; an exception out of the graph.
FailedAt(s) == <<Write("failed", s), Mirror(s, "failed"), Publish("run_failed", s)>>
RaisedAt(s) == <<Write("failed", s), Publish("run_failed", s)>>

\* A decision at the gate of s.
Approved(s) ==
  <<Write("running", 0), Mirror(s, "approved")>>
    \o IF s = N THEN <<Write("complete", 0)>> ELSE <<>>
Rejected(s) ==
  <<Write("running", 0), Mirror(s, "rejected")>>
    \o IF s = Scenario THEN <<Write("failed", 0), Publish("run_failed", s)>> ELSE <<>>

\* retry_stage answers after it has announced the stage.
Retried(s, p) == <<Reset(s), Publish("stage_entry", s), Answers(p)>>

\* The events of one publication: entry and exit follow one another with no
\* await that suspends between them.
Events(o) ==
  IF o.to = "stage_exit" THEN <<Ev("stage_entry", o.stage), Ev("stage_exit", o.stage)>>
  ELSE <<Ev(o.to, o.stage)>>

Written(o) ==
  CASE o.op = "row" -> [row EXCEPT !.status = o.to, !.stage = IF o.stage = 0 THEN @ ELSE o.stage]
    [] o.op = "gate" -> [row EXCEPT !.gates[o.stage] = o.to]
    [] o.op = "reset" ->
         [status |-> o.to, stage |-> o.stage,
          gates |-> [s \in Stages |-> IF s >= o.stage THEN "pending" ELSE row.gates[s]]]
    [] OTHER -> row

\* Mutant: an old subscriber's end unregisters whoever came after it.
UnregisterAny(g) == NoStream

\* subscribe's finally: only its own queue is taken out.
Unregister(g) == IF registered = g THEN NoStream ELSE registered

-----------------------------------------------------------------------------
(* What a page makes of it (RunDetail). *)

\* markStageRunning
MarkRunning(v, s) == [v EXCEPT !.status = "running", !.stage = s, !.gates[s] = "n/a"]

\* The handlers; a page that has no run yet drops the event.
Applied(v, e) ==
  IF v.status = "unread" THEN v
  ELSE CASE e.kind = "stage_entry" -> MarkRunning(v, e.stage)
         [] e.kind = "stage_exit" -> [v EXCEPT !.status = "running", !.stage = e.stage]
         [] e.kind = "gate_pending" ->
              [v EXCEPT !.status = "awaiting_approval", !.gates[e.stage] = "pending"]
         [] e.kind = "run_failed" ->
              [v EXCEPT !.status = "failed", !.stage = e.stage, !.gates[e.stage] = "failed"]

\* A request's answer: setStageGateState, or markStageRunning for a retry.
Answered(v, q) ==
  IF ~q.ok \/ v.status = "unread" THEN v
  ELSE CASE q.kind = "approve" -> [v EXCEPT !.gates[q.stage] = "approved"]
         [] q.kind = "reject" -> [v EXCEPT !.gates[q.stage] = "rejected"]
         [] q.kind = "retry" -> MarkRunning(v, q.stage)

\* The stages the sidebar lets the operator open.
Reached(v) == IF v.status = "complete" THEN Stages ELSE 1 .. v.stage
Decidable(v) == {s \in Reached(v) : v.gates[s] = "pending"}
CanRetry(v) == {s \in Reached(v) : v.gates[s] \in Retryable}

-----------------------------------------------------------------------------
TypeOK ==
  /\ row \in Row /\ at \in 0 .. N
  /\ \A i \in DOMAIN work :
       work[i] \in [op: {"row", "gate", "publish", "reset", "answer"},
                    to: RunStatus \cup GateState \cup EventKinds \cup {"ok"},
                    stage: 0 .. N, page: SUBSET Pages]
  /\ registered \in Streams \cup {NoStream}
  /\ stream \in [Streams -> {"free", "live", "lost"}]
  /\ \A g \in Streams : Len(queue[g]) <= Backlog + 1 /\ \A i \in DOMAIN queue[g] : queue[g][i] \in Event
  /\ view \in [Pages -> Row] /\ get \in [Pages -> Get] /\ post \in [Pages -> Post]
  /\ \A p \in Pages : conn[p] \in Streams \cup {"closed", "opening"}

\* create_run has committed its row and spawned start_run.
Init ==
  /\ row = [Unread EXCEPT !.status = "running"]
  /\ work = <<>> /\ at = Scenario
  /\ registered = NoStream
  /\ stream = [g \in Streams |-> "free"] /\ queue = [g \in Streams |-> <<>>]
  /\ view = [p \in Pages |-> Unread] /\ get = [p \in Pages |-> NoGet]
  /\ conn = [p \in Pages |-> "closed"] /\ post = [p \in Pages |-> NoPost]

-----------------------------------------------------------------------------
(* The driver. *)

\* What the properties of a page assume, unless "race" or "late" are among
\* the faults: a page is opened before the run or while it waits for its
\* operator (with "midrun", also while a stage executes), the operator acts
\* when nothing is being written or delivered, the driver does nothing while a page
\* loads or reconnects, and a stage is not over before the answer to the
\* request that started it.
Waiting == work = <<>> /\ (at = 0 \/ row.stage = 0 \/ "midrun" \in Faults)
Listening(p) ==
  conn[p] = "closed" \/ "race" \in Faults \/ (conn[p] \in Streams /\ get[p].is = "none")
Informed(p) == "late" \in Faults \/ post[p].is = "none"

StageEnds ==
  /\ work = <<>> /\ at # 0
  /\ \A p \in Pages : Listening(p) /\ Informed(p)
  /\ \/ work' = Paused(at)
     \/ work' = FailedAt(at)
     \/ "raise" \in Faults /\ work' = RaisedAt(at)
  /\ at' = 0
  /\ UNCHANGED <<row, registry, pages>>

\* publish: only a registered queue gets the events.  (What a generator whose
\* client is gone has in its queue, nobody reads.)
Perform ==
  /\ work # <<>> /\ \A p \in Pages : Listening(p)
  /\ work' = Tail(work)
  /\ row' = Written(Head(work))
  /\ queue' = IF Head(work).op = "publish" /\ registered # NoStream /\ stream[registered] = "live"
              THEN [queue EXCEPT ![registered] = @ \o Events(Head(work))]
              ELSE queue
  /\ \A g \in Streams : Len(queue'[g]) <= Backlog
  /\ post' = [p \in Pages |->
       IF Head(work).op = "answer" /\ p \in Head(work).page /\ post[p].is = "taken"
       THEN [post[p] EXCEPT !.is = "answered", !.ok = TRUE] ELSE post[p]]
  /\ UNCHANGED <<at, registered, stream, view, get, conn>>

-----------------------------------------------------------------------------
(* The registry. *)

\* Mutant: the one before is forgotten, not closed.
ClosingForgotten(g) == queue[g]
Closing(g) == IF stream[g] = "live" THEN Append(queue[g], Close) ELSE queue[g]

\* subscribe: the generator of a page's request starts.
Subscribe(p, g) ==
  /\ conn[p] = "opening" /\ stream[g] = "free"
  /\ queue' = IF registered = NoStream THEN queue
              ELSE [queue EXCEPT ![registered] = Closing(registered)]
  /\ stream' = [stream EXCEPT ![g] = "live"]
  /\ registered' = g
  /\ conn' = [conn EXCEPT ![p] = g]
  /\ UNCHANGED <<driver, view, get, post>>

\* The generator is over; its page, if it still listens, opens another.
End(g) ==
  /\ stream' = [stream EXCEPT ![g] = "free"]
  /\ queue' = [queue EXCEPT ![g] = <<>>]
  /\ registered' = Unregister(g)
  /\ conn' = [p \in Pages |-> IF conn[p] = g THEN "opening" ELSE conn[p]]

\* The generator takes an event and its page applies it; a failure and the
\* sentinel end it.
Take(g) ==
  /\ stream[g] = "live" /\ queue[g] # <<>>
  /\ LET e == Head(queue[g])
     IN /\ view' = [p \in Pages |->
               IF conn[p] = g /\ e # Close THEN Applied(view[p], e) ELSE view[p]]
        /\ IF e = Close \/ e.kind = "run_failed" THEN End(g)
           ELSE /\ queue' = [queue EXCEPT ![g] = Tail(@)]
                /\ UNCHANGED <<stream, registered, conn>>
  /\ UNCHANGED <<driver, get, post>>

\* The server notices that the client is gone: the generator is cancelled.
Reap(g) ==
  /\ stream[g] = "lost"
  /\ End(g)
  /\ UNCHANGED <<driver, view, get, post>>

-----------------------------------------------------------------------------
(* A page. *)

\* RunDetail is mounted: it asks for the row and opens its stream.
Open(p) ==
  /\ conn[p] = "closed"
  /\ "race" \in Faults \/ Waiting
  /\ conn' = [conn EXCEPT ![p] = "opening"]
  /\ get' = [get EXCEPT ![p] = [NoGet EXCEPT !.is = "sent"]]
  /\ UNCHANGED <<driver, registry, view, post>>

Lost(p) == [g \in Streams |-> IF conn[p] = g THEN "lost" ELSE stream[g]]

\* The tab is closed; the server has yet to notice.
Leave(p) ==
  /\ "reload" \in Faults /\ conn[p] # "closed"
  /\ stream' = Lost(p)
  /\ conn' = [conn EXCEPT ![p] = "closed"] /\ view' = [view EXCEPT ![p] = Unread]
  /\ get' = [get EXCEPT ![p] = NoGet] /\ post' = [post EXCEPT ![p] = NoPost]
  /\ UNCHANGED <<driver, registered, queue>>

\* The connection breaks; the EventSource opens another.
Drop(p) ==
  /\ "drop" \in Faults /\ conn[p] \in Streams
  /\ stream' = Lost(p)
  /\ conn' = [conn EXCEPT ![p] = "opening"]
  /\ UNCHANGED <<driver, registered, queue, view, get, post>>

\* GET /runs/{id} reads the row; the page shows what it read.
Read(p) ==
  /\ get[p].is = "sent"
  /\ get' = [get EXCEPT ![p] = [is |-> "answered", row |-> row]]
  /\ UNCHANGED <<driver, registry, view, conn, post>>
Show(p) ==
  /\ get[p].is = "answered"
  /\ view' = [view EXCEPT ![p] = get[p].row]
  /\ get' = [get EXCEPT ![p] = NoGet]
  /\ UNCHANGED <<driver, registry, conn, post>>

\* The operator decides a gate or retries a stage the page offers.
Ask(p, kind, s) ==
  /\ view[p].status # "unread" /\ post[p].is = "none"
  /\ "race" \in Faults \/ (work = <<>> /\ (conn[p] \in Streams => queue[conn[p]] = <<>>))
  /\ s \in IF kind = "retry" THEN CanRetry(view[p]) ELSE Decidable(view[p])
  /\ post' = [post EXCEPT ![p] = [is |-> "sent", kind |-> kind, stage |-> s, ok |-> FALSE]]
  /\ UNCHANGED <<driver, registry, view, get, conn>>

AfterApproval(s) == IF s = N THEN 0 ELSE s + 1

\* What the routes ask of the row.
Accepts(q) ==
  IF q.kind = "retry"
  THEN row.status \in {"awaiting_approval", "failed", "complete"} /\ row.gates[q.stage] \in Retryable
  ELSE row.status = "awaiting_approval" /\ row.gates[q.stage] = "pending"

\* The server refuses it, or takes it up when the driver has nothing left to
\* write.
Receive(p) ==
  LET q == post[p]
  IN /\ q.is = "sent" /\ (Accepts(q) => work = <<>>)
     /\ IF ~Accepts(q)
        THEN post' = [post EXCEPT ![p].is = "answered"] /\ UNCHANGED <<work, at>>
        ELSE CASE q.kind = "approve" ->
                    /\ work' = Approved(q.stage) /\ at' = AfterApproval(q.stage)
                    /\ post' = [post EXCEPT ![p].is = "answered", ![p].ok = TRUE]
               [] q.kind = "reject" ->
                    /\ work' = Rejected(q.stage) /\ at' = IF q.stage = Scenario THEN 0 ELSE q.stage
                    /\ post' = [post EXCEPT ![p].is = "answered", ![p].ok = TRUE]
               [] q.kind = "retry" ->
                    /\ work' = Retried(q.stage, p) /\ at' = q.stage
                    /\ post' = [post EXCEPT ![p].is = "taken"]
     /\ UNCHANGED <<row, registry, view, get, conn>>

Answer(p) ==
  /\ post[p].is = "answered"
  /\ view' = [view EXCEPT ![p] = Answered(@, post[p])]
  /\ post' = [post EXCEPT ![p] = NoPost]
  /\ UNCHANGED <<driver, registry, get, conn>>

-----------------------------------------------------------------------------
Next ==
  \/ StageEnds \/ Perform
  \/ \E g \in Streams : Take(g) \/ Reap(g) \/ (\E p \in Pages : Subscribe(p, g))
  \/ \E p \in Pages :
       \/ Open(p) \/ Leave(p) \/ Drop(p) \/ Read(p) \/ Show(p) \/ Receive(p) \/ Answer(p)
       \/ \E kind \in Requests, s \in Stages : Ask(p, kind, s)

Spec == Init /\ [][Next]_vars

\* The loop resumes every ready task, a stage ends, requests are answered and
\* an EventSource reopens; the operator owes nothing.
FairSpec ==
  /\ Spec
  /\ WF_vars(StageEnds) /\ WF_vars(Perform)
  /\ \A g \in Streams : WF_vars(Take(g)) /\ WF_vars(Reap(g))
  /\ \A p \in Pages :
       /\ WF_vars(\E g \in Streams : Subscribe(p, g))
       /\ WF_vars(Read(p)) /\ WF_vars(Show(p)) /\ WF_vars(Receive(p)) /\ WF_vars(Answer(p))

-----------------------------------------------------------------------------
(* The registry's promise. *)

Closed(g) == \E i \in DOMAIN queue[g] : queue[g][i] = Close

\* The end of an old subscriber, however late the server notices it, never
\* takes the newer one's queue out: a live stream that was not told to close
\* is the one publish writes to.
NewestStaysRegistered ==
  \A g \in Streams : stream[g] = "live" /\ ~Closed(g) => registered = g

\* A stream that was replaced ends, it does not wait on its queue for ever.
StaleStreamsEnd ==
  \A g \in Streams : (stream[g] = "live" /\ registered # g) ~> (stream[g] # "live")

(* The pages' promise. *)

\* A page that asks the operator for a decision is right to: the row waits for
\* it, and the request will be accepted.
PageDecisionsAreAccepted ==
  \A p \in Pages : post[p].is = "none" =>
    \A s \in Decidable(view[p]) : row.status = "awaiting_approval" /\ row.gates[s] = "pending"

Offer(gate) ==
  IF gate = "pending" THEN "decide" ELSE IF gate \in Retryable THEN "retry" ELSE "nothing"
Agrees(p) ==
  /\ view[p].status = row.status /\ view[p].stage = row.stage
  /\ row.stage # 0 => Offer(view[p].gates[row.stage]) = Offer(row.gates[row.stage])

\* Nothing is under way, on the server or to the page.
Quiet(p) ==
  /\ work = <<>> /\ at = 0
  /\ conn[p] \in Streams /\ queue[conn[p]] = <<>>
  /\ get[p].is = "none" /\ post[p].is = "none"

\* When a run has stopped for its operator and every event has arrived, the
\* page shows the status and the stage of the row, and offers for that stage
\* what the row allows.  (Nothing is published when a run completes.)
QuietPageIsCurrent ==
  \A p \in Pages : Quiet(p) /\ row.status # "complete" => Agrees(p)

\* What a page shows is right: when it asks, and when nothing is on its way.
PageIsRight == PageDecisionsAreAccepted /\ QuietPageIsCurrent

\* A run that stops for its operator gets through to an open page.
PageCatchesUp ==
  \A p \in Pages :
    (conn[p] # "closed" /\ row.status \in {"awaiting_approval", "failed"})
      ~> (Agrees(p) \/ conn[p] = "closed" \/ row.status \notin {"awaiting_approval", "failed"})
=============================================================================
