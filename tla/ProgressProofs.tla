---------------------------- MODULE ProgressProofs ----------------------------
(***************************************************************************)
(* Two theorems about ProgressEvents.  For any number of stages, pages and *)
(* streams and under every fault, the newest subscriber stays the          *)
(* registered one.  And for any number of stages and streams, one tab that *)
(* may be closed and opened again is right: a decision it offers is one    *)
(* the row waits for, and when nothing is on its way it shows the row.     *)
(* The invariant of the second says of every phase of the driver what the  *)
(* row holds and what the page shows, has still to hear and has asked.     *)
(***************************************************************************)
EXTENDS ProgressEvents, SequenceTheorems, TLAPS

Ops ==
  [op: {"row", "gate", "publish", "reset", "answer"},
   to: RunStatus \cup GateState \cup EventKinds \cup {"ok"},
   stage: 0 .. N, page: SUBSET Pages]

\* What the driver publishes is an event.
Order == {o \in Ops : o.op = "publish" => o.to \in EventKinds}

\* The driver's list, the queues and who reads them.
Shape ==
  /\ work \in Seq(Order) /\ at \in 0 .. N
  /\ queue \in [Streams -> Seq(Event)]
  /\ stream \in [Streams -> {"free", "live", "lost"}]
  /\ registered \in Streams \cup {NoStream}
  /\ post \in [Pages -> Post]

RegistryInv == Shape /\ NewestStaysRegistered

-----------------------------------------------------------------------------
(* Shapes. *)

LEMMA StageFacts == N \in Nat \ {0} /\ Scenario \in 0 .. N /\ NoStream \notin Streams
  BY StagesAssumption, StreamsAssumption DEF Scenario

LEMMA OrderFacts ==
  ASSUME NEW s \in 0 .. N
  PROVE  /\ \A status \in RunStatus : Write(status, s) \in Order
         /\ \A value \in GateState : Mirror(s, value) \in Order
         /\ \A kind \in EventKinds : Publish(kind, s) \in Order
         /\ Reset(s) \in Order
         /\ \A p \in Pages : Answers(p) \in Order
<1>1. \A status \in RunStatus : Write(status, s) \in Order
  BY DEF Write, Op, Order, Ops
<1>2. \A value \in GateState : Mirror(s, value) \in Order
  BY DEF Mirror, Op, Order, Ops
<1>3. \A kind \in EventKinds : Publish(kind, s) \in Order
  BY DEF Publish, Op, Order, Ops
<1>4. Reset(s) \in Order
  BY DEF Reset, Op, Order, Ops, RunStatus
<1>5. ASSUME NEW p \in Pages PROVE Answers(p) \in Order
  <2>1. 0 \in 0 .. N
    BY StageFacts
  <2> QED  BY <2>1 DEF Answers, Op, Order, Ops
<1> QED  BY <1>1, <1>2, <1>3, <1>4, <1>5

\* What the driver takes up.
LEMMA WorkFacts ==
  ASSUME NEW s \in 0 .. N
  PROVE  /\ Paused(s) \in Seq(Order) /\ FailedAt(s) \in Seq(Order) /\ RaisedAt(s) \in Seq(Order)
         /\ Approved(s) \in Seq(Order) /\ Rejected(s) \in Seq(Order)
         /\ \A p \in Pages : Retried(s, p) \in Seq(Order)
<1>0. 0 \in 0 .. N
  BY StageFacts
<1>1. /\ {"running", "awaiting_approval", "failed", "complete"} \subseteq RunStatus
      /\ {"pending", "failed", "approved", "rejected"} \subseteq GateState
      /\ {"stage_exit", "stage_entry", "gate_pending", "run_failed"} \subseteq EventKinds
  BY DEF RunStatus, GateState, EventKinds
<1>2. /\ {Write("running", s), Write("awaiting_approval", s), Write("failed", s),
          Write("running", 0), Write("complete", 0), Write("failed", 0)} \subseteq Order
      /\ {Mirror(s, "pending"), Mirror(s, "failed"), Mirror(s, "approved"), Mirror(s, "rejected")} \subseteq Order
      /\ {Publish("stage_exit", s), Publish("stage_entry", s), Publish("gate_pending", s),
          Publish("run_failed", s)} \subseteq Order
  BY <1>0, <1>1, OrderFacts
<1>3. Paused(s) \in Seq(Order)
  BY <1>2 DEF Paused
<1>4. FailedAt(s) \in Seq(Order) /\ RaisedAt(s) \in Seq(Order)
  BY <1>2 DEF FailedAt, RaisedAt
<1>5. Approved(s) \in Seq(Order)
  <2>1. <<Write("running", 0), Mirror(s, "approved")>> \in Seq(Order)
        /\ (IF s = N THEN <<Write("complete", 0)>> ELSE <<>>) \in Seq(Order)
    BY <1>2
  <2> QED  BY <2>1, ConcatProperties DEF Approved
<1>6. Rejected(s) \in Seq(Order)
  <2>1. <<Write("running", 0), Mirror(s, "rejected")>> \in Seq(Order)
        /\ (IF s = Scenario THEN <<Write("failed", 0), Publish("run_failed", s)>> ELSE <<>>) \in Seq(Order)
    BY <1>2
  <2> QED  BY <2>1, ConcatProperties DEF Rejected
<1>7. \A p \in Pages : Retried(s, p) \in Seq(Order)
  BY <1>2, OrderFacts DEF Retried
<1> QED  BY <1>3, <1>4, <1>5, <1>6, <1>7

LEMMA EventsFacts == ASSUME NEW o \in Order, o.op = "publish" PROVE Events(o) \in Seq(Event)
<1>1. o.to \in EventKinds /\ o.stage \in 0 .. N
  BY DEF Order, Ops
<1>2. Ev(o.to, o.stage) \in Event /\ Ev("stage_entry", o.stage) \in Event
      /\ Ev("stage_exit", o.stage) \in Event
  BY <1>1 DEF Ev, Event, EventKinds
<1> QED  BY <1>2 DEF Events

LEMMA CloseFacts == Close \in Event
  BY StageFacts DEF Close, Event

LEMMA TailFacts ==
  ASSUME NEW S, NEW q \in Seq(S), q # <<>>
  PROVE  /\ Tail(q) \in Seq(S) /\ Head(q) \in S
         /\ \A x : x # Head(q) => ((\E i \in DOMAIN q : q[i] = x) <=> \E i \in DOMAIN Tail(q) : Tail(q)[i] = x)
<1>1. /\ Tail(q) \in Seq(S) /\ Head(q) \in S /\ Len(Tail(q)) = Len(q) - 1
      /\ \A i \in 1 .. Len(Tail(q)) : Tail(q)[i] = q[i + 1]
  BY HeadTailProperties
<1>2. DOMAIN q = 1 .. Len(q) /\ DOMAIN Tail(q) = 1 .. Len(Tail(q)) /\ Len(q) \in Nat /\ q[1] = Head(q)
  BY <1>1, LenProperties
<1>3. ASSUME NEW x, x # Head(q), NEW i \in DOMAIN q, q[i] = x
      PROVE  \E j \in DOMAIN Tail(q) : Tail(q)[j] = x
  <2>1. i - 1 \in DOMAIN Tail(q) /\ Tail(q)[i - 1] = q[i]
    BY <1>1, <1>2, <1>3
  <2> QED  BY <1>3, <2>1
<1>4. ASSUME NEW x, NEW i \in DOMAIN Tail(q), Tail(q)[i] = x PROVE \E j \in DOMAIN q : q[j] = x
  <2>1. i + 1 \in DOMAIN q /\ q[i + 1] = x
    BY <1>1, <1>2, <1>4
  <2> QED  BY <2>1
<1> QED  BY <1>1, <1>3, <1>4

-----------------------------------------------------------------------------
(* The registry. *)

LEMMA PostFacts ==
  /\ NoPost \in Post
  /\ \A kind \in Requests, s \in Stages :
       [is |-> "sent", kind |-> kind, stage |-> s, ok |-> FALSE] \in Post
  BY StageFacts DEF NoPost, Post, Stages

LEMMA RegistryBegin == Init => RegistryInv
<1> SUFFICES ASSUME Init PROVE RegistryInv
  OBVIOUS
<1>1. <<>> \in Seq(Order) /\ <<>> \in Seq(Event)
  BY EmptySeq
<1>2. post \in [Pages -> Post]
  BY PostFacts DEF Init
<1>3. \A g \in Streams : stream[g] = "free"
  BY DEF Init
<1> QED  BY <1>1, <1>2, <1>3, StageFacts DEF Init, RegistryInv, Shape, NewestStaysRegistered

\* A step that leaves the registry alone, or takes clients away from it.
LEMMA RegistryKept ==
  ASSUME RegistryInv, UNCHANGED <<registered, queue>>,
         stream' \in [Streams -> {"free", "live", "lost"}],
         \A g \in Streams : stream'[g] = "live" => stream[g] = "live",
         work' \in Seq(Order), at' \in 0 .. N, post' \in [Pages -> Post]
  PROVE  RegistryInv'
<1>1. \A g \in Streams : Closed(g)' = Closed(g)
  BY DEF Closed
<1> QED  BY <1>1 DEF RegistryInv, Shape, NewestStaysRegistered

LEMMA PerformKeeps == RegistryInv /\ Perform => RegistryInv'
<1> SUFFICES ASSUME RegistryInv, Perform PROVE RegistryInv'
  OBVIOUS
<1>1. /\ work \in Seq(Order) /\ work # <<>> /\ queue \in [Streams -> Seq(Event)]
      /\ registered \in Streams \cup {NoStream}
      /\ UNCHANGED <<at, registered, stream>> /\ work' = Tail(work)
  BY DEF RegistryInv, Shape, Perform
<1>2. work' \in Seq(Order) /\ Head(work) \in Order
  BY <1>1, TailFacts
<1>3. post' \in [Pages -> Post]
  BY DEF Perform, RegistryInv, Shape, Post
<1>4. CASE UNCHANGED queue
  BY <1>1, <1>2, <1>3, <1>4, RegistryKept DEF RegistryInv, Shape
<1>5. CASE /\ Head(work).op = "publish" /\ registered # NoStream
           /\ queue' = [queue EXCEPT ![registered] = @ \o Events(Head(work))]
  <2> DEFINE q == queue[registered] \o Events(Head(work))
  <2>1. registered \in Streams /\ q \in Seq(Event)
    BY <1>1, <1>2, <1>5, EventsFacts, ConcatProperties
  <2>2. queue' = [queue EXCEPT ![registered] = q]
    BY <1>5
  <2> HIDE DEF q
  <2>3. queue' \in [Streams -> Seq(Event)] /\ \A g \in Streams : g # registered => queue'[g] = queue[g]
    BY <1>1, <2>1, <2>2
  <2>4. \A g \in Streams : g # registered => Closed(g)' = Closed(g)
    BY <2>3 DEF Closed
  <2> QED  BY <1>1, <1>2, <1>3, <2>3, <2>4 DEF RegistryInv, Shape, NewestStaysRegistered
<1> QED  BY <1>4, <1>5 DEF Perform

LEMMA SubscribeKeeps ==
  ASSUME RegistryInv, NEW p \in Pages, NEW g \in Streams, Subscribe(p, g) PROVE RegistryInv'
<1> SUFFICES ASSUME NEW r, r = registered PROVE RegistryInv'
  OBVIOUS
<1>1. /\ queue \in [Streams -> Seq(Event)] /\ r \in Streams \cup {NoStream}
      /\ stream \in [Streams -> {"free", "live", "lost"}]
      /\ UNCHANGED <<work, at, post>> /\ registered' = g /\ stream' = [stream EXCEPT ![g] = "live"]
      /\ stream[g] = "free"
  BY DEF RegistryInv, Shape, Subscribe, driver
<1>2. ASSUME r \in Streams PROVE Closing(r) \in Seq(Event) /\ (stream[r] = "live" =>
        \E i \in DOMAIN Closing(r) : Closing(r)[i] = Close)
  <2>1. queue[r] \in Seq(Event) /\ Close \in Event
    BY <1>1, <1>2, CloseFacts
  <2>2. Append(queue[r], Close) \in Seq(Event)
        /\ \E i \in DOMAIN Append(queue[r], Close) : Append(queue[r], Close)[i] = Close
    <3>1. /\ Append(queue[r], Close) \in Seq(Event)
          /\ Len(Append(queue[r], Close)) = Len(queue[r]) + 1 /\ Len(queue[r]) \in Nat
          /\ Append(queue[r], Close)[Len(queue[r]) + 1] = Close
      BY <2>1, AppendProperties
    <3>2. Len(queue[r]) + 1 \in DOMAIN Append(queue[r], Close)
      BY <3>1
    <3> QED  BY <3>1, <3>2
  <2> QED  BY <2>1, <2>2 DEF Closing
<1>3. CASE r = NoStream
  <2>1. UNCHANGED queue
    BY <1>3 DEF Subscribe
  <2>2. \A d \in Streams : Closed(d)' = Closed(d)
    BY <2>1 DEF Closed
  <2> QED  BY <1>1, <1>3, <2>1, <2>2, StageFacts DEF RegistryInv, Shape, NewestStaysRegistered
<1>4. CASE r \in Streams
  <2> DEFINE q == Closing(r)
  <2>1. queue' = [queue EXCEPT ![r] = q]
    BY <1>4, StageFacts DEF Subscribe
  <2>2. q \in Seq(Event) /\ (stream[r] = "live" => \E i \in DOMAIN q : q[i] = Close)
    BY <1>2, <1>4
  <2> HIDE DEF q
  <2>3. queue' \in [Streams -> Seq(Event)] /\ queue'[r] = q
        /\ \A d \in Streams : d # r => queue'[d] = queue[d]
    BY <1>1, <1>4, <2>1, <2>2
  <2>4. /\ stream[r] = "live" => Closed(r)'
        /\ \A d \in Streams : d # r => Closed(d)' = Closed(d)
    BY <2>2, <2>3 DEF Closed
  <2>5. \A d \in Streams : d # g => stream'[d] = stream[d]
    BY <1>1
  <2>6. NewestStaysRegistered'
    BY <1>1, <2>4, <2>5 DEF RegistryInv, NewestStaysRegistered
  <2> QED  BY <1>1, <2>3, <2>6 DEF RegistryInv, Shape
<1> QED  BY <1>1, <1>3, <1>4

\* A generator that is over takes out its own queue, and nobody else's.
LEMMA EndKeeps ==
  ASSUME RegistryInv, NEW g \in Streams, End(g), UNCHANGED <<work, at, post>>
  PROVE  RegistryInv'
<1>1. /\ queue \in [Streams -> Seq(Event)] /\ stream \in [Streams -> {"free", "live", "lost"}]
      /\ stream' = [stream EXCEPT ![g] = "free"] /\ queue' = [queue EXCEPT ![g] = <<>>]
      /\ registered' = IF registered = g THEN NoStream ELSE registered
  BY DEF RegistryInv, Shape, End, Unregister
<1>2. <<>> \in Seq(Event)
  BY EmptySeq
<1>3. /\ queue' \in [Streams -> Seq(Event)] /\ stream' \in [Streams -> {"free", "live", "lost"}]
      /\ \A d \in Streams : d # g => queue'[d] = queue[d] /\ stream'[d] = stream[d]
      /\ stream'[g] = "free"
  BY <1>1, <1>2
<1>4. \A d \in Streams : d # g => Closed(d)' = Closed(d)
  BY <1>3 DEF Closed
<1>5. NewestStaysRegistered'
  BY <1>1, <1>3, <1>4 DEF RegistryInv, NewestStaysRegistered
<1> QED  BY <1>1, <1>3, <1>5 DEF RegistryInv, Shape

LEMMA TakeKeeps == ASSUME RegistryInv, NEW g \in Streams, Take(g) PROVE RegistryInv'
<1> DEFINE e == Head(queue[g])
<1>1. /\ queue \in [Streams -> Seq(Event)] /\ queue[g] # <<>> /\ UNCHANGED <<work, at, post>>
      /\ End(g) \/ (e # Close /\ queue' = [queue EXCEPT ![g] = Tail(@)] /\ UNCHANGED <<stream, registered>>)
  BY DEF RegistryInv, Shape, Take, driver
<1>2. CASE End(g)
  BY <1>1, <1>2, EndKeeps
<1>3. CASE e # Close /\ queue' = [queue EXCEPT ![g] = Tail(@)] /\ UNCHANGED <<stream, registered>>
  <2> DEFINE q == Tail(queue[g])
  <2>0. queue[g] \in Seq(Event) /\ queue[g] # <<>> /\ Close # Head(queue[g])
    BY <1>1, <1>3
  <2>1. /\ q \in Seq(Event)
        /\ (\E i \in DOMAIN queue[g] : queue[g][i] = Close) <=> \E i \in DOMAIN q : q[i] = Close
    <3> DEFINE s == queue[g]
    <3>1. s \in Seq(Event) /\ s # <<>> /\ Close # Head(s)
      BY <2>0
    <3>2. q = Tail(s)
      OBVIOUS
    <3> HIDE DEF s, q
    <3>3. q \in Seq(Event) /\ \A x : x # Head(s) => ((\E i \in DOMAIN s : s[i] = x) <=> \E i \in DOMAIN q : q[i] = x)
      BY <3>1, <3>2, TailFacts
    <3>4. (\E i \in DOMAIN s : s[i] = Close) <=> \E i \in DOMAIN q : q[i] = Close
      BY <3>1, <3>3
    <3> QED  BY <3>3, <3>4 DEF s
  <2>2. queue' = [queue EXCEPT ![g] = q]
    BY <1>3
  <2> HIDE DEF q
  <2>3. queue' \in [Streams -> Seq(Event)] /\ queue'[g] = q
        /\ \A d \in Streams : d # g => queue'[d] = queue[d]
    BY <1>1, <2>1, <2>2
  <2>4. \A d \in Streams : Closed(d)' <=> Closed(d)
    BY <2>1, <2>3 DEF Closed
  <2>5. NewestStaysRegistered'
    BY <1>3, <2>4 DEF RegistryInv, NewestStaysRegistered
  <2> QED  BY <1>1, <1>3, <2>3, <2>5 DEF RegistryInv, Shape
<1> QED  BY <1>1, <1>2, <1>3

\* A step that only reads or writes rows, pages and requests.
PageSteps ==
  \/ StageEnds
  \/ \E p \in Pages :
       \/ Open(p) \/ Leave(p) \/ Drop(p) \/ Read(p) \/ Show(p) \/ Receive(p) \/ Answer(p)
       \/ \E kind \in Requests, s \in Stages : Ask(p, kind, s)

LEMMA PageStepsKeep == RegistryInv /\ PageSteps => RegistryInv'
<1> SUFFICES ASSUME RegistryInv, PageSteps PROVE RegistryInv'
  OBVIOUS
<1>0. /\ work \in Seq(Order) /\ at \in 0 .. N /\ stream \in [Streams -> {"free", "live", "lost"}]
      /\ post \in [Pages -> Post]
  BY DEF RegistryInv, Shape
<1>1. CASE StageEnds
  <2>1. work' \in Seq(Order) /\ at' \in 0 .. N /\ UNCHANGED <<registered, stream, queue, post>>
    BY <1>0, <1>1, WorkFacts, StageFacts DEF StageEnds, registry, pages
  <2> QED  BY <1>0, <2>1, RegistryKept
<1>2. ASSUME NEW p \in Pages, Open(p) \/ Read(p) \/ Show(p) PROVE RegistryInv'
  BY <1>0, <1>2, RegistryKept DEF Open, Read, Show, driver, registry
<1>3. ASSUME NEW p \in Pages, Leave(p) \/ Drop(p) PROVE RegistryInv'
  <2>1. post' \in [Pages -> Post]
    BY <1>0, <1>3, PostFacts DEF Leave, Drop
  <2>2. stream' = Lost(p) /\ UNCHANGED <<work, at, registered, queue>>
    BY <1>3 DEF Leave, Drop, driver
  <2> QED  BY <1>0, <2>1, <2>2, RegistryKept DEF Lost
<1>4. ASSUME NEW p \in Pages, NEW kind \in Requests, NEW s \in Stages, Ask(p, kind, s) PROVE RegistryInv'
  <2>1. post' \in [Pages -> Post]
    BY <1>0, <1>4, PostFacts DEF Ask
  <2> QED  BY <1>0, <1>4, <2>1, RegistryKept DEF Ask, driver, registry
<1>5. ASSUME NEW p \in Pages, Answer(p) PROVE RegistryInv'
  <2>1. post' \in [Pages -> Post]
    BY <1>0, <1>5, PostFacts DEF Answer
  <2> QED  BY <1>0, <1>5, <2>1, RegistryKept DEF Answer, driver, registry
<1>6. ASSUME NEW p \in Pages, Receive(p) PROVE RegistryInv'
  <2> DEFINE s == post[p].stage
  <2>1. s \in 0 .. N /\ UNCHANGED <<registered, stream, queue>>
    BY <1>0, <1>6 DEF Receive, registry, Post
  <2>2. post' \in [Pages -> Post]
    <3>1. post[p] \in Post
      BY <1>0
    <3>2. post[p].kind \in {"approve", "reject", "retry"}
      BY <3>1, RequestsAssumption DEF Post
    <3>3. \E q \in Post : post' = [post EXCEPT ![p] = q]
      <4>1. CASE post' = [post EXCEPT ![p].is = "answered"]
        <5>1. [post[p] EXCEPT !.is = "answered"] \in Post
          BY <3>1 DEF Post
        <5> QED  BY <4>1, <5>1
      <4>2. CASE post' = [post EXCEPT ![p].is = "answered", ![p].ok = TRUE]
        <5>1. [post[p] EXCEPT !.is = "answered", !.ok = TRUE] \in Post
          BY <3>1 DEF Post
        <5>2. post' = [post EXCEPT ![p] = [post[p] EXCEPT !.is = "answered", !.ok = TRUE]]
          BY <1>0, <4>2
        <5> QED  BY <5>1, <5>2
      <4>3. CASE post' = [post EXCEPT ![p].is = "taken"]
        <5>1. [post[p] EXCEPT !.is = "taken"] \in Post
          BY <3>1 DEF Post
        <5> QED  BY <4>3, <5>1
      <4> QED  BY <1>6, <3>2, <4>1, <4>2, <4>3 DEF Receive
    <3> QED  BY <1>0, <3>3
  <2>3. \/ UNCHANGED <<work, at>>
        \/ work' = Approved(s) /\ at' = AfterApproval(s)
        \/ work' = Rejected(s) /\ at' = IF s = Scenario THEN 0 ELSE s
        \/ work' = Retried(s, p) /\ at' = s
    <3>1. post[p].kind \in {"approve", "reject", "retry"}
      BY <1>0, RequestsAssumption DEF Post
    <3> QED  BY <1>6, <3>1 DEF Receive
  <2>4. work' \in Seq(Order)
    BY <1>0, <2>1, <2>3, WorkFacts
  <2>5. at' \in 0 .. N
    BY <1>0, <2>1, <2>3, StageFacts DEF AfterApproval
  <2> QED  BY <1>0, <2>1, <2>2, <2>4, <2>5, RegistryKept
<1> QED  BY <1>1, <1>2, <1>3, <1>4, <1>5, <1>6 DEF PageSteps

LEMMA RegistryStep == RegistryInv /\ [Next]_vars => RegistryInv'
<1> SUFFICES ASSUME RegistryInv, [Next]_vars PROVE RegistryInv'
  OBVIOUS
<1>1. CASE PageSteps
  BY <1>1, PageStepsKeep
<1>2. CASE Perform
  BY <1>2, PerformKeeps
<1>3. ASSUME NEW g \in Streams, Take(g) PROVE RegistryInv'
  BY <1>3, TakeKeeps
<1>4. ASSUME NEW g \in Streams, Reap(g) PROVE RegistryInv'
  BY <1>4, EndKeeps DEF Reap, driver
<1>5. ASSUME NEW g \in Streams, NEW p \in Pages, Subscribe(p, g) PROVE RegistryInv'
  BY <1>5, SubscribeKeeps
<1>6. CASE UNCHANGED vars
  BY <1>6, RegistryKept DEF vars, RegistryInv, Shape
<1> QED  BY <1>1, <1>2, <1>3, <1>4, <1>5, <1>6 DEF Next, PageSteps

\* A live stream that was not told to close is the one publish writes to, however
\* late the server notices that an older subscriber has gone.
THEOREM TheNewestIsServed == Spec => []NewestStaysRegistered
<1>1. RegistryInv => NewestStaysRegistered
  BY DEF RegistryInv
<1> QED  BY <1>1, RegistryBegin, RegistryStep, PTL DEF Spec

-----------------------------------------------------------------------------
(* One page: what is left of the driver's work, and what the page has yet to hear. *)

\* What the check of a page assumes too: one tab, which may be closed and opened
\* again; it is opened before the run or while it waits, nothing is published
\* while it loads, and no stage is faster than the answer it follows.
OneCalmPage ==
  /\ \E p : Pages = {p}
  /\ Faults \subseteq {"reload"}

Entry(s) == Ev("stage_entry", s)
Exit(s) == Ev("stage_exit", s)
Gate(s) == Ev("gate_pending", s)
Fail(s) == Ev("run_failed", s)

\* What is left of the driver's lists.
Paused1(s) == <<Publish("stage_exit", s), Write("awaiting_approval", s), Mirror(s, "pending"),
                Publish("gate_pending", s)>>
Paused2(s) == <<Write("awaiting_approval", s), Mirror(s, "pending"), Publish("gate_pending", s)>>
Paused3(s) == <<Mirror(s, "pending"), Publish("gate_pending", s)>>
Paused4(s) == <<Publish("gate_pending", s)>>
Failed1(s) == <<Mirror(s, "failed"), Publish("run_failed", s)>>
Failed2(s) == <<Publish("run_failed", s)>>
Completes(s) == IF s = N THEN <<Write("complete", 0)>> ELSE <<>>
Approved1(s) == <<Mirror(s, "approved")>> \o Completes(s)
GivesUp(s) == IF s = Scenario THEN <<Write("failed", 0), Publish("run_failed", s)>> ELSE <<>>
Rejected1(s) == <<Mirror(s, "rejected")>> \o GivesUp(s)
Retried1(s, p) == <<Publish("stage_entry", s), Answers(p)>>
Retried2(p) == <<Answers(p)>>

-----------------------------------------------------------------------------
(* The row, by what is left to do. *)

\* The stages before the row's are approved; the row is ready for stage a.
RowLow == \A t \in Stages : t < row.stage => row.gates[t] = "approved"
RowReady(a) ==
  /\ row.status = "running" /\ a \in Stages
  /\ \/ row.stage = 0 /\ a = Scenario
     \/ row.stage = a
     \/ row.stage \in Stages /\ a = row.stage + 1 /\ row.gates[row.stage] = "approved"

\* The phases: the run waits, has failed, is complete, executes a stage; or the
\* driver is at its gate, at its failure, or at what follows a decision or a retry.
Stopped == work = <<>> /\ at = 0 /\ row.stage \in Stages
Awaiting == Stopped /\ row.status = "awaiting_approval" /\ row.gates[row.stage] = "pending"
Failed == Stopped /\ row.status = "failed" /\ row.gates[row.stage] \in {"failed", "rejected"}
Completed == Stopped /\ row.status = "complete" /\ row.stage = N /\ row.gates[N] = "approved"
Executing == work = <<>> /\ RowReady(at)
Pausing(s) ==
  /\ at = 0
  /\ \/ work = Paused(s) /\ RowReady(s)
     \/ work \in {Paused1(s), Paused2(s)} /\ row.stage = s
     \/ work = Paused3(s) /\ row.stage = s /\ row.status = "awaiting_approval"
     \/ /\ work = Paused4(s) /\ row.stage = s
        /\ row.status = "awaiting_approval" /\ row.gates[s] = "pending"
Failing(s) ==
  /\ at = 0
  /\ \/ work = FailedAt(s) /\ RowReady(s)
     \/ work = Failed1(s) /\ row.stage = s /\ row.status = "failed"
     \/ work = Failed2(s) /\ row.stage = s /\ row.status = "failed" /\ row.gates[s] = "failed"
Approving(s) ==
  /\ at = AfterApproval(s) /\ row.stage = s
  /\ \/ work = Approved(s)
     \/ work = Approved1(s) /\ row.status = "running"
     \/ work = Completes(s) /\ s = N /\ row.gates[s] = "approved"
Rejecting(s) ==
  /\ at = (IF s = Scenario THEN 0 ELSE s) /\ row.stage = s
  /\ \/ work = Rejected(s)
     \/ work = Rejected1(s) /\ row.status = "running"
     \/ work = GivesUp(s) /\ s = Scenario /\ row.gates[s] = "rejected"
     \/ work = Failed2(s) /\ s = Scenario /\ row.status = "failed" /\ row.gates[s] = "rejected"
Retrying(s) ==
  /\ at = s
  /\ \E p \in Pages :
       \/ work = Retried(s, p) /\ s <= row.stage
       \/ work \in {Retried1(s, p), Retried2(p)} /\ row.stage = s /\ row.status = "running"

RowInv ==
  /\ row \in Row /\ RowLow
  /\ \/ Awaiting \/ Failed \/ Completed \/ Executing
     \/ \E s \in Stages : Pausing(s) \/ Failing(s) \/ Approving(s) \/ Rejecting(s) \/ Retrying(s)

-----------------------------------------------------------------------------
(* The page. *)

\* What is on its way to the page; that it offers no decision; that it offers none
\* of the stages before a.
Coming(p) == IF conn[p] \in Streams THEN queue[conn[p]] ELSE <<>>
Calm(v) == Decidable(v) = {}
Ready(v, a) == \A t \in Stages : t < a => v.gates[t] # "pending"

\* Nothing but that the stage s runs: it is over only after it was entered.
Leading(q, v, s) ==
  \A i \in DOMAIN q :
    \/ q[i] = Entry(s)
    \/ q[i] = Exit(s) /\ IF i = 1 THEN v.gates[s] # "pending" ELSE q[i - 1] = Entry(s)

\* The page's request.
Asks(p, is) == post[p].is = is
Refused(p) == post[p].is = "answered" /\ ~post[p].ok
Decided(p, s) ==
  /\ post[p].is = "answered" /\ post[p].ok /\ post[p].kind \in {"approve", "reject"}
  /\ post[p].stage = s
AsksRetry(p) == post[p].is = "sent" /\ post[p].kind = "retry" /\ post[p].stage <= row.stage
AsksDecision(p) == post[p].is = "sent" /\ post[p].kind # "retry" /\ post[p].stage = row.stage
Idle(p) == Asks(p, "none") \/ Refused(p)

\* The page shows the gate of s and has been, or will be, told of its decision.
Stands(p, s) == view[p].status = "awaiting_approval" /\ view[p].stage = s /\ Ready(view[p], s)

\* What the page shows and is still to hear in each phase.
SeesAwaiting(p) ==
  LET s == row.stage IN
  \/ /\ Coming(p) = <<>> /\ Stands(p, s) /\ view[p].gates[s] = "pending"
     /\ Idle(p) \/ AsksRetry(p) \/ AsksDecision(p)
  \/ /\ Ready(view[p], s) /\ Calm(view[p]) /\ Asks(p, "none")
     /\ \E l \in Seq(Event) :
          /\ Leading(l, view[p], s) /\ Coming(p) = Append(l, Gate(s))
          /\ l = <<>> => view[p].stage = s
SeesFailed(p) ==
  LET s == row.stage IN
  \/ /\ Coming(p) = <<>> /\ Ready(view[p], s)
     /\ view[p].status = "failed" /\ view[p].stage = s /\ view[p].gates[s] \in Retryable
     /\ Idle(p) \/ AsksRetry(p) \/ Decided(p, s)
  \/ Coming(p) = <<Fail(s)>> /\ Stands(p, s) /\ Decided(p, s)
  \/ /\ Ready(view[p], s) /\ Calm(view[p]) /\ Asks(p, "none")
     /\ \E l \in Seq(Event) : Leading(l, view[p], s) /\ Coming(p) = Append(l, Fail(s))
SeesCompleted(p) ==
  /\ Coming(p) = <<>> /\ Ready(view[p], N)
  /\ \/ Decided(p, N) /\ Stands(p, N)
     \/ Calm(view[p]) /\ (Idle(p) \/ AsksRetry(p))
SeesExecuting(p) ==
  \/ Coming(p) = <<>> /\ row.stage # 0 /\ Stands(p, row.stage) /\ Decided(p, row.stage)
  \/ /\ Leading(Coming(p), view[p], at) /\ Ready(view[p], at)
     /\ \/ Calm(view[p]) /\ (Idle(p) \/ Asks(p, "sent"))
        \/ post[p].is = "answered" /\ post[p].ok /\ post[p].kind = "retry" /\ post[p].stage = at
SeesEnding(p, s) ==
  /\ Leading(Coming(p), view[p], s) /\ Ready(view[p], s) /\ Calm(view[p]) /\ Asks(p, "none")
SeesPausing(p, s) ==
  /\ SeesEnding(p, s)
  /\ work \in {Paused2(s), Paused3(s), Paused4(s)} /\ Coming(p) = <<>> => view[p].stage = s
SeesDecided(p, s) ==
  /\ Coming(p) = <<>> /\ Stands(p, s)
  /\ Decided(p, s) \/ (Asks(p, "none") /\ view[p].gates[s] # "pending")
SeesRetrying(p, s) ==
  /\ post[p].is = "taken" /\ post[p].kind = "retry" /\ post[p].stage = s
  /\ Leading(Coming(p), view[p], s) /\ Ready(view[p], s)

Follows(p) ==
  \/ Awaiting /\ SeesAwaiting(p)
  \/ Failed /\ SeesFailed(p)
  \/ Completed /\ SeesCompleted(p)
  \/ Executing /\ SeesExecuting(p)
  \/ \E s \in Stages :
       \/ Pausing(s) /\ SeesPausing(p, s)
       \/ Failing(s) /\ SeesEnding(p, s)
       \/ (Approving(s) \/ Rejecting(s)) /\ SeesDecided(p, s)
       \/ Retrying(s) /\ SeesRetrying(p, s)

\* The tab is closed; it is loading, and the row waits for that; it shows the run.
Away(p) == conn[p] = "closed" /\ get[p].is = "none" /\ post[p] = NoPost /\ view[p] = Unread
Loads(p) ==
  /\ conn[p] # "closed" /\ get[p].is # "none" /\ post[p] = NoPost /\ view[p] = Unread
  /\ Coming(p) = <<>> /\ (Awaiting \/ Failed \/ Completed \/ (Executing /\ row.stage = 0))
  /\ get[p].is = "answered" => get[p].row = row
Shows(p) == conn[p] # "closed" /\ get[p].is = "none" /\ view[p].status # "unread" /\ Follows(p)
PageInv == \A p \in Pages : Away(p) \/ Loads(p) \/ Shows(p)

\* A stream is live as long as its page reads it, and then it is the registered one.
LinkInv ==
  /\ view \in [Pages -> Row] /\ get \in [Pages -> Get]
  /\ conn \in [Pages -> Streams \cup {"closed", "opening"}]
  /\ \A g \in Streams : stream[g] = "free" => queue[g] = <<>>
  /\ \A g \in Streams : stream[g] = "live" => registered = g /\ \E p \in Pages : conn[p] = g
  /\ \A p \in Pages : post[p].is = "sent" => ~post[p].ok /\ post[p].stage \in Stages
  /\ \A p \in Pages : conn[p] \in Streams => stream[conn[p]] = "live"

-----------------------------------------------------------------------------
(* The driver's lists, written out. *)

LEMMA JoinedTuples ==
  ASSUME NEW S, NEW s \in Seq(S), NEW t \in Seq(S), NEW u \in Seq(S), Len(u) = Len(s) + Len(t),
         \A i \in 1 .. Len(u) : u[i] = IF i <= Len(s) THEN s[i] ELSE t[i - Len(s)]
  PROVE  s \o t = u
<1>1. /\ s \o t \in Seq(S) /\ Len(s \o t) = Len(u)
      /\ \A i \in 1 .. Len(u) : (s \o t)[i] = u[i]
  BY ConcatProperties
<1> QED  BY <1>1, SeqEqual

LEMMA OneAndOne ==
  ASSUME NEW a, NEW c PROVE <<a>> \o <<c>> = <<a, c>>
<1> SUFFICES ASSUME NEW s, NEW t, NEW u, s = <<a>>, t = <<c>>, u = <<a, c>> PROVE s \o t = u
  OBVIOUS
<1>1. s \in Seq({a, c}) /\ t \in Seq({a, c}) /\ u \in Seq({a, c}) /\ Len(u) = Len(s) + Len(t)
      /\ \A i \in 1 .. Len(u) : u[i] = IF i <= Len(s) THEN s[i] ELSE t[i - Len(s)]
  OBVIOUS
<1> QED  BY <1>1, JoinedTuples

LEMMA TwoAndOne ==
  ASSUME NEW a, NEW b, NEW c PROVE <<a, b>> \o <<c>> = <<a, b, c>>
<1> SUFFICES ASSUME NEW s, NEW t, NEW u, s = <<a, b>>, t = <<c>>, u = <<a, b, c>> PROVE s \o t = u
  OBVIOUS
<1>1. s \in Seq({a, b, c}) /\ t \in Seq({a, b, c}) /\ u \in Seq({a, b, c}) /\ Len(u) = Len(s) + Len(t)
      /\ \A i \in 1 .. Len(u) : u[i] = IF i <= Len(s) THEN s[i] ELSE t[i - Len(s)]
  OBVIOUS
<1> QED  BY <1>1, JoinedTuples

LEMMA OneAndTwo ==
  ASSUME NEW a, NEW c, NEW d PROVE <<a>> \o <<c, d>> = <<a, c, d>>
<1> SUFFICES ASSUME NEW s, NEW t, NEW u, s = <<a>>, t = <<c, d>>, u = <<a, c, d>> PROVE s \o t = u
  OBVIOUS
<1>1. s \in Seq({a, c, d}) /\ t \in Seq({a, c, d}) /\ u \in Seq({a, c, d}) /\ Len(u) = Len(s) + Len(t)
      /\ \A i \in 1 .. Len(u) : u[i] = IF i <= Len(s) THEN s[i] ELSE t[i - Len(s)]
  OBVIOUS
<1> QED  BY <1>1, JoinedTuples

LEMMA TwoAndTwo ==
  ASSUME NEW a, NEW b, NEW c, NEW d PROVE <<a, b>> \o <<c, d>> = <<a, b, c, d>>
<1> SUFFICES ASSUME NEW s, NEW t, NEW u, s = <<a, b>>, t = <<c, d>>, u = <<a, b, c, d>> PROVE s \o t = u
  OBVIOUS
<1> DEFINE S == {a, b, c, d}
<1>1. s \in Seq(S) /\ t \in Seq(S) /\ u \in Seq(S) /\ Len(u) = Len(s) + Len(t)
      /\ \A i \in 1 .. Len(u) : u[i] = IF i <= Len(s) THEN s[i] ELSE t[i - Len(s)]
  OBVIOUS
<1> HIDE DEF S
<1> QED  BY <1>1, JoinedTuples

LEMMA JoinedNone ==
  ASSUME NEW a, NEW b
  PROVE  <<a>> \o <<>> = <<a>> /\ <<a, b>> \o <<>> = <<a, b>>
<1>1. <<a>> \in Seq({a, b}) /\ <<a, b>> \in Seq({a, b})
  OBVIOUS
<1> QED  BY <1>1, ConcatEmptySeq

LEMMA ApprovedLists ==
  ASSUME NEW s
  PROVE  /\ Approved(s) # <<>> /\ Head(Approved(s)) = Write("running", 0) /\ Tail(Approved(s)) = Approved1(s)
         /\ Approved1(s) # <<>> /\ Head(Approved1(s)) = Mirror(s, "approved") /\ Tail(Approved1(s)) = Completes(s)
         /\ s = N => /\ Completes(s) # <<>> /\ Head(Completes(s)) = Write("complete", 0)
                     /\ Tail(Completes(s)) = <<>>
         /\ s # N => Completes(s) = <<>>
<1>1. CASE s = N
  <2>1. Completes(s) = <<Write("complete", 0)>>
    BY <1>1 DEF Completes
  <2>2. Approved(s) = <<Write("running", 0), Mirror(s, "approved"), Write("complete", 0)>>
        /\ Approved1(s) = <<Mirror(s, "approved"), Write("complete", 0)>>
    <3>1. Approved(s) = <<Write("running", 0), Mirror(s, "approved")>> \o <<Write("complete", 0)>>
          /\ Approved1(s) = <<Mirror(s, "approved")>> \o <<Write("complete", 0)>>
      BY <1>1, <2>1 DEF Approved, Approved1
    <3> QED  BY <3>1, OneAndOne, TwoAndOne
  <2> QED  BY <1>1, <2>1, <2>2
<1>2. CASE s # N
  <2>1. Completes(s) = <<>>
    BY <1>2 DEF Completes
  <2>2. Approved(s) = <<Write("running", 0), Mirror(s, "approved")>> /\ Approved1(s) = <<Mirror(s, "approved")>>
    BY <1>2, <2>1, JoinedNone DEF Approved, Approved1
  <2> QED  BY <1>2, <2>1, <2>2
<1> QED  BY <1>1, <1>2

LEMMA RejectedLists ==
  ASSUME NEW s
  PROVE  /\ Rejected(s) # <<>> /\ Head(Rejected(s)) = Write("running", 0) /\ Tail(Rejected(s)) = Rejected1(s)
         /\ Rejected1(s) # <<>> /\ Head(Rejected1(s)) = Mirror(s, "rejected") /\ Tail(Rejected1(s)) = GivesUp(s)
         /\ s = Scenario => /\ GivesUp(s) # <<>> /\ Head(GivesUp(s)) = Write("failed", 0)
                            /\ Tail(GivesUp(s)) = Failed2(s)
         /\ s # Scenario => GivesUp(s) = <<>>
<1>1. CASE s = Scenario
  <2>1. GivesUp(s) = <<Write("failed", 0), Publish("run_failed", s)>>
    BY <1>1 DEF GivesUp
  <2>2. Rejected(s) = <<Write("running", 0), Mirror(s, "rejected"), Write("failed", 0), Publish("run_failed", s)>>
        /\ Rejected1(s) = <<Mirror(s, "rejected"), Write("failed", 0), Publish("run_failed", s)>>
    <3>1. /\ Rejected(s) = <<Write("running", 0), Mirror(s, "rejected")>>
                            \o <<Write("failed", 0), Publish("run_failed", s)>>
          /\ Rejected1(s) = <<Mirror(s, "rejected")>> \o <<Write("failed", 0), Publish("run_failed", s)>>
      BY <1>1, <2>1 DEF Rejected, Rejected1
    <3> QED  BY <3>1, OneAndTwo, TwoAndTwo
  <2> QED  BY <1>1, <2>1, <2>2 DEF Failed2
<1>2. CASE s # Scenario
  <2>1. GivesUp(s) = <<>>
    BY <1>2 DEF GivesUp
  <2>2. Rejected(s) = <<Write("running", 0), Mirror(s, "rejected")>> /\ Rejected1(s) = <<Mirror(s, "rejected")>>
    BY <1>2, <2>1, JoinedNone DEF Rejected, Rejected1
  <2> QED  BY <1>2, <2>1, <2>2
<1> QED  BY <1>1, <1>2

\* A stage runs whose lists are of different lengths.
LEMMA ListsDiffer ==
  ASSUME NEW s, NEW t
  PROVE  /\ Paused(s) \notin {Paused2(t), Paused3(t), Paused4(t)}
         /\ Paused1(s) \notin {Paused2(t), Paused3(t), Paused4(t)}
  BY DEF Paused, Paused1, Paused2, Paused3, Paused4

-----------------------------------------------------------------------------
(* What the page makes of events and answers. *)

LEMMA StageBounds ==
  /\ N \in Nat \ {0} /\ Scenario = 1 /\ Scenario \in Stages /\ 0 \notin Stages /\ N \in Stages
  /\ \A s \in Stages : s \in Nat /\ s >= 1 /\ s <= N
  /\ \A s \in Stages : s # N => s + 1 \in Stages
  BY StagesAssumption DEF Stages, Scenario

\* What the page makes of an event.
LEMMA GateSet ==
  ASSUME NEW v \in Row, NEW s \in Stages, NEW x \in GateState, NEW st \in RunStatus, NEW n \in 0 .. N
  PROVE  LET u == [status |-> st, stage |-> n, gates |-> [v.gates EXCEPT ![s] = x]] IN
         /\ u \in Row /\ u.status = st /\ u.stage = n /\ u.gates[s] = x
         /\ \A t \in Stages : t # s => u.gates[t] = v.gates[t]
<1>1. v.gates \in [Stages -> GateState]
  BY DEF Row
<1>2. [v.gates EXCEPT ![s] = x] \in [Stages -> GateState]
  BY <1>1
<1> QED  BY <1>1, <1>2 DEF Row

LEMMA MarkFacts ==
  ASSUME NEW v \in Row, NEW s \in Stages
  PROVE  LET u == MarkRunning(v, s) IN
         /\ u \in Row /\ u.status = "running" /\ u.stage = s /\ u.gates[s] = "n/a"
         /\ \A t \in Stages : t # s => u.gates[t] = v.gates[t]
<1>1. "running" \in RunStatus /\ "n/a" \in GateState /\ s \in 0 .. N
  BY StageBounds DEF RunStatus, GateState, Stages
<1> SUFFICES ASSUME NEW u, u = MarkRunning(v, s)
             PROVE  /\ u \in Row /\ u.status = "running" /\ u.stage = s /\ u.gates[s] = "n/a"
                    /\ \A t \in Stages : t # s => u.gates[t] = v.gates[t]
  OBVIOUS
<1>2. u = [status |-> "running", stage |-> s, gates |-> [v.gates EXCEPT ![s] = "n/a"]]
  BY DEF MarkRunning, Row
<1> QED  BY <1>1, <1>2, GateSet

LEMMA ExitFacts ==
  ASSUME NEW v \in Row, v.status # "unread", NEW s \in Stages
  PROVE  LET u == Applied(v, Exit(s)) IN
         /\ u \in Row /\ u.status = "running" /\ u.stage = s /\ u.gates = v.gates
<1>1. "running" \in RunStatus /\ s \in 0 .. N
  BY StageBounds DEF RunStatus, Stages
<1>2. Applied(v, Exit(s)) = [status |-> "running", stage |-> s, gates |-> v.gates]
  BY DEF Applied, Exit, Ev, Row
<1> QED  BY <1>1, <1>2 DEF Row

LEMMA EntryFacts ==
  ASSUME NEW v \in Row, v.status # "unread", NEW s \in Stages
  PROVE  Applied(v, Entry(s)) = MarkRunning(v, s)
  BY DEF Applied, Entry, Ev

LEMMA GateFacts ==
  ASSUME NEW v \in Row, v.status # "unread", NEW s \in Stages
  PROVE  LET u == Applied(v, Gate(s)) IN
         /\ u \in Row /\ u.status = "awaiting_approval" /\ u.stage = v.stage /\ u.gates[s] = "pending"
         /\ \A t \in Stages : t # s => u.gates[t] = v.gates[t]
<1>1. "awaiting_approval" \in RunStatus /\ "pending" \in GateState /\ v.stage \in 0 .. N
  BY DEF RunStatus, GateState, Row
<1>2. Applied(v, Gate(s)) =
        [status |-> "awaiting_approval", stage |-> v.stage, gates |-> [v.gates EXCEPT ![s] = "pending"]]
  BY DEF Applied, Gate, Ev, Row
<1> QED  BY <1>1, <1>2, GateSet

LEMMA FailFacts ==
  ASSUME NEW v \in Row, v.status # "unread", NEW s \in Stages
  PROVE  LET u == Applied(v, Fail(s)) IN
         /\ u \in Row /\ u.status = "failed" /\ u.stage = s /\ u.gates[s] = "failed"
         /\ \A t \in Stages : t # s => u.gates[t] = v.gates[t]
<1>1. "failed" \in RunStatus /\ "failed" \in GateState /\ s \in 0 .. N
  BY StageBounds DEF RunStatus, GateState, Stages
<1>2. Applied(v, Fail(s)) =
        [status |-> "failed", stage |-> s, gates |-> [v.gates EXCEPT ![s] = "failed"]]
  BY DEF Applied, Fail, Ev, Row
<1> QED  BY <1>1, <1>2, GateSet

\* What it makes of an answer.
LEMMA DecidedFacts ==
  ASSUME NEW v \in Row, v.status # "unread", NEW q \in Post, q.ok, q.kind \in {"approve", "reject"},
         q.stage \in Stages
  PROVE  LET u == Answered(v, q) IN
         /\ u \in Row /\ u.status = v.status /\ u.stage = v.stage
         /\ u.gates[q.stage] \in {"approved", "rejected"}
         /\ \A t \in Stages : t # q.stage => u.gates[t] = v.gates[t]
  BY StageBounds DEF Answered, Row, RunStatus, GateState, Stages

LEMMA RefusedFacts ==
  ASSUME NEW v, NEW q, ~q.ok PROVE Answered(v, q) = v
  BY DEF Answered

LEMMA RetriedFacts ==
  ASSUME NEW v, v.status # "unread", NEW q, q.ok, q.kind = "retry"
  PROVE  Answered(v, q) = MarkRunning(v, q.stage)
  BY DEF Answered

LEMMA EventsDiffer ==
  ASSUME NEW s, NEW t
  PROVE  /\ Entry(s) # Exit(t) /\ Entry(s) # Gate(t) /\ Entry(s) # Fail(t) /\ Exit(s) # Gate(t)
         /\ Exit(s) # Fail(t) /\ Gate(s) # Fail(t)
         /\ Close \notin {Entry(s), Exit(s), Gate(s), Fail(s)}
         /\ Entry(s).kind # "run_failed" /\ Exit(s).kind # "run_failed" /\ Gate(s).kind # "run_failed"
         /\ Fail(s).kind = "run_failed"
         /\ Entry(s) = Entry(t) => s = t
         /\ Exit(s) = Exit(t) => s = t
  BY DEF Entry, Exit, Gate, Fail, Ev, Close

LEMMA EventsAre ==
  ASSUME NEW s \in Stages
  PROVE  {Entry(s), Exit(s), Gate(s), Fail(s)} \subseteq Event
  BY StageBounds DEF Entry, Exit, Gate, Fail, Ev, Event, EventKinds, Stages

-----------------------------------------------------------------------------
LEMMA NothingPending ==
  ASSUME NEW v \in Row, v.status # "complete", Ready(v, v.stage),
         v.stage \in Stages => v.gates[v.stage] # "pending"
  PROVE  Calm(v)
<1> SUFFICES ASSUME NEW t \in 1 .. v.stage, v.gates[t] = "pending" PROVE FALSE
  BY DEF Calm, Decidable, Reached
<1>1. v.stage \in 0 .. N /\ N \in Nat
  BY StageBounds DEF Row
<1>2. t \in Stages /\ t <= v.stage /\ (t = v.stage \/ t < v.stage)
  BY <1>1 DEF Stages
<1> QED  BY <1>2 DEF Ready

LEMMA CalmReached ==
  ASSUME NEW v, Calm(v), NEW t \in Reached(v) PROVE v.gates[t] # "pending"
  BY DEF Calm, Decidable

\* A stage's first events.
LEMMA LeadTaken ==
  ASSUME NEW q \in Seq(Event), q # <<>>, NEW v \in Row, v.status # "unread", NEW s \in Stages,
         Leading(q, v, s), Ready(v, s)
  PROVE  LET u == Applied(v, Head(q)) IN
         /\ Head(q) \in {Entry(s), Exit(s)} /\ u \in Row /\ u.status = "running" /\ u.stage = s
         /\ Ready(u, s) /\ u.gates[s] # "pending" /\ Calm(u)
         /\ Leading(Tail(q), u, s)
<1> DEFINE u == Applied(v, Head(q))
<1>1. /\ Head(q) = q[1] /\ Len(q) \in Nat /\ DOMAIN q = 1 .. Len(q) /\ 1 \in DOMAIN q
      /\ Tail(q) \in Seq(Event) /\ Len(Tail(q)) = Len(q) - 1
      /\ \A i \in 1 .. Len(Tail(q)) : Tail(q)[i] = q[i + 1]
  BY HeadTailProperties, LenProperties, EmptySeq
<1>2. Head(q) = Entry(s) \/ (Head(q) = Exit(s) /\ v.gates[s] # "pending")
  BY <1>1 DEF Leading
<1>3. /\ u \in Row /\ u.status = "running" /\ u.stage = s
      /\ u.gates[s] # "pending" /\ \A t \in Stages : t # s => u.gates[t] = v.gates[t]
  <2>1. CASE Head(q) = Entry(s)
    BY <2>1, EntryFacts, MarkFacts
  <2>2. CASE Head(q) = Exit(s) /\ v.gates[s] # "pending"
    BY <2>2, ExitFacts
  <2> QED  BY <1>2, <2>1, <2>2
<1>4. Ready(u, s)
  <2> SUFFICES ASSUME NEW t \in Stages, t < s PROVE u.gates[t] # "pending"
    BY DEF Ready
  <2>1. t # s
    BY StageBounds
  <2> QED  BY <1>3, <2>1 DEF Ready
<1>5. Calm(u)
  BY <1>3, <1>4, NothingPending
<1>6. Leading(Tail(q), u, s)
  <2> SUFFICES ASSUME NEW i \in DOMAIN Tail(q) PROVE
        \/ Tail(q)[i] = Entry(s)
        \/ Tail(q)[i] = Exit(s) /\ IF i = 1 THEN u.gates[s] # "pending" ELSE Tail(q)[i - 1] = Entry(s)
    BY DEF Leading
  <2>1. DOMAIN Tail(q) = 1 .. Len(Tail(q))
    BY <1>1, LenProperties
  <2>2. /\ i + 1 \in DOMAIN q /\ i + 1 # 1 /\ (i + 1) - 1 = i /\ Tail(q)[i] = q[i + 1]
        /\ i # 1 => i - 1 \in 1 .. Len(Tail(q)) /\ (i - 1) + 1 = i
    BY <1>1, <2>1
  <2>3. q[i + 1] = Entry(s) \/ (q[i + 1] = Exit(s) /\ q[i] = Entry(s))
    BY <2>2 DEF Leading
  <2>4. i # 1 => Tail(q)[i - 1] = q[i]
    BY <1>1, <2>2
  <2> QED  BY <1>3, <2>2, <2>3, <2>4
<1> HIDE DEF u
<1> QED  BY <1>2, <1>3, <1>4, <1>5, <1>6 DEF u

LEMMA LeadNone == ASSUME NEW v, NEW s PROVE Leading(<<>>, v, s)
  BY DEF Leading

LEMMA LeadKept ==
  ASSUME NEW q, NEW v, NEW u, NEW s, Leading(q, v, s), u.gates[s] # "pending"
  PROVE  Leading(q, u, s)
  BY DEF Leading

\* What the driver publishes of a stage follows.
LEMMA AppendFacts ==
  ASSUME NEW q \in Seq(Event), NEW e \in Event
  PROVE  LET r == Append(q, e) IN
         /\ r \in Seq(Event) /\ r # <<>> /\ Len(q) \in Nat /\ Len(r) = Len(q) + 1
         /\ DOMAIN q = 1 .. Len(q) /\ DOMAIN r = 1 .. Len(q) + 1
         /\ r[Len(q) + 1] = e /\ \A i \in 1 .. Len(q) : r[i] = q[i]
<1>1. Append(q, e) \in Seq(Event) /\ Len(Append(q, e)) = Len(q) + 1 /\ Len(q) \in Nat
      /\ Append(q, e)[Len(q) + 1] = e /\ \A i \in 1 .. Len(q) : Append(q, e)[i] = q[i]
  BY AppendProperties, LenProperties
<1>2. DOMAIN q = 1 .. Len(q) /\ DOMAIN Append(q, e) = 1 .. Len(q) + 1
  BY <1>1, LenProperties
<1>3. Append(q, e) # <<>>
  BY AppendProperties
<1> QED  BY <1>1, <1>2, <1>3

LEMMA LeadEntered ==
  ASSUME NEW q \in Seq(Event), NEW v, NEW s \in Stages, Leading(q, v, s)
  PROVE  Leading(Append(q, Entry(s)), v, s)
<1> DEFINE r == Append(q, Entry(s))
<1>1. /\ Len(q) \in Nat /\ DOMAIN q = 1 .. Len(q) /\ DOMAIN r = 1 .. Len(q) + 1
      /\ r[Len(q) + 1] = Entry(s) /\ \A i \in 1 .. Len(q) : r[i] = q[i]
  BY AppendFacts, EventsAre
<1> HIDE DEF r
<1>2. Leading(r, v, s)
  <2> SUFFICES ASSUME NEW i \in 1 .. Len(q) + 1 PROVE
        \/ r[i] = Entry(s)
        \/ r[i] = Exit(s) /\ IF i = 1 THEN v.gates[s] # "pending" ELSE r[i - 1] = Entry(s)
    BY <1>1 DEF Leading
  <2>1. CASE i = Len(q) + 1
    BY <1>1, <2>1
  <2>2. CASE i \in 1 .. Len(q)
    <3>1. i # 1 => i - 1 \in 1 .. Len(q)
      BY <1>1, <2>2
    <3> QED  BY <1>1, <2>2, <3>1 DEF Leading
  <2> QED  BY <1>1, <2>1, <2>2
<1> QED  BY <1>2 DEF r

LEMMA LeadLeft ==
  ASSUME NEW q \in Seq(Event), NEW v, NEW s \in Stages, Leading(q, v, s)
  PROVE  LET r == q \o <<Entry(s), Exit(s)>> IN r \in Seq(Event) /\ r # <<>> /\ Leading(r, v, s)
<1> DEFINE m == Append(q, Entry(s))
           r == Append(m, Exit(s))
<1>1. m \in Seq(Event) /\ m # <<>> /\ Leading(m, v, s) /\ m[Len(m)] = Entry(s) /\ Len(m) > 0
  BY AppendFacts, EventsAre, LeadEntered
<1>2. r = q \o <<Entry(s), Exit(s)>>
  <2>1. <<Entry(s)>> \in Seq(Event) /\ <<Exit(s)>> \in Seq(Event)
    BY EventsAre
  <2>2. m = q \o <<Entry(s)>> /\ r = m \o <<Exit(s)>>
    BY <1>1, EventsAre, AppendIsConcat
  <2>3. r = q \o (<<Entry(s)>> \o <<Exit(s)>>)
    BY <2>1, <2>2, ConcatAssociative
  <2> QED  BY <2>3, OneAndOne
<1> HIDE DEF m
<1>3. /\ Len(m) \in Nat /\ DOMAIN m = 1 .. Len(m) /\ DOMAIN r = 1 .. Len(m) + 1
      /\ r \in Seq(Event) /\ r # <<>>
      /\ r[Len(m) + 1] = Exit(s) /\ \A i \in 1 .. Len(m) : r[i] = m[i]
  BY <1>1, AppendFacts, EventsAre
<1> HIDE DEF r
<1>4. Leading(r, v, s)
  <2> SUFFICES ASSUME NEW i \in 1 .. Len(m) + 1 PROVE
        \/ r[i] = Entry(s)
        \/ r[i] = Exit(s) /\ IF i = 1 THEN v.gates[s] # "pending" ELSE r[i - 1] = Entry(s)
    BY <1>3 DEF Leading
  <2>1. CASE i = Len(m) + 1
    <3>1. i # 1 /\ i - 1 = Len(m) /\ Len(m) \in 1 .. Len(m)
      BY <1>1, <1>3, <2>1
    <3> QED  BY <1>1, <1>3, <2>1, <3>1
  <2>2. CASE i \in 1 .. Len(m)
    <3>1. i # 1 => i - 1 \in 1 .. Len(m)
      BY <1>3, <2>2
    <3>2. m[i] = Entry(s) \/ (m[i] = Exit(s) /\ IF i = 1 THEN v.gates[s] # "pending" ELSE m[i - 1] = Entry(s))
      BY <1>1, <1>3, <2>2 DEF Leading
    <3> QED  BY <1>3, <2>2, <3>1, <3>2
  <2> QED  BY <1>3, <2>1, <2>2
<1> QED  BY <1>2, <1>3, <1>4

\* What is left of a list that ends in a gate or a failure.
LEMMA LastTaken ==
  ASSUME NEW l \in Seq(Event), NEW e \in Event
  PROVE  /\ l = <<>> => Head(Append(l, e)) = e /\ Tail(Append(l, e)) = <<>>
         /\ l # <<>> => /\ Head(Append(l, e)) = Head(l) /\ Tail(Append(l, e)) = Append(Tail(l), e)
                        /\ Tail(l) \in Seq(Event)
<1>1. CASE l = <<>>
  <2>1. Append(l, e) = <<e>>
    BY <1>1
  <2> QED  BY <1>1, <2>1
<1>2. CASE l # <<>>
  BY <1>2, HeadTailAppend, HeadTailProperties
<1> QED  BY <1>1, <1>2

-----------------------------------------------------------------------------
(* The driver goes on, from phase to phase. *)

\* What the order the driver performs publishes.
Published == IF Head(work).op = "publish" THEN Events(Head(work)) ELSE <<>>

-----------------------------------------------------------------------------
(* What one step of the driver writes and publishes. *)

LEMMA RowWritten ==
  ASSUME NEW r \in Row, row = r, NEW st \in RunStatus, NEW n \in 0 .. N
  PROVE  LET u == Written(Write(st, n)) IN
         /\ u \in Row /\ u.status = st /\ u.stage = (IF n = 0 THEN r.stage ELSE n) /\ u.gates = r.gates
<1> SUFFICES ASSUME NEW u, u = Written(Write(st, n))
    PROVE /\ u \in Row /\ u.status = st /\ u.stage = (IF n = 0 THEN r.stage ELSE n) /\ u.gates = r.gates
  OBVIOUS
<1>1. u = [r EXCEPT !.status = st, !.stage = IF n = 0 THEN @ ELSE n]
  BY DEF Written, Write, Op
<1>2. u = [status |-> st, stage |-> IF n = 0 THEN r.stage ELSE n, gates |-> r.gates]
  BY <1>1 DEF Row
<1> QED  BY <1>2 DEF Row

LEMMA GateWritten ==
  ASSUME NEW r \in Row, row = r, NEW x \in GateState, NEW s \in Stages
  PROVE  LET u == Written(Mirror(s, x)) IN
         /\ u \in Row /\ u.status = r.status /\ u.stage = r.stage /\ u.gates[s] = x
         /\ \A t \in Stages : t # s => u.gates[t] = r.gates[t]
<1> SUFFICES ASSUME NEW u, u = Written(Mirror(s, x))
    PROVE /\ u \in Row /\ u.status = r.status /\ u.stage = r.stage /\ u.gates[s] = x
          /\ \A t \in Stages : t # s => u.gates[t] = r.gates[t]
  OBVIOUS
<1>1. u = [r EXCEPT !.gates[s] = x]
  BY DEF Written, Mirror, Op
<1>2. u = [status |-> r.status, stage |-> r.stage, gates |-> [r.gates EXCEPT ![s] = x]]
  BY <1>1 DEF Row
<1>3. r.status \in RunStatus /\ r.stage \in 0 .. N
  BY DEF Row
<1> QED  BY <1>2, <1>3, GateSet

LEMMA ResetWritten ==
  ASSUME NEW r \in Row, row = r, NEW s \in Stages
  PROVE  LET u == Written(Reset(s)) IN
         /\ u \in Row /\ u.status = "running" /\ u.stage = s
         /\ \A t \in Stages : t < s => u.gates[t] = r.gates[t]
<1> SUFFICES ASSUME NEW u, u = Written(Reset(s))
    PROVE /\ u \in Row /\ u.status = "running" /\ u.stage = s
          /\ \A t \in Stages : t < s => u.gates[t] = r.gates[t]
  OBVIOUS
<1> DEFINE g == [t \in Stages |-> IF t >= s THEN "pending" ELSE r.gates[t]]
<1>1. u = [status |-> "running", stage |-> s, gates |-> g]
  BY DEF Written, Reset, Op
<1>2. r.gates \in [Stages -> GateState] /\ "pending" \in GateState
  BY DEF Row, GateState
<1>3. g \in [Stages -> GateState]
  BY <1>2
<1>4. \A t \in Stages : t < s => g[t] = r.gates[t]
  BY StageBounds
<1> HIDE DEF g
<1>5. "running" \in RunStatus /\ s \in 0 .. N
  BY StageBounds DEF RunStatus, Stages
<1> QED  BY <1>1, <1>3, <1>4, <1>5 DEF Row

LEMMA StatusesAre ==
  /\ {"running", "awaiting_approval", "failed", "complete"} \subseteq RunStatus
  /\ {"pending", "approved", "rejected", "failed"} \subseteq GateState
  /\ \A s \in Stages : s \in 0 .. N /\ s # 0
  /\ 0 \in 0 .. N
  BY StageBounds DEF RunStatus, GateState, Stages

LEMMA Performed ==
  ASSUME Perform, RowInv
  PROVE  /\ work # <<>> /\ work' = Tail(work) /\ row' = Written(Head(work)) /\ at' = at
         /\ row \in Row /\ RowLow
  BY DEF Perform, RowInv

LEMMA Quiets ==
  ASSUME NEW st, NEW n, Head(work) \in {Write(st, n), Mirror(n, st), Reset(n)} PROVE Published = <<>>
  BY DEF Published, Write, Mirror, Reset, Op

LEMMA Loud ==
  ASSUME NEW s
  PROVE  /\ Head(work) = Publish("stage_exit", s) => Published = <<Entry(s), Exit(s)>> /\ Written(Head(work)) = row
         /\ Head(work) = Publish("gate_pending", s) => Published = <<Gate(s)>> /\ Written(Head(work)) = row
         /\ Head(work) = Publish("run_failed", s) => Published = <<Fail(s)>> /\ Written(Head(work)) = row
         /\ Head(work) = Publish("stage_entry", s) => Published = <<Entry(s)>> /\ Written(Head(work)) = row
<1> DEFINE P(k) == Publish(k, s)
<1>1. \A k : P(k).op = "publish" /\ P(k).to = k /\ P(k).stage = s
  BY DEF Publish, Op
<1>2. \A k : Written(P(k)) = row
  BY <1>1 DEF Written
<1>3. /\ Events(P("stage_exit")) = <<Entry(s), Exit(s)>> /\ Events(P("gate_pending")) = <<Gate(s)>>
      /\ Events(P("run_failed")) = <<Fail(s)>> /\ Events(P("stage_entry")) = <<Entry(s)>>
  BY <1>1 DEF Events, Entry, Exit, Gate, Fail
<1> QED  BY <1>1, <1>2, <1>3 DEF Published

\* The row of a stage that begins, or goes on, is low of it.
LEMMA LowEnough ==
  ASSUME NEW s \in Stages, row \in Row, RowLow, RowReady(s)
  PROVE  \A t \in Stages : t < s => row.gates[t] = "approved"
<1> SUFFICES ASSUME NEW t \in Stages, t < s PROVE row.gates[t] = "approved"
  OBVIOUS
<1>1. row.stage \in 0 .. N
  BY DEF Row
<1>2. t >= 1 /\ t \in Nat /\ s \in Nat
  BY StageBounds
<1>3. CASE row.stage = 0 /\ s = Scenario
  BY <1>2, <1>3 DEF Scenario
<1>4. CASE row.stage = s
  BY <1>4 DEF RowLow
<1>5. CASE s = row.stage + 1 /\ row.gates[row.stage] = "approved"
  <2>1. t < row.stage \/ t = row.stage
    BY <1>1, <1>2, <1>5
  <2> QED  BY <1>5, <2>1 DEF RowLow
<1> QED  BY <1>3, <1>4, <1>5 DEF RowReady

\* From each phase the driver goes to the next, one order at a time, and this is
\* what it publishes as it goes.
LEMMA PausingOn ==
  ASSUME NEW s \in Stages, RowInv, Pausing(s), Perform
  PROVE  /\ row' \in Row /\ RowLow'
         /\ \/ Pausing(s)' /\ work' = Paused1(s) /\ Published = <<>>
            \/ Pausing(s)' /\ work' = Paused2(s) /\ Published = <<Entry(s), Exit(s)>>
            \/ Pausing(s)' /\ work \in {Paused2(s), Paused3(s)} /\ Published = <<>>
            \/ Awaiting' /\ row'.stage = s /\ work = Paused4(s) /\ Published = <<Gate(s)>>
<1>0. at = 0 /\ at' = 0 /\ work' = Tail(work) /\ row' = Written(Head(work)) /\ row \in Row /\ RowLow
  BY Performed DEF Pausing
<1>1. CASE work = Paused(s) /\ RowReady(s)
  <2>1. Head(work) = Write("running", s) /\ work' = Paused1(s)
    BY <1>0, <1>1 DEF Paused, Paused1
  <2>2. row' \in Row /\ row'.stage = s /\ row'.gates = row.gates /\ Published = <<>>
    BY <1>0, <2>1, RowWritten, StatusesAre, Quiets
  <2>3. RowLow'
    BY <1>0, <1>1, <2>2, LowEnough DEF RowLow
  <2>4. Pausing(s)'
    BY <1>0, <2>1, <2>2 DEF Pausing
  <2> QED  BY <2>1, <2>2, <2>3, <2>4
<1>2. CASE work = Paused1(s) /\ row.stage = s
  <2>1. Head(work) = Publish("stage_exit", s) /\ work' = Paused2(s)
    BY <1>0, <1>2 DEF Paused1, Paused2
  <2>2. row' = row /\ Published = <<Entry(s), Exit(s)>>
    BY <1>0, <2>1, Loud
  <2>3. RowLow' /\ Pausing(s)'
    BY <1>0, <1>2, <2>1, <2>2 DEF RowLow, Pausing
  <2> QED  BY <1>0, <2>1, <2>2, <2>3
<1>3. CASE work = Paused2(s) /\ row.stage = s
  <2>1. Head(work) = Write("awaiting_approval", s) /\ work' = Paused3(s)
    BY <1>0, <1>3 DEF Paused2, Paused3
  <2>2. row' \in Row /\ row'.stage = s /\ row'.status = "awaiting_approval" /\ row'.gates = row.gates
        /\ Published = <<>>
    BY <1>0, <2>1, RowWritten, StatusesAre, Quiets
  <2>3. RowLow' /\ Pausing(s)'
    BY <1>0, <1>3, <2>1, <2>2 DEF RowLow, Pausing
  <2> QED  BY <1>3, <2>2, <2>3
<1>4. CASE work = Paused3(s) /\ row.stage = s /\ row.status = "awaiting_approval"
  <2>1. Head(work) = Mirror(s, "pending") /\ work' = Paused4(s)
    BY <1>0, <1>4 DEF Paused3, Paused4
  <2>2. /\ row' \in Row /\ row'.stage = s /\ row'.status = "awaiting_approval" /\ row'.gates[s] = "pending"
        /\ \A t \in Stages : t # s => row'.gates[t] = row.gates[t]
    BY <1>0, <1>4, <2>1, GateWritten, StatusesAre
  <2>3. Published = <<>>
    BY <2>1, Quiets
  <2>4. RowLow'
    <3> SUFFICES ASSUME NEW t \in Stages, t < row'.stage PROVE row'.gates[t] = "approved"
      BY DEF RowLow
    <3>0. row'.stage = s /\ row.stage = s
      BY <1>4, <2>2
    <3>1. t # s /\ t < row.stage
      BY <3>0, StageBounds
    <3> QED  BY <1>0, <2>2, <3>1 DEF RowLow
  <2>5. Pausing(s)'
    BY <1>0, <2>1, <2>2 DEF Pausing
  <2> QED  BY <1>4, <2>2, <2>3, <2>4, <2>5
<1>5. CASE /\ work = Paused4(s) /\ row.stage = s
           /\ row.status = "awaiting_approval" /\ row.gates[s] = "pending"
  <2>1. Head(work) = Publish("gate_pending", s) /\ work' = <<>>
    BY <1>0, <1>5 DEF Paused4
  <2>2. row' = row /\ Published = <<Gate(s)>>
    BY <1>0, <2>1, Loud
  <2>3. RowLow' /\ Awaiting'
    BY <1>0, <1>5, <2>1, <2>2 DEF RowLow, Awaiting, Stopped
  <2> QED  BY <1>0, <1>5, <2>2, <2>3
<1> QED  BY <1>1, <1>2, <1>3, <1>4, <1>5 DEF Pausing

LEMMA FailingOn ==
  ASSUME NEW s \in Stages, RowInv, Failing(s), Perform
  PROVE  /\ row' \in Row /\ RowLow'
         /\ \/ Failing(s)' /\ Published = <<>>
            \/ Failed' /\ row'.stage = s /\ Published = <<Fail(s)>>
<1>0. at = 0 /\ at' = 0 /\ work' = Tail(work) /\ row' = Written(Head(work)) /\ row \in Row /\ RowLow
  BY Performed DEF Failing
<1>1. CASE work = FailedAt(s) /\ RowReady(s)
  <2>1. Head(work) = Write("failed", s) /\ work' = Failed1(s)
    BY <1>0, <1>1 DEF FailedAt, Failed1
  <2>2. row' \in Row /\ row'.stage = s /\ row'.status = "failed" /\ row'.gates = row.gates /\ Published = <<>>
    BY <1>0, <2>1, RowWritten, StatusesAre, Quiets
  <2>3. RowLow'
    BY <1>0, <1>1, <2>2, LowEnough DEF RowLow
  <2>4. Failing(s)'
    BY <1>0, <2>1, <2>2 DEF Failing
  <2> QED  BY <2>2, <2>3, <2>4
<1>2. CASE work = Failed1(s) /\ row.stage = s /\ row.status = "failed"
  <2>1. Head(work) = Mirror(s, "failed") /\ work' = Failed2(s)
    BY <1>0, <1>2 DEF Failed1, Failed2
  <2>2. /\ row' \in Row /\ row'.stage = s /\ row'.status = "failed" /\ row'.gates[s] = "failed"
        /\ \A t \in Stages : t # s => row'.gates[t] = row.gates[t]
    BY <1>0, <1>2, <2>1, GateWritten, StatusesAre
  <2>3. Published = <<>>
    BY <2>1, Quiets
  <2>4. RowLow'
    <3> SUFFICES ASSUME NEW t \in Stages, t < row'.stage PROVE row'.gates[t] = "approved"
      BY DEF RowLow
    <3>0. row'.stage = s /\ row.stage = s
      BY <1>2, <2>2
    <3>1. t # s /\ t < row.stage
      BY <3>0, StageBounds
    <3> QED  BY <1>0, <2>2, <3>1 DEF RowLow
  <2>5. Failing(s)'
    BY <1>0, <2>1, <2>2 DEF Failing
  <2> QED  BY <2>2, <2>3, <2>4, <2>5
<1>3. CASE work = Failed2(s) /\ row.stage = s /\ row.status = "failed" /\ row.gates[s] = "failed"
  <2>1. Head(work) = Publish("run_failed", s) /\ work' = <<>>
    BY <1>0, <1>3 DEF Failed2
  <2>2. row' = row /\ Published = <<Fail(s)>>
    BY <1>0, <2>1, Loud
  <2>3. RowLow' /\ Failed'
    BY <1>0, <1>3, <2>1, <2>2 DEF RowLow, Failed, Stopped
  <2> QED  BY <1>0, <1>3, <2>2, <2>3
<1> QED  BY <1>1, <1>2, <1>3 DEF Failing

\* One gate of the row's stage is written.
LEMMA GateLow ==
  ASSUME RowLow, NEW s \in Stages, row.stage = s, row'.stage = s,
         \A t \in Stages : t # s => row'.gates[t] = row.gates[t]
  PROVE  RowLow'
<1> SUFFICES ASSUME NEW t \in Stages, t < row'.stage PROVE row'.gates[t] = "approved"
  BY DEF RowLow
<1>1. t # s /\ t < row.stage
  BY StageBounds
<1> QED  BY <1>1 DEF RowLow

LEMMA ApprovingOn ==
  ASSUME NEW s \in Stages, RowInv, Approving(s), Perform
  PROVE  /\ row' \in Row /\ RowLow' /\ Published = <<>>
         /\ \/ Approving(s)'
            \/ Executing' /\ row'.stage = s /\ at' = s + 1
            \/ Completed' /\ s = N
<1>0. /\ at = AfterApproval(s) /\ at' = at /\ row.stage = s
      /\ work' = Tail(work) /\ row' = Written(Head(work)) /\ row \in Row /\ RowLow
  BY Performed DEF Approving
<1>1. CASE work = Approved(s)
  <2>1. Head(work) = Write("running", 0) /\ work' = Approved1(s)
    BY <1>0, <1>1, ApprovedLists
  <2>2. row' \in Row /\ row'.stage = s /\ row'.status = "running" /\ row'.gates = row.gates /\ Published = <<>>
    BY <1>0, <2>1, RowWritten, StatusesAre, Quiets
  <2>3. RowLow'
    BY <1>0, <2>2 DEF RowLow
  <2>4. Approving(s)'
    BY <1>0, <2>1, <2>2 DEF Approving
  <2> QED  BY <2>2, <2>3, <2>4
<1>2. CASE work = Approved1(s) /\ row.status = "running"
  <2>1. Head(work) = Mirror(s, "approved") /\ work' = Completes(s)
    BY <1>0, <1>2, ApprovedLists
  <2>2. /\ row' \in Row /\ row'.stage = s /\ row'.status = "running" /\ row'.gates[s] = "approved"
        /\ \A t \in Stages : t # s => row'.gates[t] = row.gates[t]
    BY <1>0, <1>2, <2>1, GateWritten, StatusesAre
  <2>3. Published = <<>> /\ RowLow'
    BY <1>0, <2>1, <2>2, Quiets, GateLow
  <2>4. CASE s = N
    <3>1. Approving(s)'
      BY <1>0, <2>1, <2>2, <2>4 DEF Approving
    <3> QED  BY <2>2, <2>3, <3>1
  <2>5. CASE s # N
    <3>1. work' = <<>> /\ at' = s + 1 /\ s + 1 \in Stages
      BY <1>0, <2>1, <2>5, ApprovedLists, StageBounds DEF AfterApproval
    <3>2. Executing'
      BY <1>0, <2>2, <3>1 DEF Executing, RowReady
    <3> QED  BY <2>2, <2>3, <3>1, <3>2
  <2> QED  BY <2>4, <2>5
<1>3. CASE work = Completes(s) /\ s = N /\ row.gates[s] = "approved"
  <2>1. Head(work) = Write("complete", 0) /\ work' = <<>> /\ at' = 0
    BY <1>0, <1>3, ApprovedLists DEF AfterApproval
  <2>2. row' \in Row /\ row'.stage = s /\ row'.status = "complete" /\ row'.gates = row.gates /\ Published = <<>>
    BY <1>0, <2>1, RowWritten, StatusesAre, Quiets
  <2>3. RowLow' /\ Completed'
    BY <1>0, <1>3, <2>1, <2>2, StageBounds DEF RowLow, Completed, Stopped
  <2> QED  BY <1>3, <2>2, <2>3
<1> QED  BY <1>1, <1>2, <1>3 DEF Approving

LEMMA RejectingOn ==
  ASSUME NEW s \in Stages, RowInv, Rejecting(s), Perform
  PROVE  /\ row' \in Row /\ RowLow'
         /\ \/ Rejecting(s)' /\ Published = <<>>
            \/ Executing' /\ row'.stage = s /\ at' = s /\ Published = <<>>
            \/ Failed' /\ row'.stage = s /\ Published = <<Fail(s)>>
<1>0. /\ at = (IF s = Scenario THEN 0 ELSE s) /\ at' = at /\ row.stage = s
      /\ work' = Tail(work) /\ row' = Written(Head(work)) /\ row \in Row /\ RowLow
  BY Performed DEF Rejecting
<1>1. CASE work = Rejected(s)
  <2>1. Head(work) = Write("running", 0) /\ work' = Rejected1(s)
    BY <1>0, <1>1, RejectedLists
  <2>2. row' \in Row /\ row'.stage = s /\ row'.status = "running" /\ row'.gates = row.gates /\ Published = <<>>
    BY <1>0, <2>1, RowWritten, StatusesAre, Quiets
  <2>3. RowLow'
    BY <1>0, <2>2 DEF RowLow
  <2>4. Rejecting(s)'
    BY <1>0, <2>1, <2>2 DEF Rejecting
  <2> QED  BY <2>2, <2>3, <2>4
<1>2. CASE work = Rejected1(s) /\ row.status = "running"
  <2>1. Head(work) = Mirror(s, "rejected") /\ work' = GivesUp(s)
    BY <1>0, <1>2, RejectedLists
  <2>2. /\ row' \in Row /\ row'.stage = s /\ row'.status = "running" /\ row'.gates[s] = "rejected"
        /\ \A t \in Stages : t # s => row'.gates[t] = row.gates[t]
    BY <1>0, <1>2, <2>1, GateWritten, StatusesAre
  <2>3. Published = <<>> /\ RowLow'
    BY <1>0, <2>1, <2>2, Quiets, GateLow
  <2>4. CASE s = Scenario
    <3>1. Rejecting(s)'
      BY <1>0, <2>1, <2>2, <2>4 DEF Rejecting
    <3> QED  BY <2>2, <2>3, <3>1
  <2>5. CASE s # Scenario
    <3>1. work' = <<>> /\ at' = s
      BY <1>0, <2>1, <2>5, RejectedLists
    <3>2. Executing'
      BY <1>0, <2>2, <3>1 DEF Executing, RowReady
    <3> QED  BY <2>2, <2>3, <3>1, <3>2
  <2> QED  BY <2>4, <2>5
<1>3. CASE work = GivesUp(s) /\ s = Scenario /\ row.gates[s] = "rejected"
  <2>1. Head(work) = Write("failed", 0) /\ work' = Failed2(s)
    BY <1>0, <1>3, RejectedLists
  <2>2. row' \in Row /\ row'.stage = s /\ row'.status = "failed" /\ row'.gates = row.gates /\ Published = <<>>
    BY <1>0, <2>1, RowWritten, StatusesAre, Quiets
  <2>3. RowLow'
    BY <1>0, <2>2 DEF RowLow
  <2>4. Rejecting(s)'
    BY <1>0, <1>3, <2>1, <2>2 DEF Rejecting
  <2> QED  BY <2>2, <2>3, <2>4
<1>4. CASE work = Failed2(s) /\ s = Scenario /\ row.status = "failed" /\ row.gates[s] = "rejected"
  <2>1. Head(work) = Publish("run_failed", s) /\ work' = <<>> /\ at' = 0
    BY <1>0, <1>4 DEF Failed2
  <2>2. row' = row /\ Published = <<Fail(s)>>
    BY <1>0, <2>1, Loud
  <2>3. RowLow' /\ Failed'
    BY <1>0, <1>4, <2>1, <2>2 DEF RowLow, Failed, Stopped
  <2> QED  BY <1>0, <2>2, <2>3
<1> QED  BY <1>1, <1>2, <1>3, <1>4 DEF Rejecting

LEMMA RetryingOn ==
  ASSUME NEW s \in Stages, NEW p \in Pages, Pages = {p}, RowInv, Retrying(s), Perform
  PROVE  /\ row' \in Row /\ RowLow'
         /\ \/ Retrying(s)' /\ Published \in {<<>>, <<Entry(s)>>} /\ Head(work).op # "answer"
            \/ /\ Executing' /\ at' = s /\ Published = <<>>
               /\ Head(work).op = "answer" /\ p \in Head(work).page
<1>0. at = s /\ at' = at /\ work' = Tail(work) /\ row' = Written(Head(work)) /\ row \in Row /\ RowLow
  BY Performed DEF Retrying
<1>1. CASE work = Retried(s, p) /\ s <= row.stage
  <2>1. Head(work) = Reset(s) /\ work' = Retried1(s, p)
    BY <1>0, <1>1 DEF Retried, Retried1
  <2>2. /\ row' \in Row /\ row'.stage = s /\ row'.status = "running"
        /\ \A t \in Stages : t < s => row'.gates[t] = row.gates[t]
    BY <1>0, <2>1, ResetWritten
  <2>3. Published = <<>>
    BY <2>1, Quiets
  <2>4. RowLow'
    <3> SUFFICES ASSUME NEW t \in Stages, t < row'.stage PROVE row'.gates[t] = "approved"
      BY DEF RowLow
    <3>0. row.stage \in 0 .. N /\ row'.stage = s
      BY <1>0, <2>2 DEF Row
    <3>1. t < s /\ t < row.stage
      BY <1>1, <3>0, StageBounds
    <3> QED  BY <1>0, <2>2, <3>1 DEF RowLow
  <2>5. Retrying(s)'
    BY <1>0, <2>1, <2>2 DEF Retrying
  <2>6. Head(work).op # "answer"
    BY <2>1 DEF Reset, Op
  <2> QED  BY <2>2, <2>3, <2>4, <2>5, <2>6
<1>2. CASE work = Retried1(s, p) /\ row.stage = s /\ row.status = "running"
  <2>1. Head(work) = Publish("stage_entry", s) /\ work' = Retried2(p)
    BY <1>0, <1>2 DEF Retried1, Retried2
  <2>2. row' = row /\ Published = <<Entry(s)>>
    BY <1>0, <2>1, Loud
  <2>3. RowLow' /\ Retrying(s)'
    BY <1>0, <1>2, <2>1, <2>2 DEF RowLow, Retrying
  <2>4. Head(work).op # "answer"
    BY <2>1 DEF Publish, Op
  <2> QED  BY <1>0, <2>2, <2>3, <2>4
<1>3. CASE work = Retried2(p) /\ row.stage = s /\ row.status = "running"
  <2>1. Head(work) = Answers(p) /\ work' = <<>>
    BY <1>0, <1>3 DEF Retried2
  <2>2. Head(work).op = "answer" /\ Head(work).page = {p}
    BY <2>1 DEF Answers, Op
  <2>3. row' = row /\ Published = <<>>
    BY <1>0, <2>2 DEF Written, Published
  <2>4. RowLow' /\ Executing'
    BY <1>0, <1>3, <2>1, <2>3 DEF RowLow, Executing, RowReady
  <2> QED  BY <1>0, <2>2, <2>3, <2>4
<1> QED  BY <1>1, <1>2, <1>3 DEF Retrying

-----------------------------------------------------------------------------
LEMMA Busy ==
  ASSUME NEW s \in Stages, Pausing(s) \/ Failing(s) \/ Approving(s) \/ Rejecting(s) \/ Retrying(s)
  PROVE  work # <<>>
<1>1. CASE Pausing(s)
  <2>1. Paused(s) # <<>> /\ Paused1(s) # <<>> /\ Paused2(s) # <<>>
    BY DEF Paused, Paused1, Paused2
  <2>2. Paused3(s) # <<>> /\ Paused4(s) # <<>>
    BY DEF Paused3, Paused4
  <2> QED  BY <1>1, <2>1, <2>2 DEF Pausing
<1>2. CASE Failing(s)
  BY <1>2 DEF Failing, FailedAt, Failed1, Failed2
<1>3. CASE Approving(s)
  BY <1>3, ApprovedLists DEF Approving
<1>4. CASE Rejecting(s)
  <2>1. Failed2(s) # <<>>
    BY DEF Failed2
  <2> QED  BY <1>4, <2>1, RejectedLists DEF Rejecting
<1>5. CASE Retrying(s)
  BY <1>5 DEF Retrying, Retried, Retried1, Retried2
<1> QED  BY <1>1, <1>2, <1>3, <1>4, <1>5

\* A phase is of the row and the driver only.
LEMMA PhasesKept ==
  ASSUME UNCHANGED driver
  PROVE  /\ Awaiting' <=> Awaiting
         /\ Failed' <=> Failed
         /\ Completed' <=> Completed
         /\ Executing' <=> Executing
         /\ \A s \in Stages : /\ Pausing(s)' <=> Pausing(s)
                              /\ Failing(s)' <=> Failing(s)
                              /\ Approving(s)' <=> Approving(s)
                              /\ Rejecting(s)' <=> Rejecting(s)
                              /\ Retrying(s)' <=> Retrying(s)
         /\ RowLow' <=> RowLow
<1>0. row' = row /\ work' = work /\ at' = at
  BY DEF driver
<1>1. (Awaiting' <=> Awaiting) /\ (Failed' <=> Failed) /\ (Completed' <=> Completed)
  BY <1>0 DEF Awaiting, Failed, Completed, Stopped
<1>2. (Executing' <=> Executing) /\ \A s : RowReady(s)' <=> RowReady(s)
  BY <1>0 DEF Executing, RowReady
<1>3. ASSUME NEW s \in Stages PROVE (Pausing(s)' <=> Pausing(s)) /\ (Failing(s)' <=> Failing(s))
  BY <1>0, <1>2 DEF Pausing, Failing
<1>4. ASSUME NEW s \in Stages PROVE (Approving(s)' <=> Approving(s)) /\ (Rejecting(s)' <=> Rejecting(s))
  BY <1>0 DEF Approving, Rejecting
<1>5. ASSUME NEW s \in Stages PROVE Retrying(s)' <=> Retrying(s)
  BY <1>0 DEF Retrying
<1>6. RowLow' <=> RowLow
  BY <1>0 DEF RowLow
<1> QED  BY <1>1, <1>2, <1>3, <1>4, <1>5, <1>6

LEMMA RowKept == ASSUME RowInv, UNCHANGED driver PROVE RowInv'
<1>1. row' = row
  BY DEF driver
<1> QED  BY <1>1, PhasesKept DEF RowInv

\* Which phases there are while the driver has nothing to write.
LEMMA Resting == ASSUME RowInv, work = <<>> PROVE Awaiting \/ Failed \/ Completed \/ Executing
  BY Busy DEF RowInv

-----------------------------------------------------------------------------
(* The page's stream. *)

\* The links between pages, streams and queues, a page's request, one by one.
LEMMA LinkFacts ==
  ASSUME RegistryInv, LinkInv, NEW p \in Pages, Pages = {p}
  PROVE  /\ view[p] \in Row /\ get[p] \in Get /\ post[p] \in Post
         /\ conn[p] \in Streams \cup {"closed", "opening"}
         /\ conn[p] \in {"closed", "opening"} => conn[p] \notin Streams
         /\ "closed" \notin Streams /\ "opening" \notin Streams
         /\ conn[p] \in Streams => /\ stream[conn[p]] = "live" /\ registered = conn[p]
                                   /\ conn[p] # NoStream /\ queue[conn[p]] \in Seq(Event)
         /\ conn[p] \notin Streams => \A g \in Streams : stream[g] # "live"
         /\ \A g \in Streams : stream[g] = "live" => conn[p] = g
         /\ Coming(p) \in Seq(Event)
<1>1. view[p] \in Row /\ get[p] \in Get /\ post[p] \in Post /\ conn[p] \in Streams \cup {"closed", "opening"}
  BY DEF LinkInv, RegistryInv, Shape
<1>2. "closed" \notin Streams /\ "opening" \notin Streams /\ NoStream \notin Streams
  BY StreamsAssumption
<1>3. queue \in [Streams -> Seq(Event)]
  BY DEF RegistryInv, Shape
<1>4. /\ \A g \in Streams : stream[g] = "live" => registered = g /\ conn[p] = g
      /\ conn[p] \in Streams => stream[conn[p]] = "live"
  BY DEF LinkInv
<1>5. <<>> \in Seq(Event)
  BY EmptySeq
<1>6. Coming(p) \in Seq(Event)
  BY <1>3, <1>5 DEF Coming
<1> QED  BY <1>1, <1>2, <1>3, <1>4, <1>6

LEMMA LinkKept ==
  ASSUME LinkInv, UNCHANGED <<registered, stream, conn>>,
         \A g \in Streams : stream[g] = "free" => queue'[g] = queue[g],
         view' \in [Pages -> Row], get' \in [Pages -> Get],
         \A p \in Pages : post'[p].is = "sent" => ~post'[p].ok /\ post'[p].stage \in Stages
  PROVE  LinkInv'
  BY DEF LinkInv

LEMMA PerformLinks ==
  ASSUME LinkInv, RegistryInv, Perform PROVE LinkInv'
<1>1. UNCHANGED <<registered, stream, conn, view, get>>
  BY DEF Perform
<1>2. \A g \in Streams : stream[g] = "free" => queue'[g] = queue[g]
  BY DEF Perform, RegistryInv, Shape
<1>3. ASSUME NEW p \in Pages, post'[p].is = "sent" PROVE ~post'[p].ok /\ post'[p].stage \in Stages
  <2>1. post[p] \in Post
    BY DEF RegistryInv, Shape
  <2>2. post'[p] = post[p] \/ post'[p] = [post[p] EXCEPT !.is = "answered", !.ok = TRUE]
    BY DEF Perform
  <2>3. post'[p] = post[p]
    BY <1>3, <2>1, <2>2 DEF Post
  <2> QED  BY <1>3, <2>3 DEF LinkInv
<1> QED  BY <1>1, <1>2, <1>3, LinkKept DEF LinkInv

\* A generator that is over.
LEMMA EndLinks ==
  ASSUME LinkInv, RegistryInv, NEW g \in Streams, End(g), UNCHANGED <<get, post>>,
         view' \in [Pages -> Row]
  PROVE  LinkInv'
<1>1. /\ stream' = [stream EXCEPT ![g] = "free"] /\ queue' = [queue EXCEPT ![g] = <<>>]
      /\ registered' = IF registered = g THEN NoStream ELSE registered
      /\ conn' = [p \in Pages |-> IF conn[p] = g THEN "opening" ELSE conn[p]]
      /\ stream \in [Streams -> {"free", "live", "lost"}] /\ queue \in [Streams -> Seq(Event)]
  BY DEF RegistryInv, Shape, End, Unregister
<1>2. /\ \A d \in Streams : d # g => stream'[d] = stream[d] /\ queue'[d] = queue[d]
      /\ stream'[g] = "free" /\ queue'[g] = <<>>
  BY <1>1
<1>3. "opening" \notin Streams
  BY StreamsAssumption
<1>4. conn' \in [Pages -> Streams \cup {"closed", "opening"}]
  BY <1>1 DEF LinkInv
<1>5. \A d \in Streams : stream'[d] = "live" => registered' = d /\ \E p \in Pages : conn'[p] = d
  BY <1>1, <1>2 DEF LinkInv
<1>6. \A p \in Pages : conn'[p] \in Streams => stream'[conn'[p]] = "live"
  <2> SUFFICES ASSUME NEW p \in Pages, conn'[p] \in Streams PROVE stream'[conn'[p]] = "live"
    OBVIOUS
  <2>1. conn[p] # g /\ conn'[p] = conn[p]
    BY <1>1, <1>3
  <2> QED  BY <1>2, <2>1 DEF LinkInv
<1> QED  BY <1>2, <1>4, <1>5, <1>6 DEF LinkInv

LEMMA SubscribeLinks ==
  ASSUME LinkInv, RegistryInv, NEW p \in Pages, Pages = {p}, NEW g \in Streams, Subscribe(p, g)
  PROVE  /\ LinkInv' /\ Coming(p) = <<>> /\ Coming(p)' = <<>> /\ conn'[p] # "closed"
         /\ UNCHANGED <<driver, view, get, post>>
<1>1. /\ conn[p] = "opening" /\ stream[g] = "free" /\ stream' = [stream EXCEPT ![g] = "live"]
      /\ registered' = g /\ conn' = [conn EXCEPT ![p] = g] /\ UNCHANGED <<driver, view, get, post>>
      /\ stream \in [Streams -> {"free", "live", "lost"}] /\ queue \in [Streams -> Seq(Event)]
      /\ conn \in [Pages -> Streams \cup {"closed", "opening"}]
      /\ registered \in Streams \cup {NoStream}
  BY DEF Subscribe, RegistryInv, Shape, LinkInv
<1>2. "opening" \notin Streams /\ "closed" \notin Streams /\ \A d \in Streams : stream[d] # "live"
  BY <1>1, LinkFacts
<1>3. queue' = queue
  <2>1. CASE registered = NoStream
    BY <2>1 DEF Subscribe
  <2>2. CASE registered # NoStream
    <3>1. Closing(registered) = queue[registered]
      BY <1>1, <1>2, <2>2 DEF Closing
    <3>2. queue' = [queue EXCEPT ![registered] = queue[registered]]
      BY <2>2, <3>1 DEF Subscribe
    <3> QED  BY <1>1, <3>2
  <2> QED  BY <2>1, <2>2
<1>4. queue[g] = <<>> /\ conn'[p] = g
  BY <1>1 DEF LinkInv
<1>5. Coming(p) = <<>> /\ Coming(p)' = <<>>
  BY <1>1, <1>2, <1>3, <1>4 DEF Coming
<1>6. /\ conn' \in [Pages -> Streams \cup {"closed", "opening"}]
      /\ \A d \in Streams : d # g => stream'[d] = stream[d]
      /\ stream'[g] = "live"
  BY <1>1
<1>7. LinkInv'
  BY <1>1, <1>2, <1>3, <1>4, <1>6 DEF LinkInv
<1> QED  BY <1>1, <1>2, <1>4, <1>5, <1>7

LEMMA LeaveLinks ==
  ASSUME LinkInv, RegistryInv, NEW p \in Pages, Pages = {p}, Leave(p)
  PROVE  LinkInv' /\ Away(p)' /\ UNCHANGED driver
<1>1. /\ stream' = [g \in Streams |-> IF conn[p] = g THEN "lost" ELSE stream[g]]
      /\ conn' = [conn EXCEPT ![p] = "closed"] /\ view' = [view EXCEPT ![p] = Unread]
      /\ get' = [get EXCEPT ![p] = NoGet] /\ post' = [post EXCEPT ![p] = NoPost]
      /\ UNCHANGED <<driver, registered, queue>>
      /\ stream \in [Streams -> {"free", "live", "lost"}]
      /\ conn \in [Pages -> Streams \cup {"closed", "opening"}]
      /\ view \in [Pages -> Row] /\ get \in [Pages -> Get] /\ post \in [Pages -> Post]
  BY DEF Leave, Lost, RegistryInv, Shape, LinkInv
<1>2. Unread \in Row /\ NoGet \in Get
  BY StatusesAre DEF Unread, NoGet, Get, Row, RunStatus, GateState
<1>3. \A g \in Streams : stream[g] = "live" => conn[p] = g
  BY LinkFacts
<1>4. \A g \in Streams : stream'[g] # "live"
  BY <1>1, <1>3
<1>5. /\ view' \in [Pages -> Row] /\ get' \in [Pages -> Get] /\ conn'[p] = "closed"
      /\ conn' \in [Pages -> Streams \cup {"closed", "opening"}]
      /\ view'[p] = Unread /\ get'[p] = NoGet /\ post'[p] = NoPost
  BY <1>1, <1>2
<1>6. "closed" \notin Streams
  BY StreamsAssumption
<1>7. \A g \in Streams : stream'[g] = "free" => queue'[g] = <<>>
  BY <1>1 DEF LinkInv
<1>8. LinkInv'
  BY <1>4, <1>5, <1>6, <1>7 DEF LinkInv, NoPost
<1>9. Away(p)'
  BY <1>5 DEF Away, NoGet
<1> QED  BY <1>1, <1>8, <1>9

-----------------------------------------------------------------------------
(* The page and the driver. *)

LEMMA SeesKept ==
  ASSUME NEW p \in Pages, UNCHANGED driver, view'[p] = view[p], post'[p] = post[p],
         Coming(p)' = Coming(p), Follows(p)
  PROVE  Follows(p)'
<1>0. row' = row /\ at' = at /\ work' = work
  BY DEF driver
<1> DEFINE v == view[p]
           q == post[p]
<1>1. /\ Idle(p)' <=> Idle(p)
      /\ AsksRetry(p)' <=> AsksRetry(p)
      /\ AsksDecision(p)' <=> AsksDecision(p)
      /\ \A s : (Decided(p, s)' <=> Decided(p, s)) /\ (Stands(p, s)' <=> Stands(p, s))
      /\ \A is : Asks(p, is)' <=> Asks(p, is)
  BY <1>0 DEF Idle, Refused, AsksRetry, AsksDecision, Decided, Stands, Asks
<1>2. SeesAwaiting(p) => SeesAwaiting(p)'
  BY <1>0, <1>1 DEF SeesAwaiting
<1>3. SeesFailed(p) => SeesFailed(p)'
  BY <1>0, <1>1 DEF SeesFailed
<1>4. SeesCompleted(p) => SeesCompleted(p)'
  BY <1>0, <1>1 DEF SeesCompleted
<1>5. SeesExecuting(p) => SeesExecuting(p)'
  BY <1>0, <1>1 DEF SeesExecuting
<1>6. \A s \in Stages : SeesEnding(p, s) => SeesEnding(p, s)'
  BY <1>1 DEF SeesEnding
<1>7. \A s \in Stages : SeesPausing(p, s) => SeesPausing(p, s)'
  BY <1>0, <1>6 DEF SeesPausing
<1>8. \A s \in Stages : SeesDecided(p, s) => SeesDecided(p, s)'
  BY <1>1 DEF SeesDecided
<1>9. \A s \in Stages : SeesRetrying(p, s) => SeesRetrying(p, s)'
  BY DEF SeesRetrying
<1> HIDE DEF v, q
<1> QED  BY <1>2, <1>3, <1>4, <1>5, <1>6, <1>7, <1>8, <1>9, PhasesKept DEF Follows

\* A page that is away stays so while nothing of it changes, one that loads
\* while the row does not.
LEMMA PageKept ==
  ASSUME NEW p \in Pages, UNCHANGED driver, view'[p] = view[p], post'[p] = post[p], get'[p] = get[p],
         conn'[p] = "closed" <=> conn[p] = "closed",
         Coming(p)' = Coming(p), Away(p) \/ Loads(p) \/ Shows(p)
  PROVE  (Away(p) \/ Loads(p) \/ Shows(p))'
<1>0. row' = row /\ at' = at /\ work' = work
  BY DEF driver
<1>1. CASE Away(p)
  BY <1>1 DEF Away
<1>2. CASE Loads(p)
  <2>1. Loads(p)'
    BY <1>0, <1>2, PhasesKept DEF Loads
  <2> QED  BY <2>1
<1>3. CASE Shows(p)
  BY <1>3, SeesKept DEF Shows
<1> QED  BY <1>1, <1>2, <1>3

\* A stage ends: it was executing, and the page was told nothing else.
LEMMA StageEndsPage ==
  ASSUME OneCalmPage, LinkInv, RegistryInv, RowInv, NEW p \in Pages, Pages = {p}, StageEnds,
         Away(p) \/ Loads(p) \/ Shows(p)
  PROVE  RowInv' /\ (Away(p) \/ Loads(p) \/ Shows(p))'
<1> SUFFICES ASSUME NEW s, s = at PROVE RowInv' /\ (Away(p) \/ Loads(p) \/ Shows(p))'
  OBVIOUS
<1>1. /\ work = <<>> /\ at # 0 /\ Listening(p) /\ Informed(p)
      /\ work' = Paused(s) \/ work' = FailedAt(s)
      /\ at' = 0 /\ row' = row /\ UNCHANGED <<view, get, conn, post, queue, registry>>
  BY DEF StageEnds, OneCalmPage, pages, registry
<1>2. Executing /\ s \in Stages /\ RowReady(s) /\ row \in Row /\ RowLow
  BY <1>1, Resting DEF Awaiting, Failed, Completed, Stopped, RowInv, Executing, RowReady
<1>3. RowReady(s)' /\ RowLow' /\ row' \in Row
  <2>1. RowReady(s)'
    BY <1>1, <1>2 DEF RowReady
  <2> QED  BY <1>1, <1>2, <2>1 DEF RowLow
<1>4. Pausing(s)' \/ Failing(s)'
  BY <1>1, <1>3 DEF Pausing, Failing
<1>5. RowInv'
  BY <1>2, <1>3, <1>4 DEF RowInv
<1>6. CASE Away(p)
  BY <1>1, <1>5, <1>6 DEF Away
<1>7. CASE Loads(p)
  BY <1>1, <1>7 DEF Loads, Listening, OneCalmPage
<1>8. CASE Shows(p)
  <2>1. Coming(p)' = Coming(p) /\ view'[p] = view[p] /\ post[p].is = "none" /\ post'[p] = post[p]
    BY <1>1 DEF Coming, Informed, OneCalmPage
  <2>2. SeesExecuting(p)
    BY <1>1, <1>2, <1>8, Busy DEF Shows, Follows, Executing, Awaiting, Failed, Completed, Stopped
  <2>3. SeesEnding(p, s)
    BY <2>1, <2>2 DEF SeesExecuting, SeesEnding, Decided, Asks
  <2>4. SeesEnding(p, s)'
    BY <2>1, <2>3 DEF SeesEnding, Asks
  <2>5. CASE work' = Paused(s)
    <3>1. work' \notin {Paused2(s), Paused3(s), Paused4(s)}
      BY <2>5, ListsDiffer
    <3>2. SeesPausing(p, s)'
      BY <2>4, <3>1 DEF SeesPausing
    <3>3. Pausing(s)'
      BY <1>1, <1>3, <2>5 DEF Pausing
    <3>4. Follows(p)'
      BY <1>2, <3>2, <3>3 DEF Follows
    <3> QED  BY <1>1, <1>5, <1>8, <3>4 DEF Shows
  <2>6. CASE work' = FailedAt(s)
    <3>1. Failing(s)'
      BY <1>1, <1>3, <2>6 DEF Failing
    <3>2. Follows(p)'
      BY <1>2, <2>4, <3>1 DEF Follows
    <3> QED  BY <1>1, <1>5, <1>8, <3>2 DEF Shows
  <2> QED  BY <1>1, <2>5, <2>6
<1> QED  BY <1>5, <1>6, <1>7, <1>8

\* Nothing is pending on a page that stands at s and was told of its decision.
LEMMA CalmAt ==
  ASSUME NEW v \in Row, v.status # "complete", NEW s \in Stages, v.stage = s, Ready(v, s),
         v.gates[s] # "pending"
  PROVE  Calm(v) /\ \A a \in Stages : a <= s + 1 => Ready(v, a)
<1>1. Calm(v)
  BY NothingPending
<1>2. ASSUME NEW a \in Stages, a <= s + 1, NEW t \in Stages, t < a PROVE v.gates[t] # "pending"
  <2>1. t = s \/ t < s
    BY <1>2, StageBounds
  <2> QED  BY <2>1 DEF Ready
<1> QED  BY <1>1, <1>2 DEF Ready

\* What is published reaches the page that shows the run; nothing else changes
\* of it, but for the answer to its retry.
LEMMA PerformReaches ==
  ASSUME OneCalmPage, LinkInv, RegistryInv, NEW p \in Pages, Pages = {p}, Perform, Shows(p)
  PROVE  /\ view'[p] = view[p] /\ get'[p] = get[p] /\ conn'[p] = conn[p]
         /\ Published = <<>> => Coming(p)' = Coming(p)
         /\ Coming(p)' = Coming(p) \o Published
         /\ IF Head(work).op = "answer" /\ p \in Head(work).page /\ post[p].is = "taken"
            THEN post'[p] = [post[p] EXCEPT !.is = "answered", !.ok = TRUE] ELSE post'[p] = post[p]
<1>1. /\ Listening(p) /\ UNCHANGED <<registered, stream, view, get, conn>>
      /\ post'[p] = IF Head(work).op = "answer" /\ p \in Head(work).page /\ post[p].is = "taken"
                    THEN [post[p] EXCEPT !.is = "answered", !.ok = TRUE] ELSE post[p]
      /\ queue' = IF Head(work).op = "publish" /\ registered # NoStream /\ stream[registered] = "live"
                  THEN [queue EXCEPT ![registered] = @ \o Events(Head(work))] ELSE queue
  BY DEF Perform
<1>2. conn[p] \in Streams
  BY <1>1 DEF Shows, Listening, OneCalmPage
<1>3. stream[conn[p]] = "live" /\ registered = conn[p] /\ conn[p] # NoStream /\ queue[conn[p]] \in Seq(Event)
  BY <1>2, LinkFacts
<1>4. Coming(p) = queue[conn[p]] /\ Coming(p)' = queue'[conn[p]]
  BY <1>1, <1>2 DEF Coming
<1>5. queue \in [Streams -> Seq(Event)]
  BY DEF RegistryInv, Shape
<1>6. Published = <<>> => Coming(p) \o Published = Coming(p)
  BY <1>3, <1>4, ConcatEmptySeq
<1>7. CASE Head(work).op = "publish"
  <2>1. Coming(p)' = Coming(p) \o Published
    BY <1>1, <1>2, <1>3, <1>4, <1>5, <1>7 DEF Published
  <2> QED  BY <1>1, <1>6, <2>1
<1>8. CASE Head(work).op # "publish"
  <2>1. Published = <<>> /\ Coming(p)' = Coming(p)
    BY <1>1, <1>4, <1>8 DEF Published
  <2> QED  BY <1>1, <1>6, <2>1
<1> QED  BY <1>7, <1>8

\* What the page is then about to hear, phase by phase.
LEMMA PausingPage ==
  ASSUME NEW s \in Stages, NEW p \in Pages, view[p] \in Row, Coming(p) \in Seq(Event),
         RowInv, Pausing(s), Perform, SeesPausing(p, s),
         view'[p] = view[p], post'[p] = post[p],
         Published = <<>> => Coming(p)' = Coming(p), Coming(p)' = Coming(p) \o Published
  PROVE  Follows(p)'
<1>0. Leading(Coming(p), view[p], s) /\ Ready(view[p], s) /\ Calm(view[p]) /\ Asks(p, "none")
  BY DEF SeesPausing, SeesEnding
<1>1. CASE Pausing(s)' /\ work' = Paused1(s) /\ Published = <<>>
  <2>1. SeesEnding(p, s)'
    BY <1>0, <1>1 DEF SeesEnding, Asks
  <2>2. work' \notin {Paused2(s), Paused3(s), Paused4(s)}
    BY <1>1, ListsDiffer
  <2>3. SeesPausing(p, s)'
    BY <2>1, <2>2 DEF SeesPausing
  <2> QED  BY <1>1, <2>3 DEF Follows
<1>2. CASE Pausing(s)' /\ work' = Paused2(s) /\ Published = <<Entry(s), Exit(s)>>
  <2>1. Leading(Coming(p)', view'[p], s) /\ Coming(p)' # <<>>
    BY <1>0, <1>2, LeadLeft
  <2>2. SeesPausing(p, s)'
    BY <1>0, <2>1 DEF SeesPausing, SeesEnding, Asks
  <2> QED  BY <1>2, <2>2 DEF Follows
<1>3. CASE Pausing(s)' /\ work \in {Paused2(s), Paused3(s)} /\ Published = <<>>
  <2>1. SeesEnding(p, s)'
    BY <1>0, <1>3 DEF SeesEnding, Asks
  <2>2. Coming(p)' = <<>> => view'[p].stage = s
    BY <1>3 DEF SeesPausing
  <2>3. SeesPausing(p, s)'
    BY <2>1, <2>2 DEF SeesPausing
  <2> QED  BY <1>3, <2>3 DEF Follows
<1>4. CASE Awaiting' /\ row'.stage = s /\ work = Paused4(s) /\ Published = <<Gate(s)>>
  <2>1. Coming(p)' = Append(Coming(p), Gate(s))
    BY <1>4, EventsAre, AppendIsConcat
  <2>2. Coming(p) = <<>> => view[p].stage = s
    BY <1>4 DEF SeesPausing
  <2>3. SeesAwaiting(p)'
    <3>1. /\ Leading(Coming(p), view'[p], row'.stage) /\ Coming(p)' = Append(Coming(p), Gate(row'.stage))
          /\ Coming(p) = <<>> => view'[p].stage = row'.stage
      BY <1>0, <1>4, <2>1, <2>2
    <3>2. Ready(view'[p], row'.stage) /\ Calm(view'[p]) /\ Asks(p, "none")'
      BY <1>0, <1>4 DEF Asks
    <3> QED  BY <3>1, <3>2 DEF SeesAwaiting
  <2> QED  BY <1>4, <2>3 DEF Follows
<1> QED  BY <1>1, <1>2, <1>3, <1>4, PausingOn

LEMMA FailingPage ==
  ASSUME NEW s \in Stages, NEW p \in Pages, view[p] \in Row, Coming(p) \in Seq(Event),
         RowInv, Failing(s), Perform, SeesEnding(p, s),
         view'[p] = view[p], post'[p] = post[p],
         Published = <<>> => Coming(p)' = Coming(p), Coming(p)' = Coming(p) \o Published
  PROVE  Follows(p)'
<1>0. Leading(Coming(p), view[p], s) /\ Ready(view[p], s) /\ Calm(view[p]) /\ Asks(p, "none")
  BY DEF SeesEnding
<1>1. CASE Failing(s)' /\ Published = <<>>
  <2>1. SeesEnding(p, s)'
    BY <1>0, <1>1 DEF SeesEnding, Asks
  <2> QED  BY <1>1, <2>1 DEF Follows
<1>2. CASE Failed' /\ row'.stage = s /\ Published = <<Fail(s)>>
  <2>1. Coming(p)' = Append(Coming(p), Fail(s))
    BY <1>2, EventsAre, AppendIsConcat
  <2>2. SeesFailed(p)'
    BY <1>0, <1>2, <2>1 DEF SeesFailed, Asks
  <2> QED  BY <1>2, <2>2 DEF Follows
<1> QED  BY <1>1, <1>2, FailingOn

LEMMA DecidedPage ==
  ASSUME NEW s \in Stages, NEW p \in Pages, view[p] \in Row, Coming(p) \in Seq(Event),
         RowInv, Approving(s) \/ Rejecting(s), Perform, SeesDecided(p, s),
         view'[p] = view[p], post'[p] = post[p],
         Published = <<>> => Coming(p)' = Coming(p), Coming(p)' = Coming(p) \o Published
  PROVE  Follows(p)'
<1>0. /\ Coming(p) = <<>> /\ Stands(p, s) /\ view[p].status # "complete" /\ view[p].stage = s
      /\ Ready(view[p], s)
      /\ Decided(p, s) \/ (Asks(p, "none") /\ view[p].gates[s] # "pending")
  BY DEF SeesDecided, Stands
<1>1. /\ Decided(p, s)' <=> Decided(p, s)
      /\ Stands(p, s)'
      /\ Asks(p, "none")' <=> Asks(p, "none")
  BY <1>0 DEF Decided, Stands, Asks
<1>2. view[p].gates[s] # "pending" => Calm(view[p]) /\ \A a \in Stages : a <= s + 1 => Ready(view[p], a)
  BY <1>0, CalmAt
<1>3. CASE Approving(s)
  <2>0. Coming(p)' = <<>>
    BY <1>0, <1>3, ApprovingOn
  <2>1. CASE Approving(s)'
    <3>1. SeesDecided(p, s)'
      BY <1>0, <1>1, <2>0 DEF SeesDecided
    <3> QED  BY <2>1, <3>1 DEF Follows
  <2>2. CASE Executing' /\ row'.stage = s /\ at' = s + 1
    <3>1. CASE Decided(p, s)
      <4>1. SeesExecuting(p)'
        BY <1>1, <2>0, <2>2, <3>1, StageBounds DEF SeesExecuting
      <4> QED  BY <2>2, <4>1 DEF Follows
    <3>2. CASE Asks(p, "none") /\ view[p].gates[s] # "pending"
      <4>1. s + 1 \in Stages
        BY <2>2 DEF Executing, RowReady
      <4>2. s + 1 <= s + 1
        BY StageBounds
      <4>3. Calm(view[p]) /\ Ready(view[p], s + 1)
        BY <1>2, <3>2, <4>1, <4>2
      <4>4. /\ Leading(Coming(p)', view'[p], at') /\ Ready(view'[p], at') /\ Calm(view'[p])
            /\ Idle(p)'
        BY <1>1, <2>0, <2>2, <3>2, <4>3, LeadNone DEF Idle
      <4>5. SeesExecuting(p)'
        BY <4>4 DEF SeesExecuting
      <4> QED  BY <2>2, <4>5 DEF Follows
    <3> QED  BY <1>0, <3>1, <3>2
  <2>3. CASE Completed' /\ s = N
    <3>1. SeesCompleted(p)'
      BY <1>0, <1>1, <1>2, <2>0, <2>3 DEF SeesCompleted, Idle
    <3> QED  BY <2>3, <3>1 DEF Follows
  <2> QED  BY <1>3, <2>1, <2>2, <2>3, ApprovingOn
<1>4. CASE Rejecting(s)
  <2>1. CASE Rejecting(s)' /\ Published = <<>>
    <3>1. SeesDecided(p, s)'
      BY <1>0, <1>1, <2>1 DEF SeesDecided
    <3> QED  BY <2>1, <3>1 DEF Follows
  <2>2. CASE Executing' /\ row'.stage = s /\ at' = s /\ Published = <<>>
    <3>0. Coming(p)' = <<>>
      BY <1>0, <2>2
    <3>1. CASE Decided(p, s)
      <4>1. SeesExecuting(p)'
        BY <1>1, <2>2, <3>0, <3>1, StageBounds DEF SeesExecuting
      <4> QED  BY <2>2, <4>1 DEF Follows
    <3>2. CASE Asks(p, "none") /\ view[p].gates[s] # "pending"
      <4>1. /\ Leading(Coming(p)', view'[p], at') /\ Ready(view'[p], at') /\ Calm(view'[p])
            /\ Idle(p)'
        BY <1>0, <1>1, <1>2, <2>2, <3>0, <3>2, LeadNone DEF Idle
      <4>2. SeesExecuting(p)'
        BY <4>1 DEF SeesExecuting
      <4> QED  BY <2>2, <4>2 DEF Follows
    <3> QED  BY <1>0, <3>1, <3>2
  <2>3. CASE Failed' /\ row'.stage = s /\ Published = <<Fail(s)>>
    <3>0. Coming(p)' = <<Fail(s)>>
      <4>1. <<Fail(s)>> \in Seq(Event)
        BY EventsAre
      <4> QED  BY <1>0, <2>3, <4>1, ConcatEmptySeq
    <3>1. CASE Decided(p, s)
      <4>1. SeesFailed(p)'
        BY <1>1, <2>3, <3>0, <3>1 DEF SeesFailed
      <4> QED  BY <2>3, <4>1 DEF Follows
    <3>2. CASE Asks(p, "none") /\ view[p].gates[s] # "pending"
      <4>1. Coming(p)' = Append(<<>>, Fail(s)) /\ <<>> \in Seq(Event)
        BY <3>0, EmptySeq
      <4>2. Leading(<<>>, view'[p], s) /\ Ready(view'[p], s) /\ Calm(view'[p]) /\ Asks(p, "none")'
        BY <1>0, <1>1, <1>2, <3>2, LeadNone
      <4>3. SeesFailed(p)'
        BY <2>3, <4>1, <4>2 DEF SeesFailed
      <4> QED  BY <2>3, <4>3 DEF Follows
    <3> QED  BY <1>0, <3>1, <3>2
  <2> QED  BY <1>4, <2>1, <2>2, <2>3, RejectingOn
<1> QED  BY <1>3, <1>4

LEMMA RetryingPage ==
  ASSUME NEW s \in Stages, NEW p \in Pages, Pages = {p}, post[p] \in Post, Coming(p) \in Seq(Event),
         RowInv, Retrying(s), Perform, SeesRetrying(p, s), view'[p] = view[p],
         Published = <<>> => Coming(p)' = Coming(p), Coming(p)' = Coming(p) \o Published,
         IF Head(work).op = "answer" /\ p \in Head(work).page /\ post[p].is = "taken"
         THEN post'[p] = [post[p] EXCEPT !.is = "answered", !.ok = TRUE] ELSE post'[p] = post[p]
  PROVE  Follows(p)'
<1>0. /\ post[p].is = "taken" /\ post[p].kind = "retry" /\ post[p].stage = s
      /\ Leading(Coming(p), view[p], s) /\ Ready(view[p], s)
  BY DEF SeesRetrying
<1>1. CASE Retrying(s)' /\ Published \in {<<>>, <<Entry(s)>>} /\ Head(work).op # "answer"
  <2>1. Leading(Coming(p)', view'[p], s)
    <3>1. CASE Published = <<>>
      BY <1>0, <3>1
    <3>2. CASE Published = <<Entry(s)>>
      <4>1. Coming(p)' = Append(Coming(p), Entry(s))
        BY <3>2, EventsAre, AppendIsConcat
      <4> QED  BY <1>0, <4>1, LeadEntered
    <3> QED  BY <1>1, <3>1, <3>2
  <2>2. SeesRetrying(p, s)'
    BY <1>0, <1>1, <2>1 DEF SeesRetrying
  <2> QED  BY <1>1, <2>2 DEF Follows
<1>2. CASE /\ Executing' /\ at' = s /\ Published = <<>>
           /\ Head(work).op = "answer" /\ p \in Head(work).page
  <2>1. post'[p].is = "answered" /\ post'[p].ok /\ post'[p].kind = "retry" /\ post'[p].stage = s
    BY <1>0, <1>2 DEF Post
  <2>2. SeesExecuting(p)'
    BY <1>0, <1>2, <2>1 DEF SeesExecuting
  <2> QED  BY <1>2, <2>2 DEF Follows
<1> QED  BY <1>1, <1>2, RetryingOn

LEMMA PerformPage ==
  ASSUME OneCalmPage, LinkInv, RegistryInv, RowInv, NEW p \in Pages, Pages = {p}, Perform,
         Away(p) \/ Loads(p) \/ Shows(p)
  PROVE  RowInv' /\ (Away(p) \/ Loads(p) \/ Shows(p))'
<1>1. /\ work # <<>> /\ Listening(p) /\ UNCHANGED <<view, get, conn>>
      /\ post[p].is = "none" => post'[p] = post[p]
  BY DEF Perform
<1>2. RowInv'
  <2>1. PICK s \in Stages : Pausing(s) \/ Failing(s) \/ Approving(s) \/ Rejecting(s) \/ Retrying(s)
    BY <1>1 DEF RowInv, Awaiting, Failed, Completed, Executing, Stopped
  <2>2. CASE Pausing(s)
    BY <2>2, PausingOn DEF RowInv
  <2>3. CASE Failing(s)
    BY <2>3, FailingOn DEF RowInv
  <2>4. CASE Approving(s)
    BY <2>4, ApprovingOn DEF RowInv
  <2>5. CASE Rejecting(s)
    BY <2>5, RejectingOn DEF RowInv
  <2>6. CASE Retrying(s)
    BY <2>6, RetryingOn DEF RowInv
  <2> QED  BY <2>1, <2>2, <2>3, <2>4, <2>5, <2>6
<1>3. CASE Away(p)
  <2>1. Away(p)'
    BY <1>1, <1>3 DEF Away, NoPost
  <2> QED  BY <1>2, <2>1
<1>4. CASE Loads(p)
  BY <1>1, <1>4 DEF Loads, Listening, OneCalmPage
<1>5. CASE Shows(p)
  <2>1. /\ view'[p] = view[p] /\ get'[p] = get[p] /\ conn'[p] = conn[p]
        /\ Published = <<>> => Coming(p)' = Coming(p)
        /\ Coming(p)' = Coming(p) \o Published
        /\ IF Head(work).op = "answer" /\ p \in Head(work).page /\ post[p].is = "taken"
           THEN post'[p] = [post[p] EXCEPT !.is = "answered", !.ok = TRUE] ELSE post'[p] = post[p]
    BY <1>5, PerformReaches
  <2>2. view[p] \in Row /\ Coming(p) \in Seq(Event) /\ post[p] \in Post
    BY LinkFacts
  <2>3. Follows(p)'
    <3>1. PICK s \in Stages : \/ Pausing(s) /\ SeesPausing(p, s)
                              \/ Failing(s) /\ SeesEnding(p, s)
                              \/ (Approving(s) \/ Rejecting(s)) /\ SeesDecided(p, s)
                              \/ Retrying(s) /\ SeesRetrying(p, s)
      BY <1>1, <1>5 DEF Shows, Follows, Awaiting, Failed, Completed, Executing, Stopped
    <3>2. CASE Pausing(s) /\ SeesPausing(p, s)
      <4>1. post'[p] = post[p]
        BY <1>1, <3>2 DEF SeesPausing, SeesEnding, Asks
      <4> QED  BY <2>1, <2>2, <3>2, <4>1, PausingPage
    <3>3. CASE Failing(s) /\ SeesEnding(p, s)
      <4>1. post'[p] = post[p]
        BY <1>1, <3>3 DEF SeesEnding, Asks
      <4> QED  BY <2>1, <2>2, <3>3, <4>1, FailingPage
    <3>4. CASE (Approving(s) \/ Rejecting(s)) /\ SeesDecided(p, s)
      <4>1. post'[p] = post[p]
        BY <2>1, <3>4 DEF SeesDecided, Decided, Asks
      <4> QED  BY <2>1, <2>2, <3>4, <4>1, DecidedPage
    <3>5. CASE Retrying(s) /\ SeesRetrying(p, s)
      BY <2>1, <2>2, <3>5, RetryingPage
    <3> QED  BY <3>1, <3>2, <3>3, <3>4, <3>5
  <2>4. Shows(p)'
    BY <1>5, <2>1, <2>3 DEF Shows
  <2> QED  BY <1>2, <2>4
<1> QED  BY <1>3, <1>4, <1>5

-----------------------------------------------------------------------------
(* The page and its stream. *)

\* A page applies the next event of its stream; a failure ends the stream.
Takes(p) ==
  LET e == Head(Coming(p)) IN
  e # Close => /\ view'[p] = Applied(view[p], e)
               /\ Coming(p)' = IF e.kind = "run_failed" THEN <<>> ELSE Tail(Coming(p))

LEMMA TakesLeading ==
  ASSUME NEW p \in Pages, NEW s \in Stages, view[p] \in Row, view[p].status # "unread",
         Coming(p) \in Seq(Event), Coming(p) # <<>>, Takes(p),
         Leading(Coming(p), view[p], s), Ready(view[p], s)
  PROVE  /\ Head(Coming(p)) # Close /\ view'[p] \in Row /\ view'[p].status = "running" /\ view'[p].stage = s
         /\ Ready(view'[p], s) /\ view'[p].gates[s] # "pending" /\ Calm(view'[p])
         /\ Leading(Coming(p)', view'[p], s)
<1> DEFINE q == Coming(p)
<1> DEFINE v == view[p]
<1>1. LET u == Applied(v, Head(q)) IN
      /\ Head(q) \in {Entry(s), Exit(s)} /\ u \in Row /\ u.status = "running" /\ u.stage = s
      /\ Ready(u, s) /\ u.gates[s] # "pending" /\ Calm(u)
      /\ Leading(Tail(q), u, s)
  BY LeadTaken
<1>2. Head(q) # Close /\ Head(q).kind # "run_failed"
  BY <1>1, EventsDiffer
<1>3. view'[p] = Applied(v, Head(q)) /\ Coming(p)' = Tail(q)
  BY <1>2 DEF Takes
<1> HIDE DEF q, v
<1> QED  BY <1>1, <1>2, <1>3 DEF q, v

\* The last event of a stage, after what else of it is still to come.
LEMMA TakesLast ==
  ASSUME NEW p \in Pages, NEW s \in Stages, view[p] \in Row, view[p].status # "unread", Takes(p),
         Ready(view[p], s), NEW l \in Seq(Event), Leading(l, view[p], s), l # <<>>,
         NEW e \in Event, Coming(p) = Append(l, e)
  PROVE  /\ Head(Coming(p)) # Close /\ view'[p] \in Row /\ view'[p].status = "running" /\ view'[p].stage = s
         /\ Ready(view'[p], s) /\ Calm(view'[p])
         /\ Tail(l) \in Seq(Event) /\ Leading(Tail(l), view'[p], s) /\ Coming(p)' = Append(Tail(l), e)
<1> DEFINE v == view[p]
<1>1. LET u == Applied(v, Head(l)) IN
      /\ Head(l) \in {Entry(s), Exit(s)} /\ u \in Row /\ u.status = "running" /\ u.stage = s
      /\ Ready(u, s) /\ u.gates[s] # "pending" /\ Calm(u)
      /\ Leading(Tail(l), u, s)
  BY LeadTaken
<1>2. Head(l) # Close /\ Head(l).kind # "run_failed"
  BY <1>1, EventsDiffer
<1>3. Head(Coming(p)) = Head(l) /\ Tail(Coming(p)) = Append(Tail(l), e) /\ Tail(l) \in Seq(Event)
  BY LastTaken
<1>4. view'[p] = Applied(v, Head(l)) /\ Coming(p)' = Append(Tail(l), e)
  BY <1>2, <1>3 DEF Takes
<1> HIDE DEF v
<1> QED  BY <1>1, <1>2, <1>3, <1>4 DEF v

\* It is the failure itself.
LEMMA TakesFail ==
  ASSUME NEW p \in Pages, NEW s \in Stages, view[p] \in Row, view[p].status # "unread", Takes(p),
         Ready(view[p], s), Coming(p) = <<Fail(s)>>
  PROVE  /\ Head(Coming(p)) # Close /\ view'[p] \in Row /\ Ready(view'[p], s)
         /\ view'[p].status = "failed" /\ view'[p].stage = s /\ view'[p].gates[s] \in Retryable
         /\ Coming(p)' = <<>>
<1>1. Head(Coming(p)) = Fail(s) /\ Fail(s) # Close /\ Fail(s).kind = "run_failed"
  BY EventsDiffer
<1>2. view'[p] = Applied(view[p], Fail(s)) /\ Coming(p)' = <<>>
  BY <1>1 DEF Takes
<1>3. /\ view'[p] \in Row /\ view'[p].status = "failed" /\ view'[p].stage = s /\ view'[p].gates[s] = "failed"
      /\ \A t \in Stages : t # s => view'[p].gates[t] = view[p].gates[t]
  BY <1>2, FailFacts
<1>4. Ready(view'[p], s)
  BY <1>3, StageBounds DEF Ready
<1>5. "failed" \in Retryable
  BY DEF Retryable
<1> QED  BY <1>1, <1>2, <1>3, <1>4, <1>5

LEMMA TakesGate ==
  ASSUME NEW p \in Pages, NEW s \in Stages, view[p] \in Row, view[p].status # "unread", Takes(p),
         Ready(view[p], s), view[p].stage = s, Coming(p) = <<Gate(s)>>
  PROVE  /\ Head(Coming(p)) # Close /\ view'[p] \in Row /\ Stands(p, s)'
         /\ view'[p].gates[s] = "pending" /\ Coming(p)' = <<>>
<1>1. Head(Coming(p)) = Gate(s) /\ Gate(s) # Close /\ Gate(s).kind # "run_failed" /\ Tail(Coming(p)) = <<>>
  BY EventsDiffer
<1>2. view'[p] = Applied(view[p], Gate(s)) /\ Coming(p)' = <<>>
  BY <1>1 DEF Takes
<1>3. /\ view'[p] \in Row /\ view'[p].status = "awaiting_approval" /\ view'[p].stage = s
      /\ view'[p].gates[s] = "pending"
      /\ \A t \in Stages : t # s => view'[p].gates[t] = view[p].gates[t]
  BY <1>2, GateFacts
<1>4. Ready(view'[p], s)
  BY <1>3, StageBounds DEF Ready
<1> QED  BY <1>1, <1>2, <1>3, <1>4 DEF Stands

LEMMA TakesFollows ==
  ASSUME NEW p \in Pages, view[p] \in Row, view[p].status # "unread",
         Coming(p) \in Seq(Event), Coming(p) # <<>>, Takes(p), Follows(p),
         UNCHANGED driver, post'[p] = post[p]
  PROVE  /\ Follows(p)' /\ Head(Coming(p)) # Close /\ view'[p] \in Row /\ view'[p].status # "unread"
<1> DEFINE Goal == Follows(p)' /\ Head(Coming(p)) # Close /\ view'[p] \in Row /\ view'[p].status # "unread"
<1>0. row' = row /\ at' = at /\ work' = work
  BY DEF driver
<1>1. /\ Asks(p, "none")' <=> Asks(p, "none")
      /\ Idle(p)' <=> Idle(p)
      /\ \A s : Decided(p, s)' <=> Decided(p, s)
  BY DEF Asks, Idle, Refused, Decided
<1>2. CASE Awaiting /\ SeesAwaiting(p)
  <2> SUFFICES ASSUME NEW s, s = row.stage PROVE Goal
    OBVIOUS
  <2>1. s \in Stages /\ Ready(view[p], s) /\ Calm(view[p]) /\ Asks(p, "none")
        /\ \E l \in Seq(Event) : /\ Leading(l, view[p], s) /\ Coming(p) = Append(l, Gate(s))
                                 /\ l = <<>> => view[p].stage = s
    BY <1>2 DEF SeesAwaiting, Awaiting, Stopped
  <2>2. PICK l \in Seq(Event) : /\ Leading(l, view[p], s) /\ Coming(p) = Append(l, Gate(s))
                                /\ l = <<>> => view[p].stage = s
    BY <2>1
  <2>3. CASE l = <<>>
    <3>1. Coming(p) = <<Gate(s)>> /\ view[p].stage = s
      BY <2>2, <2>3
    <3>2. /\ Head(Coming(p)) # Close /\ view'[p] \in Row /\ Stands(p, s)'
          /\ view'[p].gates[s] = "pending" /\ Coming(p)' = <<>>
      BY <2>1, <3>1, TakesGate
    <3>3. SeesAwaiting(p)'
      BY <1>0, <1>1, <2>1, <3>2 DEF SeesAwaiting, Idle
    <3>4. Awaiting' /\ view'[p].status # "unread"
      BY <1>2, <3>2, PhasesKept DEF Stands
    <3> QED  BY <3>2, <3>3, <3>4 DEF Follows
  <2>4. CASE l # <<>>
    <3>0. Gate(s) \in Event
      BY <2>1, EventsAre
    <3>1. /\ Head(Coming(p)) # Close /\ view'[p] \in Row /\ view'[p].status = "running" /\ view'[p].stage = s
          /\ Ready(view'[p], s) /\ Calm(view'[p])
          /\ Tail(l) \in Seq(Event) /\ Leading(Tail(l), view'[p], s) /\ Coming(p)' = Append(Tail(l), Gate(s))
      BY <2>1, <2>2, <2>4, <3>0, TakesLast
    <3>2. SeesAwaiting(p)'
      BY <1>0, <1>1, <2>1, <3>1 DEF SeesAwaiting
    <3>3. Awaiting'
      BY <1>2, PhasesKept
    <3> QED  BY <3>1, <3>2, <3>3 DEF Follows
  <2> QED  BY <2>3, <2>4
<1>3. CASE Failed /\ SeesFailed(p)
  <2> SUFFICES ASSUME NEW s, s = row.stage PROVE Goal
    OBVIOUS
  <2>0. s \in Stages /\ Failed'
    BY <1>3, PhasesKept DEF Failed, Stopped
  <2>1. ASSUME Coming(p) = <<Fail(s)>>, Ready(view[p], s), Asks(p, "none") \/ Decided(p, s) PROVE Goal
    <3>1. /\ Head(Coming(p)) # Close /\ view'[p] \in Row /\ Ready(view'[p], s)
          /\ view'[p].status = "failed" /\ view'[p].stage = s /\ view'[p].gates[s] \in Retryable
          /\ Coming(p)' = <<>>
      BY <2>0, <2>1, TakesFail
    <3>2. Idle(p)' \/ Decided(p, s)'
      BY <1>1, <2>1 DEF Idle
    <3>3. SeesFailed(p)'
      BY <1>0, <3>1, <3>2 DEF SeesFailed
    <3> QED  BY <2>0, <3>1, <3>3 DEF Follows
  <2>2. CASE Coming(p) = <<Fail(s)>> /\ Stands(p, s) /\ Decided(p, s)
    BY <2>1, <2>2 DEF Stands
  <2>3. CASE /\ Ready(view[p], s) /\ Calm(view[p]) /\ Asks(p, "none")
             /\ \E l \in Seq(Event) : Leading(l, view[p], s) /\ Coming(p) = Append(l, Fail(s))
    <3>1. PICK l \in Seq(Event) : Leading(l, view[p], s) /\ Coming(p) = Append(l, Fail(s))
      BY <2>3
    <3>2. CASE l = <<>>
      <4>1. Coming(p) = <<Fail(s)>>
        BY <3>1, <3>2
      <4> QED  BY <2>1, <2>3, <4>1
    <3>3. CASE l # <<>>
      <4>0. /\ Fail(s) \in Event /\ s \in Stages /\ Ready(view[p], s) /\ Leading(l, view[p], s)
            /\ Coming(p) = Append(l, Fail(s))
        BY <2>0, <2>3, <3>1, EventsAre
      <4>1. /\ Head(Coming(p)) # Close /\ view'[p] \in Row /\ view'[p].status = "running" /\ view'[p].stage = s
            /\ Ready(view'[p], s) /\ Calm(view'[p])
            /\ Tail(l) \in Seq(Event) /\ Leading(Tail(l), view'[p], s) /\ Coming(p)' = Append(Tail(l), Fail(s))
        BY <3>3, <4>0, TakesLast
      <4>2. SeesFailed(p)'
        <5>1. row'.stage = s /\ Asks(p, "none")'
          BY <1>0, <1>1, <2>3
        <5>2. \E k \in Seq(Event) : Leading(k, view'[p], s) /\ Coming(p)' = Append(k, Fail(s))
          BY <4>1
        <5> QED  BY <4>1, <5>1, <5>2 DEF SeesFailed
      <4> QED  BY <2>0, <4>1, <4>2 DEF Follows
    <3> QED  BY <3>2, <3>3
  <2> QED  BY <1>3, <2>2, <2>3 DEF SeesFailed
<1>4. CASE Executing /\ SeesExecuting(p)
  <2> SUFFICES ASSUME NEW s, s = at PROVE Goal
    OBVIOUS
  <2>1. /\ s \in Stages /\ Leading(Coming(p), view[p], s) /\ Ready(view[p], s)
        /\ \/ Idle(p) \/ Asks(p, "sent")
           \/ post[p].is = "answered" /\ post[p].ok /\ post[p].kind = "retry" /\ post[p].stage = s
    BY <1>4 DEF SeesExecuting, Executing, RowReady
  <2>2. /\ Head(Coming(p)) # Close /\ view'[p] \in Row /\ view'[p].status = "running"
        /\ Ready(view'[p], s) /\ Calm(view'[p]) /\ Leading(Coming(p)', view'[p], s)
    BY <2>1, TakesLeading
  <2>3. SeesExecuting(p)'
    BY <1>0, <1>1, <2>1, <2>2 DEF SeesExecuting, Asks
  <2>4. Executing'
    BY <1>4, PhasesKept
  <2> QED  BY <2>2, <2>3, <2>4 DEF Follows
<1>5. ASSUME NEW s \in Stages, Pausing(s) /\ SeesPausing(p, s) PROVE Goal
  <2>1. /\ Head(Coming(p)) # Close /\ view'[p] \in Row /\ view'[p].status = "running" /\ view'[p].stage = s
        /\ Ready(view'[p], s) /\ Calm(view'[p]) /\ Leading(Coming(p)', view'[p], s)
    BY <1>5, TakesLeading DEF SeesPausing, SeesEnding
  <2>2. SeesPausing(p, s)'
    BY <1>1, <1>5, <2>1 DEF SeesPausing, SeesEnding
  <2>3. Pausing(s)'
    BY <1>5, PhasesKept
  <2> QED  BY <2>1, <2>2, <2>3 DEF Follows
<1>6. ASSUME NEW s \in Stages, Failing(s) /\ SeesEnding(p, s) PROVE Goal
  <2>1. /\ Head(Coming(p)) # Close /\ view'[p] \in Row /\ view'[p].status = "running"
        /\ Ready(view'[p], s) /\ Calm(view'[p]) /\ Leading(Coming(p)', view'[p], s)
    BY <1>6, TakesLeading DEF SeesEnding
  <2>2. SeesEnding(p, s)'
    BY <1>1, <1>6, <2>1 DEF SeesEnding
  <2>3. Failing(s)'
    BY <1>6, PhasesKept
  <2> QED  BY <2>1, <2>2, <2>3 DEF Follows
<1>7. ASSUME NEW s \in Stages, Retrying(s) /\ SeesRetrying(p, s) PROVE Goal
  <2>1. /\ Head(Coming(p)) # Close /\ view'[p] \in Row /\ view'[p].status = "running"
        /\ Ready(view'[p], s) /\ Leading(Coming(p)', view'[p], s)
    BY <1>7, TakesLeading DEF SeesRetrying
  <2>2. SeesRetrying(p, s)'
    BY <1>7, <2>1 DEF SeesRetrying
  <2>3. Retrying(s)'
    BY <1>7, PhasesKept
  <2> QED  BY <2>1, <2>2, <2>3 DEF Follows
<1>8. /\ ~SeesCompleted(p) /\ \A s \in Stages : ~SeesDecided(p, s)
  BY DEF SeesCompleted, SeesDecided
<1> QED  BY <1>2, <1>3, <1>4, <1>5, <1>6, <1>7, <1>8 DEF Follows

LEMMA TakePage ==
  ASSUME LinkInv, RegistryInv, NEW p \in Pages, Pages = {p}, NEW g \in Streams, Take(g),
         Away(p) \/ Loads(p) \/ Shows(p)
  PROVE  LinkInv' /\ UNCHANGED driver /\ (Away(p) \/ Loads(p) \/ Shows(p))'
<1> DEFINE e == Head(queue[g])
<1>1. /\ stream[g] = "live" /\ queue[g] # <<>> /\ UNCHANGED <<driver, get, post>>
      /\ view' = [o \in Pages |-> IF conn[o] = g /\ e # Close THEN Applied(view[o], e) ELSE view[o]]
      /\ IF e = Close \/ e.kind = "run_failed" THEN End(g)
         ELSE queue' = [queue EXCEPT ![g] = Tail(@)] /\ UNCHANGED <<stream, registered, conn>>
      /\ queue \in [Streams -> Seq(Event)] /\ stream \in [Streams -> {"free", "live", "lost"}]
  BY DEF Take, RegistryInv, Shape
<1>2. /\ conn[p] = g /\ Coming(p) = queue[g] /\ view[p] \in Row /\ Coming(p) \in Seq(Event)
      /\ "closed" \notin Streams /\ "opening" \notin Streams
  BY <1>1, LinkFacts DEF Coming
<1>3. Shows(p)
  BY <1>1, <1>2 DEF Away, Loads
<1>4. e # Close => view'[p] = Applied(view[p], e) /\ conn'[p] # "closed"
                   /\ Coming(p)' = IF e.kind = "run_failed" THEN <<>> ELSE Tail(Coming(p))
  <2> SUFFICES ASSUME e # Close
               PROVE  view'[p] = Applied(view[p], e) /\ conn'[p] # "closed"
                      /\ Coming(p)' = IF e.kind = "run_failed" THEN <<>> ELSE Tail(Coming(p))
    OBVIOUS
  <2>1. view'[p] = Applied(view[p], e)
    BY <1>1, <1>2
  <2>2. CASE e.kind = "run_failed"
    <3>1. conn'[p] = "opening"
      BY <1>1, <1>2, <2>2 DEF End
    <3>2. Coming(p)' = <<>>
      BY <1>2, <3>1 DEF Coming
    <3> QED  BY <2>1, <2>2, <3>1, <3>2
  <2>3. CASE e.kind # "run_failed"
    <3>1. conn'[p] = g /\ queue'[g] = Tail(queue[g])
      BY <1>1, <1>2, <2>3
    <3>2. Coming(p)' = Tail(Coming(p))
      BY <1>2, <3>1 DEF Coming
    <3> QED  BY <1>2, <2>1, <2>3, <3>1, <3>2
  <2> QED  BY <2>2, <2>3
<1>5. Takes(p)
  BY <1>2, <1>4 DEF Takes
<1>6. Follows(p)' /\ e # Close /\ view'[p] \in Row /\ view'[p].status # "unread"
  BY <1>1, <1>2, <1>3, <1>5, TakesFollows DEF Shows
<1>7. Shows(p)'
  BY <1>1, <1>3, <1>4, <1>6 DEF Shows
<1>8. view' \in [Pages -> Row]
  BY <1>1, <1>6
<1>9. LinkInv'
  <2>1. CASE e.kind = "run_failed"
    BY <1>1, <1>8, <2>1, EndLinks
  <2>2. CASE e.kind # "run_failed"
    <3>1. \A d \in Streams : stream[d] = "free" => queue'[d] = queue[d]
      BY <1>1, <1>6, <2>2
    <3> QED  BY <1>1, <1>6, <1>8, <2>2, <3>1, LinkKept DEF LinkInv
  <2> QED  BY <2>1, <2>2
<1> QED  BY <1>1, <1>7, <1>9

\* The generator of a page that has gone.
LEMMA ReapPage ==
  ASSUME LinkInv, RegistryInv, NEW p \in Pages, Pages = {p}, NEW g \in Streams, Reap(g),
         Away(p) \/ Loads(p) \/ Shows(p)
  PROVE  LinkInv' /\ UNCHANGED driver /\ (Away(p) \/ Loads(p) \/ Shows(p))'
<1>1. stream[g] = "lost" /\ End(g) /\ UNCHANGED <<driver, view, get, post>>
  BY DEF Reap
<1>2. LinkInv'
  BY <1>1, EndLinks DEF LinkInv
<1>3. conn[p] # g
  BY <1>1, LinkFacts
<1>4. conn'[p] = conn[p] /\ \A d \in Streams : d # g => queue'[d] = queue[d]
  BY <1>1, <1>3 DEF End, RegistryInv, Shape
<1>5. Coming(p)' = Coming(p)
  BY <1>3, <1>4 DEF Coming
<1> QED  BY <1>1, <1>2, <1>4, <1>5, PageKept

LEMMA SubscribePage ==
  ASSUME LinkInv, RegistryInv, NEW p \in Pages, Pages = {p}, NEW g \in Streams, Subscribe(p, g),
         Away(p) \/ Loads(p) \/ Shows(p)
  PROVE  LinkInv' /\ UNCHANGED driver /\ (Away(p) \/ Loads(p) \/ Shows(p))'
<1>1. /\ LinkInv' /\ Coming(p) = <<>> /\ Coming(p)' = <<>> /\ conn'[p] # "closed"
      /\ UNCHANGED <<driver, view, get, post>>
  BY SubscribeLinks
<1>2. conn[p] # "closed"
  BY DEF Subscribe
<1> QED  BY <1>1, <1>2, PageKept

LEMMA OpenPage ==
  ASSUME OneCalmPage, LinkInv, RegistryInv, RowInv, NEW p \in Pages, Pages = {p}, Open(p),
         Away(p) \/ Loads(p) \/ Shows(p)
  PROVE  LinkInv' /\ UNCHANGED driver /\ (Away(p) \/ Loads(p) \/ Shows(p))'
<1>1. /\ conn[p] = "closed" /\ work = <<>> /\ (at = 0 \/ row.stage = 0)
      /\ conn' = [conn EXCEPT ![p] = "opening"] /\ get' = [get EXCEPT ![p] = [NoGet EXCEPT !.is = "sent"]]
      /\ UNCHANGED <<driver, registry, view, post>> /\ row' = row
  BY DEF Open, OneCalmPage, Waiting, driver
<1>2. Away(p)
  BY <1>1 DEF Loads, Shows
<1>3. [NoGet EXCEPT !.is = "sent"] = [is |-> "sent", row |-> Unread] /\ Unread \in Row
  BY StatusesAre DEF NoGet, Unread, Row, RunStatus, GateState
<1>4. /\ get' \in [Pages -> Get] /\ get'[p].is = "sent"
      /\ conn' \in [Pages -> Streams \cup {"closed", "opening"}] /\ conn'[p] = "opening"
  BY <1>1, <1>3 DEF LinkInv, Get
<1>5. "opening" \notin Streams /\ "closed" \notin Streams /\ \A g \in Streams : stream[g] # "live"
  BY <1>1, LinkFacts
<1>6. LinkInv'
  <2>1. UNCHANGED <<registered, stream, queue, view, post>>
    BY <1>1 DEF registry
  <2> QED  BY <1>4, <1>5, <2>1 DEF LinkInv
<1>7. Coming(p)' = <<>>
  BY <1>4, <1>5 DEF Coming
<1>8. Awaiting \/ Failed \/ Completed \/ (Executing /\ row.stage = 0)
  BY <1>1, Resting, StageBounds DEF Executing, RowReady
<1>9. Loads(p)'
  BY <1>1, <1>2, <1>4, <1>7, <1>8, PhasesKept DEF Loads, Away
<1> QED  BY <1>1, <1>6, <1>9

LEMMA ReadPage ==
  ASSUME LinkInv, RegistryInv, RowInv, NEW p \in Pages, Pages = {p}, Read(p),
         Away(p) \/ Loads(p) \/ Shows(p)
  PROVE  LinkInv' /\ UNCHANGED driver /\ (Away(p) \/ Loads(p) \/ Shows(p))'
<1>1. /\ get[p].is = "sent" /\ get' = [get EXCEPT ![p] = [is |-> "answered", row |-> row]]
      /\ UNCHANGED <<driver, registry, view, conn, post>> /\ row' = row /\ row \in Row
  BY DEF Read, driver, RowInv
<1>2. Loads(p)
  BY <1>1 DEF Away, Shows
<1>3. get' \in [Pages -> Get] /\ get'[p].is = "answered" /\ get'[p].row = row
  BY <1>1 DEF LinkInv, Get
<1>4. UNCHANGED <<registered, stream, queue, view, conn, post>>
  BY <1>1 DEF registry
<1>5. LinkInv'
  BY <1>3, <1>4, LinkKept DEF LinkInv
<1>6. Coming(p)' = Coming(p)
  BY <1>4 DEF Coming
<1>7. Loads(p)'
  BY <1>1, <1>2, <1>3, <1>4, <1>6, PhasesKept DEF Loads
<1> QED  BY <1>1, <1>5, <1>7

\* A page that shows what it has read is where the row is.
LEMMA ShowPage ==
  ASSUME LinkInv, RegistryInv, RowInv, NEW p \in Pages, Pages = {p}, Show(p),
         Away(p) \/ Loads(p) \/ Shows(p)
  PROVE  LinkInv' /\ UNCHANGED driver /\ (Away(p) \/ Loads(p) \/ Shows(p))'
<1>1. /\ get[p].is = "answered" /\ view' = [view EXCEPT ![p] = get[p].row]
      /\ get' = [get EXCEPT ![p] = NoGet] /\ UNCHANGED <<driver, registry, conn, post>>
      /\ row' = row /\ at' = at
  BY DEF Show, driver
<1>2. Loads(p)
  BY <1>1 DEF Away, Shows
<1>3. row \in Row /\ RowLow /\ NoGet \in Get
  BY StatusesAre DEF RowInv, NoGet, Get, Unread, Row, RunStatus, GateState
<1>4. /\ view' \in [Pages -> Row] /\ view'[p] = row /\ get' \in [Pages -> Get] /\ get'[p].is = "none"
  BY <1>1, <1>2, <1>3 DEF LinkInv, Loads, NoGet
<1>5. UNCHANGED <<registered, stream, queue, conn, post>>
  BY <1>1 DEF registry
<1>6. LinkInv'
  BY <1>4, <1>5, LinkKept DEF LinkInv
<1>7. Coming(p)' = <<>> /\ Idle(p)' /\ conn'[p] # "closed"
  BY <1>2, <1>5 DEF Coming, Loads, Idle, Asks, NoPost
<1>8. \A t \in Stages : t < row.stage => row.gates[t] # "pending"
  BY <1>3 DEF RowLow
<1>9. Follows(p)' /\ row.status # "unread"
  <2>1. CASE Awaiting
    <3>1. SeesAwaiting(p)'
      BY <1>1, <1>4, <1>7, <1>8, <2>1 DEF SeesAwaiting, Stands, Ready, Awaiting
    <3>2. Awaiting' /\ row.status # "unread"
      BY <1>1, <2>1, PhasesKept DEF Awaiting
    <3> QED  BY <3>1, <3>2 DEF Follows
  <2>2. CASE Failed
    <3>1. SeesFailed(p)'
      BY <1>1, <1>4, <1>7, <1>8, <2>2 DEF SeesFailed, Ready, Failed, Retryable
    <3>2. Failed' /\ row.status # "unread"
      BY <1>1, <2>2, PhasesKept DEF Failed
    <3> QED  BY <3>1, <3>2 DEF Follows
  <2>3. CASE Completed
    <3>1. \A t \in Stages : row.gates[t] = "approved"
      <4> SUFFICES ASSUME NEW t \in Stages PROVE row.gates[t] = "approved"
        OBVIOUS
      <4>1. t = N \/ t < N
        BY StageBounds
      <4> QED  BY <1>3, <2>3, <4>1 DEF Completed, RowLow
    <3>2. Calm(row) /\ Ready(row, N)
      BY <2>3, <3>1 DEF Calm, Decidable, Reached, Completed, Ready
    <3>3. SeesCompleted(p)'
      BY <1>4, <1>7, <3>2 DEF SeesCompleted
    <3>4. Completed' /\ row.status # "unread"
      BY <1>1, <2>3, PhasesKept DEF Completed
    <3> QED  BY <3>3, <3>4 DEF Follows
  <2>4. CASE Executing /\ row.stage = 0
    <3>1. at = Scenario /\ row.status = "running"
      BY <2>4, StageBounds DEF Executing, RowReady
    <3>2. Calm(row) /\ Ready(row, at)
      <4>1. Reached(row) = {}
        BY <2>4, <3>1 DEF Reached
      <4>2. \A t \in Stages : ~(t < at)
        BY <3>1, StageBounds
      <4> QED  BY <4>1, <4>2 DEF Calm, Decidable, Ready
    <3>3. SeesExecuting(p)'
      BY <1>1, <1>4, <1>7, <3>2, LeadNone DEF SeesExecuting
    <3>4. Executing' /\ row.status # "unread"
      BY <1>1, <2>4, <3>1, PhasesKept
    <3> QED  BY <3>3, <3>4 DEF Follows
  <2> QED  BY <1>2, <2>1, <2>2, <2>3, <2>4 DEF Loads
<1>10. Shows(p)'
  BY <1>4, <1>7, <1>9 DEF Shows
<1> QED  BY <1>1, <1>6, <1>10

-----------------------------------------------------------------------------
(* The page and its requests. *)

\* What a page that shows the gate of s, and is calm before it, can ask for.
LEMMA AskedOf ==
  ASSUME NEW v \in Row, NEW s \in Stages, v.stage = s, v.status # "complete", Ready(v, s)
  PROVE  /\ \A t \in CanRetry(v) : t <= s
         /\ \A t \in Decidable(v) : t = s
         /\ v.gates[s] # "pending" => Decidable(v) = {}
<1>1. Reached(v) = 1 .. s
  BY DEF Reached
<1>2. \A t \in CanRetry(v) : t <= s
  BY <1>1, StageBounds DEF CanRetry
<1>3. ASSUME NEW t \in Decidable(v) PROVE t = s /\ v.gates[t] = "pending"
  <2>1. t \in 1 .. s /\ v.gates[t] = "pending"
    BY <1>1 DEF Decidable
  <2>2. t \in Stages /\ t <= s
    BY <2>1, StageBounds DEF Stages
  <2>3. ~(t < s)
    BY <2>1, <2>2 DEF Ready
  <2> QED  BY <2>1, <2>2, <2>3, StageBounds
<1> QED  BY <1>2, <1>3

LEMMA AskPage ==
  ASSUME OneCalmPage, LinkInv, RegistryInv, RowInv, NEW p \in Pages, Pages = {p},
         NEW kind \in Requests, NEW s \in Stages, Ask(p, kind, s),
         Away(p) \/ Loads(p) \/ Shows(p)
  PROVE  LinkInv' /\ UNCHANGED driver /\ (Away(p) \/ Loads(p) \/ Shows(p))'
<1>1. /\ view[p].status # "unread" /\ post[p].is = "none" /\ work = <<>>
      /\ conn[p] \in Streams => queue[conn[p]] = <<>>
      /\ s \in IF kind = "retry" THEN CanRetry(view[p]) ELSE Decidable(view[p])
      /\ post' = [post EXCEPT ![p] = [is |-> "sent", kind |-> kind, stage |-> s, ok |-> FALSE]]
      /\ UNCHANGED <<driver, registry, view, get, conn>> /\ row' = row
  BY DEF Ask, OneCalmPage, driver
<1>2. Shows(p) /\ Coming(p) = <<>> /\ view[p] \in Row
  BY <1>1, LinkFacts DEF Away, Loads, Unread, Coming
<1>3. post'[p].is = "sent" /\ post'[p].kind = kind /\ post'[p].stage = s /\ ~post'[p].ok
  BY <1>1 DEF RegistryInv, Shape
<1>4. UNCHANGED <<registered, stream, queue>>
  BY <1>1 DEF registry
<1>5. LinkInv'
  <2>1. \A o \in Pages : post'[o].is = "sent" => ~post'[o].ok /\ post'[o].stage \in Stages
    BY <1>3
  <2> QED  BY <1>1, <1>4, <2>1, LinkKept DEF LinkInv
<1>6. Coming(p)' = <<>> /\ view'[p] = view[p]
  BY <1>1, <1>2, <1>4 DEF Coming
<1>7. Follows(p)'
  <2>1. CASE Awaiting /\ SeesAwaiting(p)
    <3>0. row.stage \in Stages /\ Awaiting'
      BY <1>1, <2>1, PhasesKept DEF Awaiting, Stopped
    <3>1. Stands(p, row.stage) /\ view[p].gates[row.stage] = "pending"
      <4>1. ~ \E l \in Seq(Event) : Coming(p) = Append(l, Gate(row.stage))
        BY <1>2, <3>0, EventsAre, AppendFacts
      <4> QED  BY <2>1, <4>1 DEF SeesAwaiting
    <3>2. IF kind = "retry" THEN s <= row.stage ELSE s = row.stage
      BY <1>1, <1>2, <3>0, <3>1, AskedOf DEF Stands
    <3>3. AsksRetry(p)' \/ AsksDecision(p)'
      BY <1>1, <1>3, <3>2 DEF AsksRetry, AsksDecision
    <3>4. SeesAwaiting(p)'
      BY <1>1, <1>6, <3>1, <3>3 DEF SeesAwaiting, Stands
    <3> QED  BY <3>0, <3>4 DEF Follows
  <2>2. CASE Failed /\ SeesFailed(p)
    <3>0. row.stage \in Stages /\ Failed'
      BY <1>1, <2>2, PhasesKept DEF Failed, Stopped
    <3>1. /\ Ready(view[p], row.stage) /\ view[p].status = "failed" /\ view[p].stage = row.stage
          /\ view[p].gates[row.stage] \in Retryable
      <4>1. Coming(p) # <<Fail(row.stage)>> /\ ~ \E l \in Seq(Event) : Coming(p) = Append(l, Fail(row.stage))
        BY <1>2, <3>0, EventsAre, AppendFacts
      <4> QED  BY <2>2, <4>1 DEF SeesFailed
    <3>2. kind = "retry" /\ s <= row.stage
      <4>1. view[p].gates[row.stage] # "pending"
        BY <3>1 DEF Retryable
      <4> QED  BY <1>1, <1>2, <3>0, <3>1, <4>1, AskedOf
    <3>3. AsksRetry(p)'
      BY <1>1, <1>3, <3>2 DEF AsksRetry
    <3>4. SeesFailed(p)'
      BY <1>1, <1>6, <3>1, <3>3 DEF SeesFailed
    <3> QED  BY <3>0, <3>4 DEF Follows
  <2>3. CASE Completed /\ SeesCompleted(p)
    <3>1. Ready(view[p], N) /\ Calm(view[p]) /\ Completed' /\ row.stage = N
      BY <1>1, <2>3, PhasesKept DEF SeesCompleted, Decided, Completed
    <3>2. kind = "retry" /\ s <= row.stage
      BY <1>1, <3>1, StageBounds DEF Calm
    <3>3. AsksRetry(p)'
      BY <1>1, <1>3, <3>2 DEF AsksRetry
    <3>4. SeesCompleted(p)'
      BY <1>6, <3>1, <3>3 DEF SeesCompleted
    <3> QED  BY <3>1, <3>4 DEF Follows
  <2>4. CASE Executing /\ SeesExecuting(p)
    <3>1. /\ Leading(Coming(p), view[p], at) /\ Ready(view[p], at) /\ Calm(view[p]) /\ Executing' /\ at' = at
      BY <1>1, <2>4, PhasesKept DEF SeesExecuting, Decided, driver
    <3>2. SeesExecuting(p)'
      BY <1>2, <1>3, <1>6, <3>1 DEF SeesExecuting, Asks
    <3> QED  BY <3>1, <3>2 DEF Follows
  <2> QED  BY <1>1, <1>2, <2>1, <2>2, <2>3, <2>4, Busy DEF Shows, Follows
<1>8. Shows(p)'
  BY <1>1, <1>2, <1>6, <1>7 DEF Shows
<1> QED  BY <1>1, <1>5, <1>8

\* Where the page's request is when it reaches the server.
LEMMA SentFrom ==
  ASSUME NEW p \in Pages, Follows(p), post[p].is = "sent"
  PROVE  /\ work = <<>>
         /\ \/ /\ Awaiting /\ Coming(p) = <<>> /\ Stands(p, row.stage)
               /\ view[p].gates[row.stage] = "pending" /\ (AsksRetry(p) \/ AsksDecision(p))
            \/ /\ Failed /\ Coming(p) = <<>> /\ Ready(view[p], row.stage)
               /\ view[p].status = "failed" /\ view[p].stage = row.stage
               /\ view[p].gates[row.stage] \in Retryable /\ AsksRetry(p)
            \/ /\ Completed /\ Coming(p) = <<>> /\ Ready(view[p], N) /\ Calm(view[p]) /\ AsksRetry(p)
            \/ /\ Executing /\ Leading(Coming(p), view[p], at) /\ Ready(view[p], at) /\ Calm(view[p])
<1>0. /\ ~Idle(p) /\ ~Asks(p, "none") /\ \A s : ~Decided(p, s)
  BY DEF Idle, Asks, Refused, Decided
<1>1. CASE Awaiting /\ SeesAwaiting(p)
  BY <1>0, <1>1 DEF SeesAwaiting, Awaiting, Stopped
<1>2. CASE Failed /\ SeesFailed(p)
  BY <1>0, <1>2 DEF SeesFailed, Failed, Stopped
<1>3. CASE Completed /\ SeesCompleted(p)
  BY <1>0, <1>3 DEF SeesCompleted, Completed, Stopped
<1>4. CASE Executing /\ SeesExecuting(p)
  BY <1>0, <1>4 DEF SeesExecuting, Executing
<1>5. \A s \in Stages : ~SeesPausing(p, s) /\ ~SeesEnding(p, s) /\ ~SeesDecided(p, s) /\ ~SeesRetrying(p, s)
  BY <1>0 DEF SeesPausing, SeesEnding, SeesDecided, SeesRetrying
<1> QED  BY <1>1, <1>2, <1>3, <1>4, <1>5 DEF Follows

\* Refused, the request changes nothing but itself; accepted, the driver takes
\* it up with the page where its gate is.
LEMMA ReceivePage ==
  ASSUME LinkInv, RegistryInv, RowInv, NEW p \in Pages, Pages = {p}, Receive(p),
         Away(p) \/ Loads(p) \/ Shows(p)
  PROVE  LinkInv' /\ RowInv' /\ (Away(p) \/ Loads(p) \/ Shows(p))'
<1> SUFFICES ASSUME NEW q, q = post[p], NEW s, s = q.stage
             PROVE  LinkInv' /\ RowInv' /\ (Away(p) \/ Loads(p) \/ Shows(p))'
  OBVIOUS
<1>1. /\ q \in Post /\ q.is = "sent" /\ ~q.ok /\ s \in Stages /\ q.kind \in {"approve", "reject", "retry"}
      /\ post \in [Pages -> Post] /\ row \in Row /\ RowLow
      /\ UNCHANGED <<row, registry, view, get, conn>>
      /\ \/ /\ ~Accepts(q) /\ post' = [post EXCEPT ![p].is = "answered"] /\ UNCHANGED <<work, at>>
         \/ /\ Accepts(q) /\ q.kind = "approve" /\ work' = Approved(s) /\ at' = AfterApproval(s)
            /\ post' = [post EXCEPT ![p].is = "answered", ![p].ok = TRUE]
         \/ /\ Accepts(q) /\ q.kind = "reject" /\ work' = Rejected(s)
            /\ at' = (IF s = Scenario THEN 0 ELSE s)
            /\ post' = [post EXCEPT ![p].is = "answered", ![p].ok = TRUE]
         \/ /\ Accepts(q) /\ q.kind = "retry" /\ work' = Retried(s, p) /\ at' = s
            /\ post' = [post EXCEPT ![p].is = "taken"]
  <2>1. q \in Post /\ post \in [Pages -> Post] /\ row \in Row /\ RowLow
    BY DEF RegistryInv, Shape, RowInv
  <2>2. q.kind \in {"approve", "reject", "retry"}
    BY <2>1, RequestsAssumption DEF Post
  <2>3. q.is = "sent" /\ UNCHANGED <<row, registry, view, get, conn>>
    BY DEF Receive
  <2>4. ~q.ok /\ s \in Stages
    BY <2>3 DEF LinkInv
  <2> QED  BY <2>1, <2>2, <2>3, <2>4 DEF Receive
<1>2. Shows(p)
  BY <1>1 DEF Away, Loads, NoPost
<1>3. UNCHANGED <<registered, stream, queue>> /\ Coming(p)' = Coming(p) /\ view'[p] = view[p]
  BY <1>1 DEF registry, Coming
<1>4. LinkInv'
  <2>1. post'[p].is \in {"answered", "taken"}
    BY <1>1 DEF Post
  <2>2. \A o \in Pages : post'[o].is = "sent" => ~post'[o].ok /\ post'[o].stage \in Stages
    BY <2>1
  <2> QED  BY <1>1, <1>3, <2>2, LinkKept DEF LinkInv
<1>5. /\ \/ /\ Awaiting /\ Coming(p) = <<>> /\ Stands(p, row.stage)
            /\ view[p].gates[row.stage] = "pending" /\ (AsksRetry(p) \/ AsksDecision(p))
         \/ /\ Failed /\ Coming(p) = <<>> /\ Ready(view[p], row.stage)
            /\ view[p].status = "failed" /\ view[p].stage = row.stage
            /\ view[p].gates[row.stage] \in Retryable /\ AsksRetry(p)
         \/ /\ Completed /\ Coming(p) = <<>> /\ Ready(view[p], N) /\ Calm(view[p]) /\ AsksRetry(p)
         \/ /\ Executing /\ Leading(Coming(p), view[p], at) /\ Ready(view[p], at) /\ Calm(view[p])
  BY <1>1, <1>2, SentFrom DEF Shows
<1>6. ASSUME RowInv', Follows(p)' PROVE LinkInv' /\ RowInv' /\ (Away(p) \/ Loads(p) \/ Shows(p))'
  <2>1. Shows(p)'
    BY <1>1, <1>2, <1>3, <1>6 DEF Shows
  <2> QED  BY <1>4, <1>6, <2>1
<1>7. CASE ~Accepts(q) /\ post' = [post EXCEPT ![p].is = "answered"] /\ UNCHANGED <<work, at>>
  <2>1. Idle(p)' /\ UNCHANGED driver
    BY <1>1, <1>7 DEF Idle, Refused, Post, driver
  <2>2. row' = row /\ at' = at
    BY <2>1 DEF driver
  <2>3. CASE /\ Awaiting /\ Coming(p) = <<>> /\ Stands(p, row.stage)
             /\ view[p].gates[row.stage] = "pending"
    <3>1. SeesAwaiting(p)' /\ Awaiting'
      BY <1>3, <2>1, <2>2, <2>3, PhasesKept DEF SeesAwaiting, Stands
    <3> QED  BY <1>6, <2>1, <3>1, RowKept DEF Follows
  <2>4. CASE /\ Failed /\ Coming(p) = <<>> /\ Ready(view[p], row.stage)
             /\ view[p].status = "failed" /\ view[p].stage = row.stage
             /\ view[p].gates[row.stage] \in Retryable
    <3>1. SeesFailed(p)' /\ Failed'
      BY <1>3, <2>1, <2>2, <2>4, PhasesKept DEF SeesFailed
    <3> QED  BY <1>6, <2>1, <3>1, RowKept DEF Follows
  <2>5. CASE Completed /\ Coming(p) = <<>> /\ Ready(view[p], N) /\ Calm(view[p])
    <3>1. SeesCompleted(p)' /\ Completed'
      BY <1>3, <2>1, <2>2, <2>5, PhasesKept DEF SeesCompleted
    <3> QED  BY <1>6, <2>1, <3>1, RowKept DEF Follows
  <2>6. CASE Executing /\ Leading(Coming(p), view[p], at) /\ Ready(view[p], at) /\ Calm(view[p])
    <3>1. SeesExecuting(p)' /\ Executing'
      BY <1>3, <2>1, <2>2, <2>6, PhasesKept DEF SeesExecuting
    <3> QED  BY <1>6, <2>1, <3>1, RowKept DEF Follows
  <2> QED  BY <1>5, <2>3, <2>4, <2>5, <2>6
<1>8. CASE /\ Accepts(q) /\ q.kind \in {"approve", "reject"}
           /\ \/ work' = Approved(s) /\ at' = AfterApproval(s)
              \/ work' = Rejected(s) /\ at' = (IF s = Scenario THEN 0 ELSE s)
           /\ post' = [post EXCEPT ![p].is = "answered", ![p].ok = TRUE]
  <2>1. row.status = "awaiting_approval" /\ q.kind # "retry"
    BY <1>8 DEF Accepts
  <2>2. Awaiting /\ Coming(p) = <<>> /\ Stands(p, row.stage) /\ s = row.stage
    BY <1>5, <2>1 DEF Failed, Completed, Executing, RowReady, AsksRetry, AsksDecision
  <2>3. Approving(s)' \/ Rejecting(s)'
    BY <1>1, <1>8, <2>2 DEF Approving, Rejecting
  <2>4. RowInv'
    BY <1>1, <2>3 DEF RowInv, RowLow
  <2>5. Decided(p, s)'
    <3>1. post'[p] = [q EXCEPT !.is = "answered", !.ok = TRUE]
      BY <1>1, <1>8
    <3>2. post'[p].is = "answered" /\ post'[p].ok /\ post'[p].kind = q.kind /\ post'[p].stage = s
      BY <1>1, <3>1 DEF Post
    <3> QED  BY <1>8, <3>2 DEF Decided
  <2>6. SeesDecided(p, s)'
    BY <1>3, <2>2, <2>5 DEF SeesDecided, Stands
  <2>7. Follows(p)'
    BY <1>1, <2>3, <2>6 DEF Follows
  <2> QED  BY <1>6, <2>4, <2>7
<1>9. CASE /\ Accepts(q) /\ q.kind = "retry" /\ work' = Retried(s, p) /\ at' = s
           /\ post' = [post EXCEPT ![p].is = "taken"]
  <2>1. row.status \in {"awaiting_approval", "failed", "complete"}
    BY <1>9 DEF Accepts
  <2>2. Coming(p) = <<>> /\ Ready(view[p], row.stage) /\ s <= row.stage /\ row.stage \in Stages
    BY <1>5, <1>9, <2>1, StageBounds
    DEF Executing, RowReady, AsksRetry, AsksDecision, Stands, Awaiting, Failed, Completed, Stopped
  <2>3. Retrying(s)'
    BY <1>1, <1>9, <2>2 DEF Retrying
  <2>4. RowInv'
    BY <1>1, <2>3 DEF RowInv, RowLow
  <2>5. Ready(view[p], s)
    <3> SUFFICES ASSUME NEW t \in Stages, t < s PROVE view[p].gates[t] # "pending"
      BY DEF Ready
    <3>1. t < row.stage
      BY <1>1, <2>2, StageBounds
    <3> QED  BY <2>2, <3>1 DEF Ready
  <2>6. post'[p].is = "taken" /\ post'[p].kind = "retry" /\ post'[p].stage = s
    BY <1>1, <1>9 DEF Post
  <2>7. SeesRetrying(p, s)'
    BY <1>3, <2>2, <2>5, <2>6, LeadNone DEF SeesRetrying
  <2>8. Follows(p)'
    BY <1>1, <2>3, <2>7 DEF Follows
  <2> QED  BY <1>6, <2>4, <2>8
<1> QED  BY <1>1, <1>7, <1>8, <1>9

\* What a decision's answer makes of the gate's page.
LEMMA AnsweredDecision ==
  ASSUME NEW v \in Row, v.status \notin {"unread", "complete"}, NEW q \in Post, q.ok,
         q.kind \in {"approve", "reject"}, NEW s \in Stages, q.stage = s, v.stage = s, Ready(v, s)
  PROVE  LET u == Answered(v, q) IN
         /\ u \in Row /\ u.status = v.status /\ u.stage = s /\ Ready(u, s)
         /\ u.gates[s] \in {"approved", "rejected"} /\ Calm(u)
         /\ \A a \in Stages : a <= s + 1 => Ready(u, a)
<1> SUFFICES ASSUME NEW u, u = Answered(v, q)
    PROVE  /\ u \in Row /\ u.status = v.status /\ u.stage = s /\ Ready(u, s)
           /\ u.gates[s] \in {"approved", "rejected"} /\ Calm(u)
           /\ \A a \in Stages : a <= s + 1 => Ready(u, a)
  OBVIOUS
<1>1. /\ u \in Row /\ u.status = v.status /\ u.stage = v.stage /\ u.gates[s] \in {"approved", "rejected"}
      /\ \A t \in Stages : t # s => u.gates[t] = v.gates[t]
  BY DecidedFacts
<1>2. Ready(u, s)
  BY <1>1, StageBounds DEF Ready
<1> QED  BY <1>1, <1>2, CalmAt

LEMMA AnswerPage ==
  ASSUME LinkInv, RegistryInv, RowInv, NEW p \in Pages, Pages = {p}, Answer(p),
         Away(p) \/ Loads(p) \/ Shows(p)
  PROVE  LinkInv' /\ UNCHANGED driver /\ (Away(p) \/ Loads(p) \/ Shows(p))'
<1> SUFFICES ASSUME NEW q, q = post[p], NEW v, v = view[p]
             PROVE  LinkInv' /\ UNCHANGED driver /\ (Away(p) \/ Loads(p) \/ Shows(p))'
  OBVIOUS
<1>1. /\ q.is = "answered" /\ q \in Post /\ v \in Row /\ view'[p] = Answered(v, q)
      /\ view' = [view EXCEPT ![p] = Answered(v, q)]
      /\ post' = [post EXCEPT ![p] = NoPost] /\ post'[p] = NoPost
      /\ UNCHANGED <<driver, registry, get, conn>> /\ row' = row /\ at' = at
  BY DEF Answer, RegistryInv, Shape, LinkInv, driver
<1>2. Shows(p) /\ v.status # "unread"
  BY <1>1 DEF Away, Loads, Shows, NoPost
<1>3. UNCHANGED <<registered, stream, queue>> /\ Coming(p)' = Coming(p)
  BY <1>1 DEF registry, Coming
<1>4. Asks(p, "none")' /\ Idle(p)'
  BY <1>1 DEF Asks, Idle, NoPost
<1>5. ASSUME Follows(p)', view'[p] \in Row, view'[p].status # "unread"
      PROVE  LinkInv' /\ UNCHANGED driver /\ (Away(p) \/ Loads(p) \/ Shows(p))'
  <2>1. view' \in [Pages -> Row]
    BY <1>1, <1>5 DEF LinkInv
  <2>2. \A o \in Pages : post'[o].is = "sent" => ~post'[o].ok /\ post'[o].stage \in Stages
    BY <1>1 DEF NoPost
  <2>3. LinkInv'
    BY <1>1, <1>3, <2>1, <2>2, LinkKept DEF LinkInv
  <2>4. Shows(p)'
    BY <1>1, <1>2, <1>5 DEF Shows
  <2> QED  BY <1>1, <2>3, <2>4
<1>6. ~q.ok => view'[p] = v
  BY <1>1, RefusedFacts
<1>7. \A s \in Stages : Decided(p, s) /\ Stands(p, s) =>
        /\ view'[p] \in Row /\ view'[p].status = "awaiting_approval" /\ view'[p].stage = s
        /\ Ready(view'[p], s) /\ Calm(view'[p]) /\ view'[p].gates[s] \in {"approved", "rejected"}
        /\ \A a \in Stages : a <= s + 1 => Ready(view'[p], a)
  <2> SUFFICES ASSUME NEW s \in Stages, Decided(p, s), Stands(p, s)
      PROVE /\ view'[p] \in Row /\ view'[p].status = "awaiting_approval" /\ view'[p].stage = s
            /\ Ready(view'[p], s) /\ Calm(view'[p]) /\ view'[p].gates[s] \in {"approved", "rejected"}
            /\ \A a \in Stages : a <= s + 1 => Ready(view'[p], a)
    OBVIOUS
  <2>1. /\ q.ok /\ q.kind \in {"approve", "reject"} /\ q.stage = s /\ v.stage = s
        /\ v.status = "awaiting_approval" /\ Ready(v, s)
    BY DEF Decided, Stands
  <2> QED  BY <1>1, <2>1, AnsweredDecision
<1>8. CASE Awaiting /\ SeesAwaiting(p)
  <2>1. Coming(p) = <<>> /\ Stands(p, row.stage) /\ v.gates[row.stage] = "pending" /\ ~q.ok
    BY <1>1, <1>8 DEF SeesAwaiting, Asks, AsksRetry, AsksDecision, Idle, Refused
  <2>2. SeesAwaiting(p)'
    BY <1>1, <1>3, <1>4, <1>6, <2>1 DEF SeesAwaiting, Stands
  <2>3. Awaiting'
    BY <1>1, <1>8, PhasesKept
  <2> QED  BY <1>1, <1>2, <1>5, <1>6, <2>1, <2>2, <2>3 DEF Follows
<1>9. CASE Failed /\ SeesFailed(p)
  <2> SUFFICES ASSUME NEW s, s = row.stage
               PROVE  Follows(p)' /\ view'[p] \in Row /\ view'[p].status # "unread"
    BY <1>5
  <2>0. s \in Stages /\ Failed' /\ row'.stage = s
    BY <1>1, <1>9, PhasesKept DEF Failed, Stopped
  <2>1. ASSUME /\ Coming(p) = <<>> /\ Ready(v, s) /\ v.status = "failed" /\ v.stage = s
               /\ v.gates[s] \in Retryable
        PROVE  Follows(p)' /\ view'[p] \in Row /\ view'[p].status # "unread"
    <3>1. CASE ~q.ok
      <4>1. SeesFailed(p)'
        BY <1>3, <1>4, <1>6, <2>0, <2>1, <3>1 DEF SeesFailed
      <4> QED  BY <1>1, <1>2, <1>6, <2>0, <3>1, <4>1 DEF Follows
    <3>2. CASE Decided(p, s)
      <4>1. /\ view'[p] \in Row /\ view'[p].status = "failed" /\ view'[p].stage = s
            /\ Ready(view'[p], s) /\ view'[p].gates[s] \in {"approved", "rejected"}
        BY <1>1, <2>0, <2>1, <3>2, AnsweredDecision DEF Decided
      <4>2. SeesFailed(p)'
        BY <1>3, <1>4, <2>0, <2>1, <4>1 DEF SeesFailed, Retryable
      <4> QED  BY <2>0, <4>1, <4>2 DEF Follows
    <3> QED  BY <1>1, <1>9, <2>1, <3>1, <3>2, <2>0, EventsAre, AppendFacts
             DEF SeesFailed, Idle, Refused, Asks, AsksRetry
  <2>2. CASE Coming(p) = <<Fail(s)>> /\ Stands(p, s) /\ Decided(p, s)
    <3>1. /\ view'[p] \in Row /\ view'[p].status = "awaiting_approval"
          /\ Ready(view'[p], s) /\ Calm(view'[p])
      BY <1>7, <2>0, <2>2
    <3>2. Coming(p)' = Append(<<>>, Fail(s)) /\ <<>> \in Seq(Event) /\ Leading(<<>>, view'[p], s)
      BY <1>3, <2>2, EmptySeq, LeadNone
    <3>3. \E l \in Seq(Event) : Leading(l, view'[p], s) /\ Coming(p)' = Append(l, Fail(s))
      BY <3>2
    <3>4. SeesFailed(p)'
      BY <1>4, <2>0, <3>1, <3>3 DEF SeesFailed
    <3> QED  BY <2>0, <3>1, <3>4 DEF Follows
  <2> QED  BY <1>1, <1>9, <2>1, <2>2 DEF SeesFailed, Asks
<1>10. CASE Completed /\ SeesCompleted(p)
  <2>0. Coming(p) = <<>> /\ Ready(v, N) /\ N \in Stages /\ Completed'
    BY <1>1, <1>10, PhasesKept, StageBounds DEF SeesCompleted
  <2>1. CASE Decided(p, N) /\ Stands(p, N)
    <3>1. /\ view'[p] \in Row /\ view'[p].status = "awaiting_approval"
          /\ Ready(view'[p], N) /\ Calm(view'[p])
      BY <1>7, <2>0, <2>1
    <3>2. SeesCompleted(p)'
      BY <1>3, <1>4, <2>0, <3>1 DEF SeesCompleted
    <3> QED  BY <1>5, <2>0, <3>1, <3>2 DEF Follows
  <2>2. CASE Calm(v) /\ ~q.ok
    <3>1. SeesCompleted(p)'
      BY <1>3, <1>4, <1>6, <2>0, <2>2 DEF SeesCompleted
    <3> QED  BY <1>1, <1>2, <1>5, <1>6, <2>0, <2>2, <3>1 DEF Follows
  <2> QED  BY <1>1, <1>10, <2>1, <2>2 DEF SeesCompleted, Idle, Refused, Asks, AsksRetry
<1>11. CASE Executing /\ SeesExecuting(p)
  <2>0. at \in Stages /\ Executing'
    BY <1>1, <1>11, PhasesKept DEF Executing, RowReady
  <2>1. CASE Coming(p) = <<>> /\ row.stage # 0 /\ Stands(p, row.stage) /\ Decided(p, row.stage)
    <3>1. row.stage \in Stages /\ at <= row.stage + 1
      BY <1>11, <2>0, <2>1, StageBounds DEF Executing, RowReady
    <3>2. /\ view'[p] \in Row /\ view'[p].status = "awaiting_approval" /\ Calm(view'[p])
          /\ Ready(view'[p], at)
      BY <1>7, <2>0, <2>1, <3>1
    <3>3. SeesExecuting(p)'
      BY <1>1, <1>3, <1>4, <2>1, <3>2, LeadNone DEF SeesExecuting
    <3> QED  BY <1>5, <2>0, <3>2, <3>3 DEF Follows
  <2>2. CASE Leading(Coming(p), v, at) /\ Ready(v, at) /\ Calm(v) /\ ~q.ok
    <3>1. SeesExecuting(p)'
      BY <1>1, <1>3, <1>4, <1>6, <2>2 DEF SeesExecuting
    <3> QED  BY <1>1, <1>2, <1>5, <1>6, <2>0, <2>2, <3>1 DEF Follows
  <2>3. CASE /\ Leading(Coming(p), v, at) /\ Ready(v, at)
             /\ q.ok /\ q.kind = "retry" /\ q.stage = at
    <3> SUFFICES ASSUME NEW s, s = at, NEW u, u = view'[p]
                 PROVE  LinkInv' /\ UNCHANGED driver /\ (Away(p) \/ Loads(p) \/ Shows(p))'
      OBVIOUS
    <3>1. u = MarkRunning(v, s)
      BY <1>1, <1>2, <2>3, RetriedFacts
    <3>2. /\ u \in Row /\ u.status = "running" /\ u.stage = s /\ u.gates[s] = "n/a"
          /\ \A t \in Stages : t # s => u.gates[t] = v.gates[t]
      BY <1>1, <2>0, <3>1, MarkFacts
    <3>3. Ready(u, s)
      BY <2>0, <2>3, <3>2, StageBounds DEF Ready
    <3>4. u.gates[s] # "pending"
      BY <3>2
    <3>5. Calm(u) /\ Leading(Coming(p), u, s)
      BY <2>0, <2>3, <3>2, <3>3, <3>4, CalmAt, LeadKept
    <3>6. SeesExecuting(p)'
      BY <1>1, <1>3, <1>4, <3>3, <3>5 DEF SeesExecuting
    <3> QED  BY <1>5, <2>0, <3>2, <3>6 DEF Follows
  <2> QED  BY <1>1, <1>11, <2>1, <2>2, <2>3 DEF SeesExecuting, Idle, Refused, Asks
<1>12. ASSUME NEW s \in Stages, Approving(s) \/ Rejecting(s), SeesDecided(p, s)
       PROVE  LinkInv' /\ UNCHANGED driver /\ (Away(p) \/ Loads(p) \/ Shows(p))'
  <2>1. Coming(p) = <<>> /\ Stands(p, s) /\ Decided(p, s)
    BY <1>1, <1>12 DEF SeesDecided, Asks
  <2>2. /\ view'[p] \in Row /\ view'[p].status = "awaiting_approval" /\ view'[p].stage = s
        /\ Ready(view'[p], s) /\ view'[p].gates[s] # "pending"
    BY <1>7, <2>1
  <2>3. SeesDecided(p, s)'
    BY <1>3, <1>4, <2>1, <2>2 DEF SeesDecided, Stands
  <2>4. Approving(s)' \/ Rejecting(s)'
    BY <1>1, <1>12, PhasesKept
  <2>5. Follows(p)'
    BY <2>3, <2>4 DEF Follows
  <2> QED  BY <1>5, <2>2, <2>5
<1>13. \A s \in Stages : ~SeesPausing(p, s) /\ ~SeesEnding(p, s) /\ ~SeesRetrying(p, s)
  BY <1>1 DEF SeesPausing, SeesEnding, SeesRetrying, Asks
<1> QED  BY <1>2, <1>8, <1>9, <1>10, <1>11, <1>12, <1>13 DEF Shows, Follows

-----------------------------------------------------------------------------
\* What holds of the row, the driver, the registry and the page together.
CalmInv == RegistryInv /\ LinkInv /\ RowInv /\ PageInv

LEMMA CalmBegins == Init => CalmInv
<1> SUFFICES ASSUME Init PROVE CalmInv
  OBVIOUS
<1>1. Unread \in Row /\ [Unread EXCEPT !.status = "running"] \in Row /\ NoGet \in Get
  <2>1. Unread \in Row
    BY StatusesAre DEF Unread, Row, RunStatus, GateState
  <2>2. "running" \in RunStatus
    BY DEF RunStatus
  <2> QED  BY <2>1, <2>2 DEF Row, NoGet, Get
<1>2. row.status = "running" /\ row.stage = 0 /\ row \in Row /\ work = <<>> /\ at = Scenario
  BY <1>1 DEF Init, Unread
<1>3. RowLow /\ Executing
  <2>1. \A t \in Stages : ~(t < 0)
    BY StageBounds
  <2> QED  BY <1>2, <2>1, StageBounds DEF RowLow, Executing, RowReady
<1>4. RowInv
  BY <1>2, <1>3 DEF RowInv
<1>5. \A p \in Pages : view[p] = Unread /\ get[p] = NoGet /\ conn[p] = "closed" /\ post[p] = NoPost
  BY DEF Init
<1>6. PageInv
  BY <1>5 DEF PageInv, Away, NoGet
<1>7. LinkInv
  <2>1. "closed" \notin Streams
    BY StreamsAssumption
  <2>2. /\ view \in [Pages -> Row] /\ get \in [Pages -> Get]
        /\ conn \in [Pages -> Streams \cup {"closed", "opening"}]
    BY <1>1 DEF Init
  <2>3. \A g \in Streams : stream[g] = "free" /\ queue[g] = <<>>
    BY DEF Init
  <2> QED  BY <1>5, <2>1, <2>2, <2>3 DEF LinkInv, NoPost
<1> QED  BY <1>4, <1>6, <1>7, RegistryBegin DEF CalmInv

\* Every step keeps it: the steps of the page one by one, those of the driver by
\* phase.
LEMMA CalmStep == ASSUME OneCalmPage, CalmInv, [Next]_vars PROVE CalmInv'
<1>0. RegistryInv /\ LinkInv /\ RowInv /\ PageInv /\ RegistryInv'
  BY RegistryStep DEF CalmInv
<1>1. ASSUME NEW p \in Pages
      PROVE  LinkInv' /\ RowInv' /\ (Away(p) \/ Loads(p) \/ Shows(p))'
  <2>1. Pages = {p}
    <3>1. PICK o : Pages = {o}
      BY DEF OneCalmPage
    <3> QED  BY <3>1
  <2>2. Away(p) \/ Loads(p) \/ Shows(p)
    BY <1>0 DEF PageInv
  <2>3. ASSUME LinkInv' /\ UNCHANGED driver /\ (Away(p) \/ Loads(p) \/ Shows(p))'
        PROVE  LinkInv' /\ RowInv' /\ (Away(p) \/ Loads(p) \/ Shows(p))'
    BY <1>0, <2>3, RowKept
  <2>4. CASE StageEnds
    <3>1. UNCHANGED <<registered, stream, queue, view, get, conn, post>>
      BY <2>4 DEF StageEnds, registry, pages
    <3>2. LinkInv'
      BY <1>0, <3>1, LinkKept DEF LinkInv
    <3> QED  BY <1>0, <2>1, <2>2, <2>4, <3>2, StageEndsPage
  <2>5. CASE Perform
    BY <1>0, <2>1, <2>2, <2>5, PerformLinks, PerformPage
  <2>6. ASSUME NEW g \in Streams, Take(g) PROVE LinkInv' /\ UNCHANGED driver /\ (Away(p) \/ Loads(p) \/ Shows(p))'
    BY <1>0, <2>1, <2>2, <2>6, TakePage
  <2>7. ASSUME NEW g \in Streams, Reap(g) PROVE LinkInv' /\ UNCHANGED driver /\ (Away(p) \/ Loads(p) \/ Shows(p))'
    BY <1>0, <2>1, <2>2, <2>7, ReapPage
  <2>8. ASSUME NEW g \in Streams, Subscribe(p, g)
        PROVE  LinkInv' /\ UNCHANGED driver /\ (Away(p) \/ Loads(p) \/ Shows(p))'
    BY <1>0, <2>1, <2>2, <2>8, SubscribePage
  <2>9. CASE Open(p)
    BY <1>0, <2>1, <2>2, <2>3, <2>9, OpenPage
  <2>10. CASE Leave(p)
    BY <1>0, <2>1, <2>3, <2>10, LeaveLinks
  <2>11. ~Drop(p)
    BY DEF Drop, OneCalmPage
  <2>12. CASE Read(p)
    BY <1>0, <2>1, <2>2, <2>3, <2>12, ReadPage
  <2>13. CASE Show(p)
    BY <1>0, <2>1, <2>2, <2>3, <2>13, ShowPage
  <2>14. CASE Receive(p)
    BY <1>0, <2>1, <2>2, <2>14, ReceivePage
  <2>15. CASE Answer(p)
    BY <1>0, <2>1, <2>2, <2>3, <2>15, AnswerPage
  <2>16. ASSUME NEW kind \in Requests, NEW s \in Stages, Ask(p, kind, s)
         PROVE  LinkInv' /\ UNCHANGED driver /\ (Away(p) \/ Loads(p) \/ Shows(p))'
    BY <1>0, <2>1, <2>2, <2>16, AskPage
  <2>17. CASE UNCHANGED vars
    <3>1. UNCHANGED <<driver, registered, stream, queue, view, get, conn, post>>
      BY <2>17 DEF vars, driver
    <3>2. LinkInv'
      BY <1>0, <3>1, LinkKept DEF LinkInv
    <3>3. Coming(p)' = Coming(p)
      BY <3>1 DEF Coming
    <3>4. (Away(p) \/ Loads(p) \/ Shows(p))'
      BY <2>2, <3>1, <3>3, PageKept
    <3> QED  BY <2>3, <3>1, <3>2, <3>4
  <2>18. \A o \in Pages : o = p
    BY <2>1
  <2> QED  BY <2>3, <2>4, <2>5, <2>6, <2>7, <2>8, <2>9, <2>10, <2>11, <2>12, <2>13, <2>14, <2>15,
              <2>16, <2>17, <2>18 DEF Next
<1>2. \E p : p \in Pages
  BY DEF OneCalmPage
<1> QED  BY <1>0, <1>1, <1>2 DEF CalmInv, PageInv

-----------------------------------------------------------------------------
LEMMA NothingAsked == Decidable(Unread) = {}
  BY DEF Unread, Decidable, Reached

LEMMA DecisionsAreAccepted ==
  ASSUME CalmInv, NEW p \in Pages, Pages = {p}, post[p].is = "none", NEW s \in Decidable(view[p])
  PROVE  row.status = "awaiting_approval" /\ row.gates[s] = "pending"
<1>1. view[p] \in Row /\ ~Calm(view[p])
  BY LinkFacts DEF CalmInv, Calm
<1>2. Shows(p)
  BY NothingAsked DEF CalmInv, PageInv, Away, Loads
<1>3. \A t : ~Decided(p, t)
  BY DEF Decided
<1>4. CASE Awaiting /\ SeesAwaiting(p)
  <2>1. Stands(p, row.stage) /\ row.stage \in Stages
    BY <1>1, <1>4 DEF SeesAwaiting, Awaiting, Stopped
  <2>2. s = row.stage
    BY <1>1, <2>1, AskedOf DEF Stands
  <2> QED  BY <1>4, <2>2 DEF Awaiting
<1>5. CASE Failed /\ SeesFailed(p)
  <2>1. /\ Ready(view[p], row.stage) /\ view[p].status = "failed" /\ view[p].stage = row.stage
        /\ view[p].gates[row.stage] \in Retryable /\ row.stage \in Stages
    BY <1>1, <1>3, <1>5 DEF SeesFailed, Failed, Stopped
  <2>2. view[p].gates[row.stage] # "pending"
    BY <2>1 DEF Retryable
  <2> QED  BY <1>1, <2>1, <2>2, AskedOf
<1>6. ~SeesCompleted(p) /\ ~SeesExecuting(p)
  BY <1>1, <1>3 DEF SeesCompleted, SeesExecuting
<1>7. \A t \in Stages : ~SeesPausing(p, t) /\ ~SeesEnding(p, t) /\ ~SeesRetrying(p, t)
  BY <1>1 DEF SeesPausing, SeesEnding, SeesRetrying
<1>8. \A t \in Stages : ~SeesDecided(p, t)
  <2> SUFFICES ASSUME NEW t \in Stages, SeesDecided(p, t) PROVE FALSE
    OBVIOUS
  <2>1. /\ view[p].status = "awaiting_approval" /\ view[p].stage = t /\ Ready(view[p], t)
        /\ view[p].gates[t] # "pending"
    BY <1>3 DEF SeesDecided, Stands
  <2> QED  BY <1>1, <2>1, CalmAt
<1> QED  BY <1>2, <1>4, <1>5, <1>6, <1>7, <1>8 DEF Shows, Follows

LEMMA QuietIsCurrent ==
  ASSUME CalmInv, NEW p \in Pages, Pages = {p}, Quiet(p), row.status # "complete" PROVE Agrees(p)
<1>1. work = <<>> /\ at = 0 /\ conn[p] \in Streams /\ Coming(p) = <<>> /\ get[p].is = "none" /\ post[p].is = "none"
  BY DEF Quiet, Coming
<1>2. "closed" \notin Streams
  BY StreamsAssumption
<1>3. Shows(p) /\ (Awaiting \/ Failed \/ Completed \/ Executing)
  BY <1>1, <1>2, Resting DEF CalmInv, PageInv, Away, Loads
<1>4. ~Executing /\ ~Completed
  BY <1>1, StageBounds DEF Executing, RowReady, Completed
<1>5. \A s \in Stages : \A l \in Seq(Event) : Coming(p) # Append(l, Gate(s)) /\ Coming(p) # Append(l, Fail(s))
  BY <1>1, EventsAre, AppendFacts
<1>6. CASE Awaiting /\ SeesAwaiting(p)
  <2>1. Stands(p, row.stage) /\ view[p].gates[row.stage] = "pending"
    BY <1>5, <1>6 DEF SeesAwaiting, Awaiting, Stopped
  <2> QED  BY <1>6, <2>1 DEF Agrees, Stands, Awaiting, Offer
<1>7. CASE Failed /\ SeesFailed(p)
  <2>1. /\ view[p].status = "failed" /\ view[p].stage = row.stage /\ view[p].gates[row.stage] \in Retryable
    BY <1>1, <1>5, <1>7 DEF SeesFailed, Failed, Stopped
  <2>2. row.status = "failed" /\ row.gates[row.stage] \in Retryable
    BY <1>7 DEF Failed, Retryable
  <2>3. "pending" \notin Retryable
    BY DEF Retryable
  <2> QED  BY <2>1, <2>2, <2>3 DEF Agrees, Offer
<1> QED  BY <1>1, <1>3, <1>4, <1>6, <1>7, Busy DEF Shows, Follows

\* One tab, whatever its operator asks and however often it is closed and opened
\* again: a decision it offers is one the row waits for and the server will
\* accept, and when the run has stopped and every event has arrived the page
\* shows the row's status and stage and offers for that stage what the row
\* allows.  RunDetail never polls: this rests on the order in which the driver
\* writes and publishes.
THEOREM ThePageIsRight == OneCalmPage => (Spec => []PageIsRight)
<1> SUFFICES ASSUME OneCalmPage PROVE Spec => []PageIsRight
  OBVIOUS
<1>1. CalmInv => PageIsRight
  <2> SUFFICES ASSUME CalmInv PROVE PageIsRight
    OBVIOUS
  <2>1. PICK p : Pages = {p}
    BY DEF OneCalmPage
  <2>2. PageDecisionsAreAccepted
    BY <2>1, DecisionsAreAccepted DEF PageDecisionsAreAccepted
  <2>3. QuietPageIsCurrent
    BY <2>1, QuietIsCurrent DEF QuietPageIsCurrent
  <2> QED  BY <2>2, <2>3 DEF PageIsRight
<1>2. CalmInv /\ [Next]_vars => CalmInv'
  BY CalmStep
<1> QED  BY <1>1, <1>2, CalmBegins, PTL DEF Spec
===============================================================================
