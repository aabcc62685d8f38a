-------------------------- MODULE ActorCtxProofs --------------------------
(* Theorems about ActorCtx, for any number of clients and of requests.     *)
EXTENDS ActorCtx, TLAPS

(* What the ways the run queue changes do to it.                           *)

\* A coroutine waits for one thing at a time: it is in the queue once.
Distinct(s) == \A i, j \in DOMAIN s : s[i] = s[j] => i = j

LEMMA AppendFacts ==
  ASSUME NEW S, NEW s \in Seq(S), NEW x \in S
  PROVE  /\ Append(s, x) \in Seq(S)
         /\ Len(Append(s, x)) = Len(s) + 1
         /\ DOMAIN Append(s, x) = 1 .. Len(s) + 1
         /\ \A i \in 1 .. Len(s) : Append(s, x)[i] = s[i]
         /\ Append(s, x)[Len(s) + 1] = x
  OBVIOUS

LEMMA TailFacts ==
  ASSUME NEW S, NEW s \in Seq(S), s # <<>>
  PROVE  /\ Tail(s) \in Seq(S)
         /\ Head(s) = s[1]
         /\ Head(s) \in S
         /\ Len(s) >= 1
         /\ DOMAIN s = 1 .. Len(s)
         /\ DOMAIN Tail(s) = 1 .. Len(s) - 1
         /\ \A i \in 1 .. Len(s) - 1 : Tail(s)[i] = s[i + 1]
  OBVIOUS

LEMMA ConsFacts ==
  ASSUME NEW S, NEW s \in Seq(S), NEW x \in S
  PROVE  /\ <<x>> \o s \in Seq(S)
         /\ DOMAIN (<<x>> \o s) = 1 .. Len(s) + 1
         /\ (<<x>> \o s)[1] = x
         /\ \A i \in 1 .. Len(s) : (<<x>> \o s)[i + 1] = s[i]
  OBVIOUS

LEMMA OccursAppend ==
  ASSUME NEW S, NEW s \in Seq(S), NEW x \in S, NEW t
  PROVE  Occurs(Append(s, x), t) <=> (Occurs(s, t) \/ t = x)
  BY AppendFacts DEF Occurs

LEMMA DistinctAppend ==
  ASSUME NEW S, NEW s \in Seq(S), NEW x \in S, Distinct(s), ~Occurs(s, x)
  PROVE  Distinct(Append(s, x))
  BY AppendFacts DEF Occurs, Distinct

LEMMA OccursTail ==
  ASSUME NEW S, NEW s \in Seq(S), s # <<>>, Distinct(s), NEW t
  PROVE  Occurs(Tail(s), t) <=> (Occurs(s, t) /\ t # Head(s))
<1>1. ASSUME Occurs(Tail(s), t)
      PROVE  Occurs(s, t) /\ t # Head(s)
  BY <1>1, TailFacts DEF Occurs, Distinct
<1>2. ASSUME Occurs(s, t), t # Head(s)
      PROVE  Occurs(Tail(s), t)
  <2>1. PICK i \in 1 .. Len(s) : s[i] = t
    BY <1>2, TailFacts DEF Occurs
  <2>2. i - 1 \in 1 .. Len(s) - 1 /\ Tail(s)[i - 1] = t
    BY <1>2, <2>1, TailFacts
  <2> QED
    BY <2>2, TailFacts DEF Occurs
<1> QED
  BY <1>1, <1>2

LEMMA DistinctTail ==
  ASSUME NEW S, NEW s \in Seq(S), s # <<>>, Distinct(s)
  PROVE  Distinct(Tail(s))
  BY TailFacts DEF Distinct

LEMMA OccursHead ==
  ASSUME NEW S, NEW s \in Seq(S), s # <<>>
  PROVE  Occurs(s, Head(s))
  BY TailFacts DEF Occurs

LEMMA OccursCons ==
  ASSUME NEW S, NEW s \in Seq(S), NEW x \in S, NEW t
  PROVE  Occurs(<<x>> \o s, t) <=> (Occurs(s, t) \/ t = x)
<1>1. ASSUME Occurs(<<x>> \o s, t)
      PROVE  Occurs(s, t) \/ t = x
  <2>1. PICK i \in 1 .. Len(s) + 1 : (<<x>> \o s)[i] = t
    BY <1>1, ConsFacts DEF Occurs
  <2>2. CASE i = 1
    BY <2>1, <2>2, ConsFacts
  <2>3. CASE i # 1
    <3>1. i - 1 \in 1 .. Len(s) /\ (<<x>> \o s)[(i - 1) + 1] = s[i - 1]
      BY <2>1, <2>3, ConsFacts
    <3> QED
      BY <2>1, <3>1 DEF Occurs
  <2> QED
    BY <2>2, <2>3
<1>2. ASSUME Occurs(s, t)
      PROVE  Occurs(<<x>> \o s, t)
  <2>1. PICK i \in 1 .. Len(s) : s[i] = t
    BY <1>2 DEF Occurs
  <2>2. i + 1 \in 1 .. Len(s) + 1 /\ (<<x>> \o s)[i + 1] = t
    BY <2>1, ConsFacts
  <2>3. i + 1 \in DOMAIN (<<x>> \o s)
    BY <2>2, ConsFacts
  <2> QED
    BY <2>2, <2>3 DEF Occurs
<1>3. Occurs(<<x>> \o s, x)
  BY ConsFacts DEF Occurs
<1> QED
  BY <1>1, <1>2, <1>3

LEMMA DistinctCons ==
  ASSUME NEW S, NEW s \in Seq(S), NEW x \in S, Distinct(s), ~Occurs(s, x)
  PROVE  Distinct(<<x>> \o s)
<1> DEFINE c == <<x>> \o s
<1>1. DOMAIN c = 1 .. Len(s) + 1
  BY ConsFacts
<1>2. \A i \in 2 .. Len(s) + 1 : i - 1 \in 1 .. Len(s) /\ c[i] = s[i - 1]
  <2>1. \A i \in 2 .. Len(s) + 1 : i - 1 \in 1 .. Len(s) /\ c[(i - 1) + 1] = s[i - 1]
    BY ConsFacts
  <2> QED
    BY <2>1
<1>3. c[1] = x
  BY ConsFacts
<1>4. \A i \in 2 .. Len(s) + 1 : c[i] # x
  BY <1>2 DEF Occurs
<1>5. \A i, j \in 2 .. Len(s) + 1 : c[i] = c[j] => i = j
  BY <1>2 DEF Distinct
<1> QED
  BY <1>1, <1>3, <1>4, <1>5 DEF Distinct

-----------------------------------------------------------------------------
(* Type correctness.                                                       *)

\* The worker serves a message from the moment it calls the service.
JobTaken == worker \in {"called", "serving"} => job \in Msgs

LEMMA TypeInit ==
  ASSUME Init
  PROVE  TypeOK /\ JobTaken
<1>1. MaxRequests \in Nat /\ 0 \in 0 .. MaxRequests
  BY CtxAssumption
<1>2. /\ wire \in [Conns -> Seq(Frames)]
      /\ out \in [Conns -> Seq(1 .. MaxRequests)]
      /\ msg_queue \in Seq(Msgs)
      /\ runq \in Seq(Tasks)
  BY DEF Init, Tasks
<1>3. /\ frame \in [Conns -> Frames]
      /\ asked \in [Conns -> 0 .. MaxRequests]
  BY <1>1 DEF Init, Frames, Answer
<1> QED
  BY <1>2, <1>3 DEF Init, TypeOK, JobTaken

LEMMA HeadRuns ==
  ASSUME runq \in Seq(Tasks), NEW t, Running(t)
  PROVE  /\ runq # <<>>
         /\ t \in Tasks
         /\ Head(runq) = t
         /\ Tail(runq) \in Seq(Tasks)
  BY TailFacts DEF Running

\* The steps of the connections.
LEMMA TypePeers ==
  ASSUME TypeOK, JobTaken, NEW c \in Conns,
         \/ PeerSends(c) \/ ProxyAnswers \/ PeerCloses(c)
         \/ Accept(c) \/ ReadCompletes(c)
  PROVE  (TypeOK /\ JobTaken)'
<1> USE CtxAssumption DEF TypeOK, JobTaken
<1>1. CASE PeerSends(c)
  BY <1>1 DEF PeerSends, Frames
<1>2. CASE ProxyAnswers
  BY <1>2 DEF ProxyAnswers, Frames, Answer, Conns
<1>3. CASE PeerCloses(c)
  BY <1>3 DEF PeerCloses
<1>4. CASE ReadCompletes(c)
  <2>1. runq' \in Seq(Tasks)
    BY <1>4, AppendFacts DEF ReadCompletes, Tasks
  <2>2. CASE wire[c] # <<>>
    <3>1. Head(wire[c]) \in Frames /\ Tail(wire[c]) \in Seq(Frames)
      BY <2>2, TailFacts
    <3> QED
      BY <1>4, <2>1, <2>2, <3>1 DEF ReadCompletes
  <2>3. CASE wire[c] = <<>>
    BY <1>4, <2>1, <2>3 DEF ReadCompletes
  <2> QED
    BY <2>2, <2>3
<1>5. CASE Accept(c)
  BY <1>5 DEF Accept
<1> QED
  BY <1>1, <1>2, <1>3, <1>4, <1>5

LEMMA TypeReaders ==
  ASSUME TypeOK, JobTaken, NEW c \in Conns,
         PushMsg(c) \/ SetResponse \/ ReaderEnds(c)
  PROVE  (TypeOK /\ JobTaken)'
<1> USE CtxAssumption DEF TypeOK, JobTaken
<1>1. CASE PushMsg(c)
  <2>1. [conn |-> c, n |-> frame[c]] \in Msgs
    BY <1>1 DEF PushMsg, Msgs, Frames, Answer, IsRequest, FirstMessage, Enqueued
  <2>2. msg_queue' \in Seq(Msgs)
    BY <1>1, <2>1 DEF PushMsg, IsRequest, FirstMessage, Enqueued
  <2>3. runq' \in Seq(Tasks)
    BY <1>1, HeadRuns DEF PushMsg, Tasks, IsRequest, FirstMessage, Enqueued
  <2> QED
    BY <1>1, <2>2, <2>3 DEF PushMsg, ReadOn, IsRequest, FirstMessage, Enqueued
<1>2. CASE SetResponse
  <2>1. Tail(runq) \in Seq(Tasks) /\ "service" \in Tasks
    BY <1>2, HeadRuns DEF SetResponse, Tasks
  <2>2. Append(Tail(runq), "service") \in Seq(Tasks)
    BY <2>1, AppendFacts
  <2>3. runq' \in Seq(Tasks)
    BY <1>2, <2>1, <2>2 DEF SetResponse
  <2> QED
    BY <1>2, <2>3 DEF SetResponse, ReadOn
<1>3. CASE ReaderEnds(c)
  BY <1>3, HeadRuns DEF ReaderEnds
<1> QED
  BY <1>1, <1>2, <1>3

LEMMA TypeClose ==
  ASSUME TypeOK, NEW c \in Conns, Close(c)
  PROVE  /\ sock' \in [Conns -> BOOLEAN]
         /\ reader' \in [Conns -> {"backlog", "reading", "got", "failed", "done"}]
         /\ runq' \in Seq(Tasks)
<1>1. Append(runq, c) \in Seq(Tasks)
  BY AppendFacts DEF TypeOK, Tasks
<1> QED
  BY <1>1 DEF Close, TypeOK

LEMMA TypeWorker ==
  ASSUME TypeOK, JobTaken, Worker
  PROVE  (TypeOK /\ JobTaken)'
<1> USE CtxAssumption DEF TypeOK, JobTaken
<1>1. CASE Sleep
  BY <1>1, HeadRuns DEF Sleep
<1>2. CASE Loop
  BY <1>2 DEF Loop
<1>3. CASE SkipClosed
  BY <1>3, TailFacts DEF SkipClosed
<1>4. ASSUME NEW atOnce \in BOOLEAN, CallService(atOnce)
      PROVE  (TypeOK /\ JobTaken)'
  <2>1. job' \in Msgs /\ msg_queue' \in Seq(Msgs)
    BY <1>4, TailFacts DEF CallService
  <2>2. "service" \in Tasks
    BY DEF Tasks
  <2>3. runq' \in Seq(Tasks)
    BY <1>4, <2>2, ConsFacts, AppendFacts DEF CallService
  <2> QED
    BY <1>4, <2>1, <2>3 DEF CallService
<1>5. CASE AwaitService
  BY <1>5, HeadRuns DEF AwaitService, MustWait
<1>6. CASE FailJob
  <2>1. job.conn \in Conns
    BY <1>6 DEF FailJob, Served, Msgs, MustWait
  <2> QED
    BY <1>6, <2>1, TypeClose DEF FailJob
<1>7. CASE RefuseUnknown
  <2>1. Head(msg_queue) \in Msgs /\ msg_queue' \in Seq(Msgs)
    BY <1>7, TailFacts DEF RefuseUnknown
  <2>2. Head(msg_queue).conn \in Conns
    BY <2>1 DEF Msgs
  <2> QED
    BY <1>7, <2>1, <2>2, TypeClose DEF RefuseUnknown
<1>8. CASE Reply
  <2>1. job.conn \in Conns /\ job.n \in 1 .. MaxRequests
    BY <1>8 DEF Reply, Served, Msgs, MustWait
  <2>2. out' \in [Conns -> Seq(1 .. MaxRequests)]
    BY <1>8, <2>1 DEF Reply
  <2>3. runq' \in Seq(Tasks)
    BY <1>8, HeadRuns DEF Reply, Served, Tasks, MustWait
  <2> QED
    BY <1>8, <2>2, <2>3 DEF Reply
<1> QED
  BY <1>1, <1>2, <1>3, <1>4, <1>5, <1>6, <1>7, <1>8 DEF Worker

LEMMA TypeService ==
  ASSUME TypeOK, JobTaken, Service
  PROVE  (TypeOK /\ JobTaken)'
<1> USE DEF TypeOK, JobTaken
<1>1. CASE SendFails
  BY <1>1 DEF SendFails
<1>2. CASE SendWrites
  BY <1>2, HeadRuns DEF SendWrites
<1>3. CASE AwaitResponse
  BY <1>3, HeadRuns DEF AwaitResponse
<1>4. CASE NotifyComplete
  <2>1. runq' \in Seq(Tasks)
    BY <1>4, HeadRuns DEF NotifyComplete, Tasks
  <2> QED
    BY <1>4, <2>1 DEF NotifyComplete
<1> QED
  BY <1>1, <1>2, <1>3, <1>4 DEF Service

LEMMA TypeStep ==
  ASSUME TypeOK, JobTaken, [Next]_vars
  PROVE  (TypeOK /\ JobTaken)'
<1>1. Proxy \in Conns
  BY DEF Conns
<1>2. CASE UNCHANGED vars
  BY <1>2 DEF vars, TypeOK, JobTaken
<1> QED
  BY <1>1, <1>2, TypePeers, TypeReaders, TypeWorker, TypeService
     DEF Next, Reader

\* The variables of a process stay in their types, whatever its clients,
\* its proxy and its services do; in particular nothing is pushed to the
\* queue or written as a response that is not a request of a connection.
THEOREM TypeCorrect == Spec => []TypeOK
<1> DEFINE Inv == TypeOK /\ JobTaken
<1>1. Init => Inv
  BY TypeInit
<1>2. Inv /\ [Next]_vars => Inv'
  BY TypeStep
<1>3. Inv => TypeOK
  OBVIOUS
<1> QED
  BY <1>1, <1>2, <1>3, PTL DEF Spec

-----------------------------------------------------------------------------
(* The wake-ups: who is in the run queue, and why.                         *)

\* A coroutine is in the queue exactly when nothing else will resume it.
WorkerQueued ==
  Queued("worker") <=> \/ worker \in {"loop", "called", "writing"}
                       \/ worker = "idle" /\ msg_queue # <<>>
                       \/ worker = "serving" /\ ~is_waiting

ServiceQueued ==
  Queued("service") <=> service \in {"running", "sending", "failing"}

ReadersQueued ==
  \A c \in Conns : Queued(c) <=> reader[c] \in {"got", "failed"}

\* The service runs inside the worker's call of it.
ServiceInJob ==
  /\ is_waiting <=> service # "none"
  /\ is_waiting => worker \in {"called", "serving"}

QueueInv ==
  /\ TypeOK
  /\ JobTaken
  /\ Distinct(runq)
  /\ WorkerQueued
  /\ ServiceQueued
  /\ ReadersQueued
  /\ ServiceInJob

\* What a step does to the run queue.
LEMMA RunnerQueued ==
  ASSUME runq \in Seq(Tasks), NEW t, Running(t)
  PROVE  Queued(t)
  BY OccursHead DEF Running, Queued

LEMMA Pop ==
  ASSUME runq \in Seq(Tasks), Distinct(runq), NEW h, Running(h),
         runq' = Tail(runq)
  PROVE  /\ Distinct(runq)'
         /\ \A t : Queued(t)' <=> (Queued(t) /\ t # h)
<1>1. Distinct(Tail(runq))
  BY DistinctTail DEF Running
<1>2. \A t : Occurs(Tail(runq), t) <=> (Occurs(runq, t) /\ t # h)
  BY OccursTail DEF Running
<1> QED
  BY <1>1, <1>2 DEF Queued, Distinct, Occurs

LEMMA Push ==
  ASSUME runq \in Seq(Tasks), Distinct(runq), NEW x \in Tasks, ~Queued(x),
         runq' = Append(runq, x)
  PROVE  /\ Distinct(runq)'
         /\ \A t : Queued(t)' <=> (Queued(t) \/ t = x)
<1>1. Distinct(Append(runq, x))
  BY DistinctAppend DEF Queued
<1>2. \A t : Occurs(Append(runq, x), t) <=> (Occurs(runq, t) \/ t = x)
  BY OccursAppend
<1> QED
  BY <1>1, <1>2 DEF Queued, Distinct, Occurs

LEMMA PopPush ==
  ASSUME runq \in Seq(Tasks), Distinct(runq), NEW h, Running(h),
         NEW x \in Tasks, x = h \/ ~Queued(x),
         runq' = Append(Tail(runq), x)
  PROVE  /\ Distinct(runq)'
         /\ \A t : Queued(t)' <=> ((Queued(t) /\ t # h) \/ t = x)
<1>1. Tail(runq) \in Seq(Tasks) /\ Distinct(Tail(runq))
  BY TailFacts, DistinctTail DEF Running
<1>2. \A t : Occurs(Tail(runq), t) <=> (Occurs(runq, t) /\ t # h)
  BY OccursTail DEF Running
<1>3. ~Occurs(Tail(runq), x)
  BY <1>2 DEF Queued
<1>4. Distinct(Append(Tail(runq), x))
  BY <1>1, <1>3, DistinctAppend
<1>5. \A t : Occurs(Append(Tail(runq), x), t)
             <=> (Occurs(Tail(runq), t) \/ t = x)
  BY <1>1, OccursAppend
<1> QED
  BY <1>2, <1>4, <1>5 DEF Queued, Distinct, Occurs

LEMMA PushFront ==
  ASSUME runq \in Seq(Tasks), Distinct(runq), NEW x \in Tasks, ~Queued(x),
         runq' = <<x>> \o runq
  PROVE  /\ Distinct(runq)'
         /\ \A t : Queued(t)' <=> (Queued(t) \/ t = x)
<1>1. Distinct(<<x>> \o runq)
  BY DistinctCons DEF Queued
<1>2. \A t : Occurs(<<x>> \o runq, t) <=> (Occurs(runq, t) \/ t = x)
  BY OccursCons
<1> QED
  BY <1>1, <1>2 DEF Queued, Distinct, Occurs

LEMMA Keep ==
  ASSUME Distinct(runq), runq' = runq
  PROVE  /\ Distinct(runq)'
         /\ \A t : Queued(t)' <=> Queued(t)
  BY DEF Queued, Distinct, Occurs

\* QueueInv without the types, which TypeStep gives.
Wakeups ==
  Distinct(runq) /\ WorkerQueued /\ ServiceQueued /\ ReadersQueued /\ ServiceInJob

LEMMA TaskNames ==
  /\ "worker" \in Tasks /\ "service" \in Tasks /\ "worker" # "service"
  /\ \A c \in Conns : c \in Tasks /\ c # "worker" /\ c # "service"
  BY CtxAssumption DEF Tasks

LEMMA WakeupsReaders ==
  ASSUME QueueInv, TypeOK', NEW c \in Conns,
         PeerSends(c) \/ ProxyAnswers \/ PeerCloses(c) \/ Reader(c) \/ SetResponse
  PROVE  Wakeups'
<1>1. runq \in Seq(Tasks) /\ Distinct(runq) /\ Proxy \in Conns
  BY DEF QueueInv, TypeOK, Conns
<1>2. CASE PeerSends(c) \/ ProxyAnswers \/ PeerCloses(c)
  <2>1. /\ runq' = runq
        /\ UNCHANGED <<msg_queue, is_waiting, worker, service, reader>>
    BY <1>2 DEF PeerSends, ProxyAnswers, PeerCloses
  <2>2. Distinct(runq)' /\ \A t : Queued(t)' <=> Queued(t)
    BY <1>1, <2>1, Keep
  <2> QED
    BY <2>1, <2>2 DEF QueueInv, Wakeups, WorkerQueued, ServiceQueued,
       ReadersQueued, ServiceInJob
<1>7. CASE Accept(c)
  <2>1. /\ reader[c] = "backlog"
        /\ reader' = [reader EXCEPT ![c] = "reading"]
        /\ UNCHANGED <<runq, msg_queue, is_waiting, worker, service>>
    BY <1>7 DEF Accept
  <2>2. Distinct(runq)' /\ \A t : Queued(t)' <=> Queued(t)
    BY <1>1, <2>1, Keep
  <2>3. ReadersQueued'
    BY <2>1, <2>2 DEF QueueInv, TypeOK, ReadersQueued
  <2> QED
    BY <2>1, <2>2, <2>3 DEF QueueInv, Wakeups, WorkerQueued, ServiceQueued,
       ServiceInJob
<1>3. CASE ReadCompletes(c)
  <2>1. /\ reader[c] = "reading"
        /\ \E r \in {"got", "failed"} : reader' = [reader EXCEPT ![c] = r]
        /\ UNCHANGED <<msg_queue, is_waiting, worker, service>>
    BY <1>3 DEF ReadCompletes
  <2>2. c \in Tasks /\ ~Queued(c)
    BY <2>1, TaskNames DEF QueueInv, ReadersQueued
  <2>3. Distinct(runq)' /\ \A t : Queued(t)' <=> (Queued(t) \/ t = c)
    BY <1>1, <1>3, <2>2, Push DEF ReadCompletes
  <2>4. ReadersQueued'
    BY <2>1, <2>3 DEF QueueInv, TypeOK, ReadersQueued
  <2> QED
    BY <2>1, <2>3, <2>4, TaskNames DEF QueueInv, Wakeups, WorkerQueued,
       ServiceQueued, ServiceInJob
<1>4. CASE PushMsg(c)
  <2>1. /\ Running(c)
        /\ \E r \in {"reading", "done"} : reader' = [reader EXCEPT ![c] = r]
        /\ UNCHANGED <<is_waiting, worker, service>>
    BY <1>4 DEF PushMsg, ReadOn, IsRequest, FirstMessage, Enqueued
  <2>4. msg_queue' # <<>>
    <3>1. \E x : msg_queue' = Append(msg_queue, x)
      BY <1>4 DEF PushMsg, IsRequest, FirstMessage, Enqueued
    <3>2. msg_queue \in Seq(Msgs) /\ msg_queue' \in Seq(Msgs)
      BY DEF QueueInv, TypeOK
    <3> QED
      BY <3>1, <3>2
  <2>2. CASE msg_queue = <<>> /\ worker = "idle"
    <3>1. ~Queued("worker")
      BY <2>2 DEF QueueInv, WorkerQueued
    <3>2. /\ Distinct(runq)'
          /\ \A t : Queued(t)' <=> ((Queued(t) /\ t # c) \/ t = "worker")
      BY <1>1, <1>4, <2>1, <2>2, <3>1, TaskNames, PopPush
         DEF PushMsg, IsRequest, FirstMessage, Enqueued
    <3>3. ReadersQueued'
      BY <2>1, <3>2, TaskNames DEF QueueInv, TypeOK, ReadersQueued
    <3> QED
      BY <2>1, <2>2, <2>4, <3>2, <3>3, TaskNames DEF QueueInv, Wakeups,
         WorkerQueued, ServiceQueued, ServiceInJob
  <2>3. CASE ~(msg_queue = <<>> /\ worker = "idle")
    <3>1. Distinct(runq)' /\ \A t : Queued(t)' <=> (Queued(t) /\ t # c)
      BY <1>1, <1>4, <2>1, <2>3, Pop
         DEF PushMsg, IsRequest, FirstMessage, Enqueued
    <3>2. ReadersQueued'
      BY <2>1, <3>1 DEF QueueInv, TypeOK, ReadersQueued
    <3> QED
      BY <2>1, <2>3, <2>4, <3>1, <3>2, TaskNames DEF QueueInv, Wakeups,
         WorkerQueued, ServiceQueued, ServiceInJob
  <2> QED
    BY <2>2, <2>3
<1>5. CASE ReaderEnds(c)
  <2>1. /\ reader' = [reader EXCEPT ![c] = "done"]
        /\ UNCHANGED <<msg_queue, is_waiting, worker, service>>
    BY <1>5 DEF ReaderEnds
  <2>2. Distinct(runq)' /\ \A t : Queued(t)' <=> (Queued(t) /\ t # c)
    BY <1>1, <1>5, Pop DEF ReaderEnds
  <2>3. ReadersQueued'
    BY <2>1, <2>2 DEF QueueInv, TypeOK, ReadersQueued
  <2> QED
    BY <2>1, <2>2, <2>3, TaskNames DEF QueueInv, Wakeups, WorkerQueued,
       ServiceQueued, ServiceInJob
<1>6. CASE SetResponse
  <2>1. /\ Running(Proxy)
        /\ \E r \in {"reading", "done"} : reader' = [reader EXCEPT ![Proxy] = r]
        /\ UNCHANGED <<msg_queue, is_waiting, worker>>
    BY <1>6 DEF SetResponse, ReadOn
  <2>2. CASE service = "awaiting"
    <3>1. ~Queued("service") /\ service' = "running"
      BY <1>6, <2>2 DEF QueueInv, ServiceQueued, SetResponse
    <3>2. /\ Distinct(runq)'
          /\ \A t : Queued(t)' <=> ((Queued(t) /\ t # Proxy) \/ t = "service")
      BY <1>1, <1>6, <2>1, <2>2, <3>1, TaskNames, PopPush DEF SetResponse
    <3>3. ReadersQueued'
      <4> SUFFICES ASSUME NEW d \in Conns
                   PROVE  Queued(d)' <=> reader'[d] \in {"got", "failed"}
        BY DEF ReadersQueued
      <4>1. CASE d = Proxy
        BY <1>1, <2>1, <3>2, <4>1, TaskNames DEF QueueInv, TypeOK
      <4>2. CASE d # Proxy
        <5>1. reader'[d] = reader[d]
          BY <1>1, <2>1, <4>2 DEF QueueInv, TypeOK
        <5>2. Queued(d)' <=> Queued(d)
          BY <3>2, <4>2, TaskNames
        <5> QED
          BY <5>1, <5>2 DEF QueueInv, ReadersQueued
      <4> QED
        BY <4>1, <4>2
    <3> QED
      BY <1>1, <2>1, <2>2, <3>1, <3>2, <3>3, TaskNames DEF QueueInv, Wakeups,
         WorkerQueued, ServiceQueued, ServiceInJob
  <2>3. CASE service # "awaiting"
    <3>1. Distinct(runq)' /\ \A t : Queued(t)' <=> (Queued(t) /\ t # Proxy)
      BY <1>1, <1>6, <2>1, <2>3, Pop DEF SetResponse
    <3>2. ReadersQueued'
      BY <1>1, <2>1, <3>1 DEF QueueInv, TypeOK, ReadersQueued
    <3> QED
      BY <1>1, <1>6, <2>1, <2>3, <3>1, <3>2, TaskNames DEF SetResponse,
         QueueInv, Wakeups, WorkerQueued, ServiceQueued, ServiceInJob
  <2> QED
    BY <2>2, <2>3
<1> QED
  BY <1>2, <1>3, <1>4, <1>5, <1>6, <1>7 DEF Reader

LEMMA WakeupsWorker ==
  ASSUME QueueInv, TypeOK', Worker
  PROVE  Wakeups'
<1>1. runq \in Seq(Tasks) /\ Distinct(runq)
  BY DEF QueueInv, TypeOK
<1>2. CASE Sleep
  <2>1. /\ worker = "loop" /\ worker' = "idle" /\ msg_queue = <<>>
        /\ UNCHANGED <<msg_queue, is_waiting, service, reader>>
    BY <1>2 DEF Sleep
  <2>2. Distinct(runq)' /\ \A t : Queued(t)' <=> (Queued(t) /\ t # "worker")
    BY <1>1, <1>2, Pop DEF Sleep
  <2> QED
    BY <2>1, <2>2, TaskNames DEF QueueInv, Wakeups, WorkerQueued,
       ServiceQueued, ReadersQueued, ServiceInJob
<1>3. CASE Loop
  <2>1. /\ Queued("worker") /\ worker \in {"idle", "writing"} /\ worker' = "loop"
        /\ UNCHANGED <<runq, msg_queue, is_waiting, service, reader>>
    BY <1>1, <1>3, RunnerQueued DEF Loop
  <2>2. Distinct(runq)' /\ \A t : Queued(t)' <=> Queued(t)
    BY <1>1, <2>1, Keep
  <2> QED
    BY <2>1, <2>2 DEF QueueInv, Wakeups, WorkerQueued, ServiceQueued,
       ReadersQueued, ServiceInJob
<1>4. CASE SkipClosed
  <2>1. /\ worker = "loop"
        /\ UNCHANGED <<runq, worker, is_waiting, service, reader>>
    BY <1>4 DEF SkipClosed
  <2>2. Distinct(runq)' /\ \A t : Queued(t)' <=> Queued(t)
    BY <1>1, <2>1, Keep
  <2> QED
    BY <2>1, <2>2 DEF QueueInv, Wakeups, WorkerQueued, ServiceQueued,
       ReadersQueued, ServiceInJob
<1>5. ASSUME NEW atOnce \in BOOLEAN, CallService(atOnce)
      PROVE  Wakeups'
  <2>1. /\ worker = "loop" /\ worker' = "called"
        /\ service' = "running" /\ is_waiting'
        /\ UNCHANGED reader
    BY <1>5 DEF CallService
  <2>2. Queued("worker") /\ ~Queued("service")
    BY <2>1 DEF QueueInv, WorkerQueued, ServiceQueued, ServiceInJob
  <2>3. /\ Distinct(runq)'
        /\ \A t : Queued(t)' <=> (Queued(t) \/ t = "service")
    <3>1. CASE atOnce
      BY <1>1, <1>5, <2>2, <3>1, TaskNames, PushFront DEF CallService
    <3>2. CASE ~atOnce
      BY <1>1, <1>5, <2>2, <3>2, TaskNames, Push DEF CallService
    <3> QED
      BY <3>1, <3>2
  <2> QED
    BY <2>1, <2>2, <2>3, TaskNames DEF QueueInv, Wakeups, WorkerQueued,
       ServiceQueued, ReadersQueued, ServiceInJob
<1>6. CASE AwaitService
  <2>1. /\ worker = "called" /\ worker' = "serving" /\ is_waiting
        /\ UNCHANGED <<msg_queue, is_waiting, service, reader>>
    BY <1>6 DEF AwaitService, MustWait
  <2>2. Distinct(runq)' /\ \A t : Queued(t)' <=> (Queued(t) /\ t # "worker")
    BY <1>1, <1>6, Pop DEF AwaitService, MustWait
  <2> QED
    BY <2>1, <2>2, TaskNames DEF QueueInv, Wakeups, WorkerQueued,
       ServiceQueued, ReadersQueued, ServiceInJob
<1>7. ASSUME Served
      PROVE  Queued("worker") /\ ~is_waiting
  BY <1>1, <1>7, RunnerQueued
     DEF Served, QueueInv, WorkerQueued, TypeOK, MustWait
<1>8. ASSUME FailJob \/ RefuseUnknown
      PROVE  Wakeups'
  <2>1. PICK c \in Conns : Close(c)
    <3>1. CASE FailJob
      BY <3>1 DEF FailJob, Served, QueueInv, JobTaken, Msgs, MustWait
    <3>2. CASE RefuseUnknown
      BY <3>2 DEF RefuseUnknown, Conns
    <3> QED
      BY <1>8, <3>1, <3>2
  <2>2. /\ Queued("worker") /\ ~is_waiting /\ worker' = "loop"
        /\ UNCHANGED <<is_waiting, service>>
    <3>1. CASE FailJob
      BY <1>7, <3>1 DEF FailJob
    <3>2. CASE RefuseUnknown
      BY <1>1, <3>2, RunnerQueued DEF RefuseUnknown, QueueInv, ServiceInJob
    <3> QED
      BY <1>8, <3>1, <3>2
  <2>3. CASE reader[c] = "reading"
    <3>1. ~Queued(c) /\ c \in Tasks
      BY <2>1, <2>3, TaskNames DEF QueueInv, ReadersQueued
    <3>2. Distinct(runq)' /\ \A t : Queued(t)' <=> (Queued(t) \/ t = c)
      BY <1>1, <2>1, <2>3, <3>1, Push DEF Close
    <3>3. ReadersQueued'
      BY <2>1, <2>3, <3>2 DEF Close, QueueInv, TypeOK, ReadersQueued
    <3> QED
      BY <2>1, <2>2, <3>2, <3>3, TaskNames DEF QueueInv, Wakeups,
         WorkerQueued, ServiceQueued, ServiceInJob
  <2>4. CASE reader[c] # "reading"
    <3>1. Distinct(runq)' /\ \A t : Queued(t)' <=> Queued(t)
      BY <1>1, <2>1, <2>4, Keep DEF Close
    <3>2. UNCHANGED reader
      BY <2>1, <2>4 DEF Close
    <3> QED
      BY <2>2, <3>1, <3>2 DEF QueueInv, Wakeups, WorkerQueued, ServiceQueued,
         ReadersQueued, ServiceInJob
  <2> QED
    BY <2>3, <2>4
<1>9. CASE Reply
  <2>1. /\ Served /\ Running("worker") /\ worker' = "writing"
        /\ UNCHANGED <<msg_queue, is_waiting, service, reader>>
    BY <1>9 DEF Reply, Served, MustWait
  <2>2. /\ Distinct(runq)'
        /\ \A t : Queued(t)'
                <=> ((Queued(t) /\ t # "worker") \/ t = "worker")
    BY <1>1, <1>9, <2>1, TaskNames, PopPush DEF Reply
  <2> QED
    BY <1>7, <2>1, <2>2 DEF QueueInv, Wakeups, WorkerQueued, ServiceQueued,
       ReadersQueued, ServiceInJob
<1> QED
  BY <1>2, <1>3, <1>4, <1>5, <1>6, <1>8, <1>9 DEF Worker

LEMMA WakeupsService ==
  ASSUME QueueInv, TypeOK', Service
  PROVE  Wakeups'
<1>1. runq \in Seq(Tasks) /\ Distinct(runq)
  BY DEF QueueInv, TypeOK
<1>2. CASE SendFails
  <2>1. /\ service \in {"running", "failing"} /\ service' = "running"
        /\ UNCHANGED <<runq, msg_queue, is_waiting, worker, reader>>
    BY <1>2 DEF SendFails
  <2>2. Distinct(runq)' /\ \A t : Queued(t)' <=> Queued(t)
    BY <1>1, <2>1, Keep
  <2> QED
    BY <2>1, <2>2 DEF QueueInv, Wakeups, WorkerQueued, ServiceQueued,
       ReadersQueued, ServiceInJob
<1>3. CASE SendWrites
  <2>1. /\ Running("service") /\ Queued("service")
        /\ service = "running" /\ service' \in {"sending", "failing"}
        /\ UNCHANGED <<msg_queue, is_waiting, worker, reader>>
    BY <1>1, <1>3, RunnerQueued DEF SendWrites
  <2>2. /\ Distinct(runq)'
        /\ \A t : Queued(t)'
                <=> ((Queued(t) /\ t # "service") \/ t = "service")
    BY <1>1, <1>3, <2>1, TaskNames, PopPush DEF SendWrites
  <2> QED
    BY <2>1, <2>2 DEF QueueInv, Wakeups, WorkerQueued, ServiceQueued,
       ReadersQueued, ServiceInJob
<1>4. CASE AwaitResponse
  <2>1. /\ service = "sending" /\ service' = "awaiting"
        /\ UNCHANGED <<msg_queue, is_waiting, worker, reader>>
    BY <1>4 DEF AwaitResponse
  <2>2. Distinct(runq)' /\ \A t : Queued(t)' <=> (Queued(t) /\ t # "service")
    BY <1>1, <1>4, Pop DEF AwaitResponse
  <2> QED
    BY <2>1, <2>2, TaskNames DEF QueueInv, Wakeups, WorkerQueued,
       ServiceQueued, ReadersQueued, ServiceInJob
<1>5. CASE NotifyComplete
  <2>1. /\ Running("service") /\ service = "running" /\ service' = "none"
        /\ ~is_waiting'
        /\ UNCHANGED <<msg_queue, worker, reader>>
    BY <1>5 DEF NotifyComplete
  <2>2. is_waiting /\ worker \in {"called", "serving"}
    BY <2>1 DEF QueueInv, ServiceInJob
  <2>3. CASE worker = "serving"
    <3>1. ~Queued("worker")
      BY <2>2, <2>3 DEF QueueInv, WorkerQueued
    <3>2. /\ Distinct(runq)'
          /\ \A t : Queued(t)'
                  <=> ((Queued(t) /\ t # "service") \/ t = "worker")
      BY <1>1, <1>5, <2>1, <2>3, <3>1, TaskNames, PopPush DEF NotifyComplete
    <3> QED
      BY <2>1, <2>3, <3>2, TaskNames DEF QueueInv, Wakeups, WorkerQueued,
         ServiceQueued, ReadersQueued, ServiceInJob
  <2>4. CASE worker = "called"
    <3>1. Distinct(runq)' /\ \A t : Queued(t)' <=> (Queued(t) /\ t # "service")
      BY <1>1, <1>5, <2>1, <2>4, Pop DEF NotifyComplete
    <3> QED
      BY <2>1, <2>4, <3>1, TaskNames DEF QueueInv, Wakeups, WorkerQueued,
         ServiceQueued, ReadersQueued, ServiceInJob
  <2> QED
    BY <2>2, <2>3, <2>4
<1> QED
  BY <1>2, <1>3, <1>4, <1>5 DEF Service

LEMMA QueueInit ==
  ASSUME Init
  PROVE  QueueInv
<1>1. TypeOK /\ JobTaken
  BY TypeInit
<1>2. Distinct(runq) /\ \A t : Queued(t) <=> t = "worker"
  BY DEF Init, Distinct, Queued, Occurs
<1> QED
  BY <1>1, <1>2, TaskNames DEF Init, QueueInv, WorkerQueued, ServiceQueued,
     ReadersQueued, ServiceInJob

LEMMA QueueStep ==
  ASSUME QueueInv, [Next]_vars
  PROVE  QueueInv'
<1>1. (TypeOK /\ JobTaken)'
  BY TypeStep DEF QueueInv
<1>2. CASE UNCHANGED vars
  <2>1. Wakeups'
    BY <1>2 DEF vars, QueueInv, Wakeups, WorkerQueued, ServiceQueued,
       ReadersQueued, ServiceInJob, Queued, Occurs, Distinct
  <2> QED
    BY <1>1, <2>1 DEF QueueInv, Wakeups
<1>3. CASE Next
  <2>1. Proxy \in Conns
    BY DEF Conns
  <2>2. Wakeups'
    BY <1>1, <1>3, <2>1, WakeupsReaders, WakeupsWorker, WakeupsService DEF Next
  <2> QED
    BY <1>1, <2>2 DEF QueueInv, Wakeups
<1> QED
  BY <1>2, <1>3

LEMMA QueueCorrect == Spec => []QueueInv
  BY QueueInit, QueueStep, PTL DEF Spec

\* However pushes, notifications and the worker's own checks interleave, the
\* worker never sleeps on its timer with a message in msg_queue_ and nothing
\* to resume it (push_msg notifies of the first message only).
THEOREM WorkerWakes == Spec => []NoLostWakeup
<1>1. QueueInv => NoLostWakeup
  BY DEF QueueInv, WorkerQueued, NoLostWakeup
<1> QED
  BY <1>1, QueueCorrect, PTL

\* Nor does it wait on its second timer for a notify_complete that was
\* called before or after the wait began.
THEOREM CompletionArrives == Spec => []NoLostCompletion
<1>1. QueueInv => NoLostCompletion
  BY DEF QueueInv, WorkerQueued, NoLostCompletion
<1> QED
  BY <1>1, QueueCorrect, PTL

\* A process runs one service at a time, whatever the number of connections
\* that send it requests.
THEOREM ServicesInTurn == Spec => []OneServiceAtATime
<1>1. QueueInv => OneServiceAtATime
  BY DEF QueueInv, ServiceInJob, OneServiceAtATime
<1> QED
  BY <1>1, QueueCorrect, PTL

-----------------------------------------------------------------------------
(* The answer to a send().                                                 *)

\* In s, y never comes without an x before it.
Before(s, x, y) == \A j \in DOMAIN s : s[j] = y => \E i \in 1 .. j - 1 : s[i] = x

LEMMA BeforeAppend ==
  ASSUME NEW S, NEW s \in Seq(S), NEW z \in S, NEW x, NEW y, z # y,
         Before(s, x, y)
  PROVE  Before(Append(s, z), x, y)
<1> SUFFICES ASSUME NEW j \in 1 .. Len(s) + 1, Append(s, z)[j] = y
             PROVE  \E i \in 1 .. j - 1 : Append(s, z)[i] = x
  BY AppendFacts DEF Before
<1>1. j \in 1 .. Len(s) /\ s[j] = y
  BY AppendFacts
<1>2. PICK i \in 1 .. j - 1 : s[i] = x
  BY <1>1 DEF Before
<1>3. i \in 1 .. Len(s)
  BY <1>1
<1> QED
  BY <1>2, <1>3, AppendFacts

LEMMA BeforeNew ==
  ASSUME NEW S, NEW s \in Seq(S), NEW y \in S, NEW x,
         Occurs(s, x), ~Occurs(s, y)
  PROVE  Before(Append(s, y), x, y)
<1> SUFFICES ASSUME NEW j \in 1 .. Len(s) + 1, Append(s, y)[j] = y
             PROVE  \E i \in 1 .. j - 1 : Append(s, y)[i] = x
  BY AppendFacts DEF Before
<1>1. j = Len(s) + 1
  BY AppendFacts DEF Occurs
<1>2. PICK i \in 1 .. Len(s) : s[i] = x
  BY DEF Occurs
<1> QED
  BY <1>1, <1>2, AppendFacts

LEMMA BeforeTail ==
  ASSUME NEW S, NEW s \in Seq(S), s # <<>>, NEW x, NEW y, Head(s) # x,
         Before(s, x, y)
  PROVE  Before(Tail(s), x, y)
<1> SUFFICES ASSUME NEW j \in 1 .. Len(s) - 1, Tail(s)[j] = y
             PROVE  \E i \in 1 .. j - 1 : Tail(s)[i] = x
  BY TailFacts DEF Before
<1>1. j + 1 \in DOMAIN s /\ s[j + 1] = y
  BY TailFacts
<1>2. PICK i \in 1 .. j : s[i] = x
  BY <1>1 DEF Before
<1>3. i # 1
  BY <1>2, TailFacts
<1>4. i - 1 \in 1 .. Len(s) - 1 /\ i - 1 \in 1 .. j - 1
  BY <1>2, <1>3
<1>5. Tail(s)[i - 1] = x
  BY <1>2, <1>4, TailFacts
<1> QED
  BY <1>4, <1>5

AnswerRead == reader[Proxy] = "got" /\ frame[Proxy] = Answer
AnswerSent == Occurs(wire[Proxy], Answer)

\* An answer is on its way only while a send() wants it, and only one is.
OneAnswer ==
  /\ AnswerSent \/ AnswerRead => service \in {"sending", "awaiting"}
  /\ AnswerRead => ~AnswerSent
  /\ \A i, j \in DOMAIN wire[Proxy] :
       wire[Proxy][i] = Answer /\ wire[Proxy][j] = Answer => i = j

\* When it has been read, the send() that still writes resumes first.
SendFirst ==
  AnswerRead /\ service = "sending" => Before(runq, "service", Proxy)

AnswerInv == QueueInv /\ OneAnswer /\ SendFirst

\* OneAnswer depends on the proxy's connection and on the service only.
LEMMA OneAnswerKept ==
  ASSUME OneAnswer, wire'[Proxy] = wire[Proxy],
         AnswerRead' => AnswerRead,
         \/ service' = service
         \/ service \in {"sending", "awaiting"}
            /\ service' \in {"sending", "awaiting"}
         \/ service \notin {"sending", "awaiting"}
         \/ ~AnswerSent /\ ~AnswerRead'
  PROVE  OneAnswer'
<1>1. AnswerSent' <=> AnswerSent
  BY DEF AnswerSent, Occurs
<1> QED
  BY <1>1 DEF OneAnswer

LEMMA OneAnswerStep ==
  ASSUME AnswerInv, TypeOK', Next
  PROVE  OneAnswer'
<1>1. Proxy \in Conns /\ OneAnswer /\ QueueInv /\ TypeOK
  BY DEF Conns, AnswerInv, QueueInv
<1> DEFINE w == wire[Proxy]
<1>2. w \in Seq(Frames)
  BY <1>1 DEF TypeOK
<1>3. ASSUME NEW c \in Conns, PeerSends(c)
      PROVE  OneAnswer'
  <2>1. UNCHANGED <<service, reader, frame>>
    BY <1>3 DEF PeerSends
  <2>2. CASE c # Proxy
    <3>1. wire'[Proxy] = w
      BY <1>1, <1>3, <2>2 DEF PeerSends, TypeOK
    <3> QED
      BY <1>1, <2>1, <3>1, OneAnswerKept DEF AnswerRead
  <2>3. CASE c = Proxy
    <3> DEFINE n == asked[Proxy] + 1
    <3>1. n \in Frames /\ n # Answer /\ wire'[Proxy] = Append(w, n)
      BY <1>1, <1>3, <2>3, CtxAssumption DEF PeerSends, TypeOK, Frames, Answer
    <3>2. \A i \in DOMAIN Append(w, n) : Append(w, n)[i] = Answer
             => i \in DOMAIN w /\ w[i] = Answer
      BY <1>2, <3>1, AppendFacts
    <3>3. AnswerSent' => AnswerSent
      BY <3>1, <3>2 DEF AnswerSent, Occurs
    <3> QED
      BY <1>1, <2>1, <3>1, <3>2, <3>3 DEF OneAnswer, AnswerRead
  <2> QED
    BY <2>2, <2>3
<1>4. CASE ProxyAnswers
  <2>1. /\ service \in {"sending", "awaiting"} /\ ~AnswerRead
        /\ \A i \in DOMAIN w : w[i] # Answer
        /\ UNCHANGED <<service, reader, frame>>
    BY <1>4 DEF ProxyAnswers, AnswerRead
  <2>2. Answer \in Frames /\ wire'[Proxy] = Append(w, Answer)
    BY <1>1, <1>4, CtxAssumption DEF ProxyAnswers, TypeOK, Frames, Answer
  <2>3. \A i \in DOMAIN Append(w, Answer) :
           Append(w, Answer)[i] = Answer => i = Len(w) + 1
    BY <1>2, <2>1, <2>2, AppendFacts
  <2> QED
    BY <2>1, <2>2, <2>3 DEF OneAnswer, AnswerRead
<1>5. ASSUME NEW c \in Conns, PeerCloses(c)
      PROVE  OneAnswer'
  BY <1>1, <1>5, OneAnswerKept DEF PeerCloses, AnswerRead
<1>11. ASSUME NEW c \in Conns, Accept(c)
      PROVE  OneAnswer'
  <2>1. AnswerRead' => AnswerRead
    BY <1>1, <1>11 DEF Accept, AnswerRead, TypeOK
  <2>2. UNCHANGED <<service, wire>>
    BY <1>11 DEF Accept
  <2> QED
    BY <1>1, <2>1, <2>2, OneAnswerKept
<1>6. ASSUME NEW c \in Conns, ReadCompletes(c)
      PROVE  OneAnswer'
  <2>1. UNCHANGED service /\ reader[c] = "reading"
    BY <1>6 DEF ReadCompletes
  <2>2. CASE c # Proxy
    <3>1. /\ wire'[Proxy] = w
          /\ reader'[Proxy] = reader[Proxy] /\ frame'[Proxy] = frame[Proxy]
      BY <1>1, <1>6, <2>2 DEF ReadCompletes, TypeOK
    <3> QED
      BY <1>1, <2>1, <3>1, OneAnswerKept DEF AnswerRead
  <2>3. CASE c = Proxy /\ w = <<>>
    <3>1. wire' = wire /\ reader'[Proxy] = "failed"
      BY <1>1, <1>6, <2>3 DEF ReadCompletes, TypeOK
    <3> QED
      BY <1>1, <2>1, <3>1, OneAnswerKept DEF AnswerRead
  <2>4. CASE c = Proxy /\ w # <<>>
    <3>1. wire'[Proxy] = Tail(w) /\ frame'[Proxy] = w[1]
      BY <1>1, <1>2, <1>6, <2>4, TailFacts DEF ReadCompletes, TypeOK
    <3>2. \A i \in DOMAIN Tail(w) : i + 1 \in DOMAIN w /\ Tail(w)[i] = w[i + 1]
                                    /\ i \in Nat \ {0}
      BY <1>2, <2>4, TailFacts
    <3>3. 1 \in DOMAIN w
      BY <1>2, <2>4, TailFacts
    <3>4. (AnswerSent' \/ AnswerRead') => AnswerSent
      BY <3>1, <3>2, <3>3 DEF AnswerSent, AnswerRead, Occurs
    <3>5. AnswerRead' => ~AnswerSent'
      <4>1. ASSUME w[1] = Answer, NEW i \in DOMAIN Tail(w), Tail(w)[i] = Answer
            PROVE  FALSE
        BY <1>1, <3>2, <3>3, <4>1 DEF OneAnswer
      <4> QED
        BY <3>1, <4>1 DEF AnswerSent, AnswerRead, Occurs
    <3>6. \A i, j \in DOMAIN Tail(w) :
             Tail(w)[i] = Answer /\ Tail(w)[j] = Answer => i = j
      BY <1>1, <3>2 DEF OneAnswer
    <3> QED
      BY <1>1, <2>1, <3>1, <3>4, <3>5, <3>6 DEF OneAnswer
  <2> QED
    BY <2>2, <2>3, <2>4
<1>7. ASSUME NEW c \in Conns, PushMsg(c) \/ ReaderEnds(c)
      PROVE  OneAnswer'
  <2>1. /\ UNCHANGED <<service, frame, wire>>
        /\ \E r \in {"reading", "done"} : reader' = [reader EXCEPT ![c] = r]
    BY <1>7 DEF PushMsg, ReaderEnds, ReadOn, IsRequest, FirstMessage, Enqueued
  <2>2. AnswerRead' => AnswerRead
    BY <1>1, <2>1 DEF AnswerRead, TypeOK
  <2> QED
    BY <1>1, <2>1, <2>2, OneAnswerKept
<1>8. CASE SetResponse
  <2>1. UNCHANGED wire /\ AnswerRead /\ ~AnswerSent
    BY <1>1, <1>8 DEF SetResponse, AnswerRead, OneAnswer
  <2>2. ~AnswerRead'
    BY <1>1, <1>8 DEF SetResponse, ReadOn, AnswerRead, TypeOK
  <2> QED
    BY <1>1, <2>1, <2>2, OneAnswerKept
<1>9. CASE Worker
  <2>1. UNCHANGED <<wire, frame>>
    BY <1>9 DEF Worker, Sleep, Loop, SkipClosed, RefuseUnknown, CallService,
       AwaitService, FailJob, Reply, MustWait
  <2>2. AnswerRead' => AnswerRead
    <3>1. \/ reader' = reader
          \/ \E c : reader' = [reader EXCEPT ![c] = "failed"]
      BY <1>9 DEF Worker, Sleep, Loop, SkipClosed, RefuseUnknown, CallService,
         AwaitService, FailJob, Reply, Close, MustWait
    <3> QED
      BY <1>1, <2>1, <3>1 DEF AnswerRead, TypeOK
  <2>3. service' = service \/ worker = "loop"
    BY <1>9 DEF Worker, Sleep, Loop, SkipClosed, RefuseUnknown, CallService,
       AwaitService, FailJob, Reply, MustWait
  <2>4. worker = "loop" => service = "none"
    BY <1>1 DEF QueueInv, ServiceInJob
  <2> QED
    BY <1>1, <2>1, <2>2, <2>3, <2>4, OneAnswerKept
<1>10. CASE Service
  <2>1. UNCHANGED <<wire, frame, reader>>
    BY <1>10 DEF Service, SendFails, SendWrites, AwaitResponse, NotifyComplete
  <2>2. \/ service' = service
        \/ service \in {"running", "failing"}
        \/ service = "sending" /\ service' = "awaiting"
    BY <1>10 DEF Service, SendFails, SendWrites, AwaitResponse, NotifyComplete
  <2> QED
    BY <1>1, <2>1, <2>2, OneAnswerKept DEF AnswerRead
<1> QED
  BY <1>3, <1>4, <1>5, <1>6, <1>7, <1>8, <1>9, <1>10, <1>11
     DEF Next, Reader

LEMMA SendFirstStep ==
  ASSUME AnswerInv, TypeOK', Next
  PROVE  SendFirst'
<1>1. /\ Proxy \in Conns /\ OneAnswer /\ QueueInv /\ TypeOK /\ SendFirst
      /\ runq \in Seq(Tasks)
  BY DEF Conns, AnswerInv, QueueInv, TypeOK
<1>2. Proxy # "worker" /\ Proxy # "service"
  BY <1>1, TaskNames
<1> SUFFICES ASSUME AnswerRead', service' = "sending"
             PROVE  Before(runq', "service", Proxy)
  BY DEF SendFirst, Before
<1>3. ASSUME AnswerRead, service = "sending", runq' = runq
      PROVE  Before(runq', "service", Proxy)
  BY <1>1, <1>3 DEF SendFirst
<1>4. ASSUME AnswerRead, service = "sending", NEW t \in Tasks, t # Proxy,
             runq' = Append(runq, t)
      PROVE  Before(runq', "service", Proxy)
  BY <1>1, <1>4, BeforeAppend DEF SendFirst
<1>5. ASSUME AnswerRead, service = "sending", NEW h, Running(h), h # "service",
             \/ runq' = Tail(runq)
             \/ \E t \in Tasks : t # Proxy /\ runq' = Append(Tail(runq), t)
      PROVE  Before(runq', "service", Proxy)
  <2>1. Before(Tail(runq), "service", Proxy) /\ Tail(runq) \in Seq(Tasks)
    BY <1>1, <1>5, BeforeTail, TailFacts DEF Running, SendFirst
  <2> QED
    BY <1>5, <2>1, BeforeAppend
<1>6. ASSUME NEW c \in Conns, PeerSends(c) \/ PeerCloses(c)
      PROVE  Before(runq', "service", Proxy)
  BY <1>3, <1>6 DEF PeerSends, PeerCloses, AnswerRead
<1>7. CASE ProxyAnswers
  BY <1>3, <1>7 DEF ProxyAnswers, AnswerRead
<1>13. ASSUME NEW c \in Conns, Accept(c)
      PROVE  Before(runq', "service", Proxy)
  <2>1. AnswerRead /\ UNCHANGED <<runq, service>>
    BY <1>1, <1>13 DEF Accept, AnswerRead, TypeOK
  <2> QED
    BY <1>3, <2>1
<1>8. ASSUME NEW c \in Conns, ReadCompletes(c)
      PROVE  Before(runq', "service", Proxy)
  <2>1. /\ service = "sending" /\ reader[c] = "reading" /\ c \in Tasks
        /\ runq' = Append(runq, c)
    BY <1>8, TaskNames DEF ReadCompletes
  <2>2. CASE c = Proxy
    <3>1. Occurs(runq, "service") /\ ~Occurs(runq, Proxy)
      BY <1>1, <2>1, <2>2 DEF QueueInv, ServiceQueued, ReadersQueued, Queued
    <3> QED
      BY <1>1, <2>1, <2>2, <3>1, BeforeNew
  <2>3. CASE c # Proxy
    <3>1. AnswerRead
      BY <1>1, <1>8, <2>3 DEF ReadCompletes, AnswerRead, TypeOK
    <3> QED
      BY <1>4, <2>1, <2>3, <3>1
  <2> QED
    BY <2>2, <2>3
<1>9. ASSUME NEW c \in Conns, PushMsg(c) \/ ReaderEnds(c)
      PROVE  Before(runq', "service", Proxy)
  <2>1. /\ service = "sending" /\ Running(c) /\ c # "service"
        /\ UNCHANGED frame
        /\ \E r \in {"reading", "done"} : reader' = [reader EXCEPT ![c] = r]
    BY <1>9, TaskNames
       DEF PushMsg, ReaderEnds, ReadOn, IsRequest, FirstMessage, Enqueued
  <2>2. AnswerRead
    BY <1>1, <2>1 DEF AnswerRead, TypeOK
  <2>3. \/ runq' = Tail(runq)
        \/ runq' = Append(Tail(runq), "worker")
    BY <1>9 DEF PushMsg, ReaderEnds, IsRequest, FirstMessage, Enqueued
  <2> QED
    BY <1>2, <1>5, <2>1, <2>2, <2>3, TaskNames
<1>10. CASE SetResponse
  BY <1>1, <1>10 DEF SetResponse, ReadOn, AnswerRead, TypeOK
<1>11. CASE Worker
  <2>1. /\ service = "sending" /\ UNCHANGED frame
        /\ ~\E b \in BOOLEAN : CallService(b)
    BY <1>11 DEF Worker, Sleep, Loop, SkipClosed, RefuseUnknown, CallService,
       AwaitService, FailJob, Reply, MustWait
  <2>2. CASE FailJob \/ RefuseUnknown
    <3>1. PICK c \in Conns : Close(c)
      BY <1>1, <2>2 DEF FailJob, RefuseUnknown, Served, QueueInv, JobTaken,
         Msgs, Conns, MustWait
    <3>2. AnswerRead
      BY <1>1, <2>1, <3>1 DEF Close, AnswerRead, TypeOK
    <3>3. CASE reader[c] = "reading"
      BY <1>4, <2>1, <3>1, <3>2, <3>3, TaskNames DEF Close, AnswerRead
    <3>4. CASE reader[c] # "reading"
      BY <1>3, <2>1, <3>1, <3>2, <3>4 DEF Close
    <3> QED
      BY <3>3, <3>4
  <2>3. CASE ~(FailJob \/ RefuseUnknown)
    <3>1. /\ UNCHANGED reader
          /\ Running("worker")
          /\ \/ runq' = runq
             \/ runq' = Tail(runq)
             \/ runq' = Append(Tail(runq), "worker")
      BY <1>11, <2>1, <2>3 DEF Worker, Sleep, Loop, SkipClosed, AwaitService,
         Reply, Served, MustWait
    <3>2. AnswerRead
      BY <2>1, <3>1 DEF AnswerRead
    <3> QED
      BY <1>2, <1>3, <1>5, <2>1, <3>1, <3>2, TaskNames
  <2> QED
    BY <2>2, <2>3
<1>12. CASE Service
  <2>1. UNCHANGED <<frame, reader>>
    BY <1>12 DEF Service, SendFails, SendWrites, AwaitResponse, NotifyComplete
  <2>2. service = "running"
    BY <1>12 DEF Service, SendFails, SendWrites, AwaitResponse, NotifyComplete
  <2> QED
    BY <1>1, <2>1, <2>2 DEF OneAnswer, AnswerRead
<1> QED
  BY <1>6, <1>7, <1>8, <1>9, <1>10, <1>11, <1>12, <1>13
     DEF Next, Reader

LEMMA AnswerCorrect == Spec => []AnswerInv
<1>1. Init => AnswerInv
  <2>1. ASSUME Init
        PROVE  AnswerInv
    <3>1. wire[Proxy] = <<>> /\ reader[Proxy] = "reading"
      BY <2>1 DEF Init, Conns
    <3>2. ~AnswerRead /\ ~AnswerSent
      BY <3>1 DEF AnswerRead, AnswerSent, Occurs
    <3> QED
      BY <2>1, <3>1, <3>2, QueueInit DEF AnswerInv, OneAnswer, SendFirst
  <2> QED
    BY <2>1
<1>2. AnswerInv /\ [Next]_vars => AnswerInv'
  <2> SUFFICES ASSUME AnswerInv, [Next]_vars
               PROVE  AnswerInv'
    OBVIOUS
  <2>1. QueueInv' /\ TypeOK'
    BY QueueStep DEF AnswerInv, QueueInv
  <2>2. CASE UNCHANGED vars
    BY <2>1, <2>2 DEF vars, AnswerInv, OneAnswer, SendFirst, AnswerRead,
       AnswerSent, Before, Occurs
  <2>3. CASE Next
    BY <2>1, <2>3, OneAnswerStep, SendFirstStep DEF AnswerInv
  <2> QED
    BY <2>2, <2>3
<1> QED
  BY <1>1, <1>2, PTL DEF Spec

\* set_response_pack is called only when send() waits on its third timer, so
\* the cancel_one that resumes it is never lost: the write of send() resumes
\* before the read of its answer, however early the answer comes.
THEOREM ResponseIsAwaited == Spec => []NoLostResponse
<1>1. AnswerInv => NoLostResponse
  <2> SUFFICES ASSUME AnswerInv, Running(Proxy), AnswerRead
               PROVE  service = "awaiting"
    BY DEF NoLostResponse, AnswerRead
  <2>1. service \in {"sending", "awaiting"}
    BY DEF AnswerInv, OneAnswer
  <2>2. 1 \in DOMAIN runq /\ runq[1] = Proxy
    BY TailFacts DEF AnswerInv, QueueInv, TypeOK, Running
  <2>3. ~Before(runq, "service", Proxy)
    BY <2>2 DEF Before
  <2> QED
    BY <2>1, <2>3 DEF AnswerInv, SendFirst
<1> QED
  BY <1>1, AnswerCorrect, PTL

-----------------------------------------------------------------------------
(* The order of the answers.  First, messages of one connection in a       *)
(* queue, and requests on a wire.                                          *)

Has(q, c, n) == \E i \in DOMAIN q : q[i].conn = c /\ q[i].n = n

\* The messages of c are in the order of their numbers.
InTurn(q, c) ==
  \A i, j \in DOMAIN q :
    i < j /\ q[i].conn = c /\ q[j].conn = c => q[i].n < q[j].n

\* So are the requests among the frames of a wire.
Increasing(w) ==
  \A i, j \in DOMAIN w : i < j /\ w[i] # Answer /\ w[j] # Answer => w[i] < w[j]

LEMMA MsgFields ==
  ASSUME NEW m \in Msgs
  PROVE  m.conn \in Conns /\ m.n \in 1 .. MaxRequests /\ m.n \in Nat
  BY DEF Msgs

LEMMA HasAppend ==
  ASSUME NEW q \in Seq(Msgs), NEW m \in Msgs, NEW c, NEW n
  PROVE  Has(Append(q, m), c, n) <=> Has(q, c, n) \/ (m.conn = c /\ m.n = n)
<1>1. ASSUME m.conn = c, m.n = n
      PROVE  Has(Append(q, m), c, n)
  <2>1. Len(q) + 1 \in DOMAIN Append(q, m) /\ Append(q, m)[Len(q) + 1] = m
    BY AppendFacts
  <2> QED
    BY <1>1, <2>1 DEF Has
<1>2. ASSUME Has(q, c, n)
      PROVE  Has(Append(q, m), c, n)
  <2>1. PICK i \in DOMAIN q : q[i].conn = c /\ q[i].n = n
    BY <1>2 DEF Has
  <2>2. i \in DOMAIN Append(q, m) /\ Append(q, m)[i] = q[i]
    BY <2>1, AppendFacts
  <2> QED
    BY <2>1, <2>2 DEF Has
<1>3. ASSUME Has(Append(q, m), c, n), ~(m.conn = c /\ m.n = n)
      PROVE  Has(q, c, n)
  <2>1. PICK i \in 1 .. Len(q) + 1 :
           Append(q, m)[i].conn = c /\ Append(q, m)[i].n = n
    BY <1>3, AppendFacts DEF Has
  <2>2. i \in DOMAIN q /\ Append(q, m)[i] = q[i]
    BY <1>3, <2>1, AppendFacts
  <2> QED
    BY <2>1, <2>2 DEF Has
<1> QED
  BY <1>1, <1>2, <1>3

LEMMA InTurnAppend ==
  ASSUME NEW q \in Seq(Msgs), NEW m \in Msgs, NEW c, InTurn(q, c),
         m.conn = c => \A n \in 1 .. MaxRequests : Has(q, c, n) => n < m.n
  PROVE  InTurn(Append(q, m), c)
<1> SUFFICES ASSUME NEW i \in 1 .. Len(q) + 1, NEW j \in 1 .. Len(q) + 1, i < j,
                    Append(q, m)[i].conn = c, Append(q, m)[j].conn = c
             PROVE  Append(q, m)[i].n < Append(q, m)[j].n
  BY AppendFacts DEF InTurn
<1>1. i \in DOMAIN q /\ Append(q, m)[i] = q[i] /\ q[i] \in Msgs
  BY AppendFacts
<1>2. CASE j = Len(q) + 1
  <2>1. Append(q, m)[j] = m
    BY <1>2, AppendFacts
  <2>2. Has(q, c, q[i].n) /\ q[i].n \in 1 .. MaxRequests
    BY <1>1 DEF Has, Msgs
  <2> QED
    BY <1>1, <2>1, <2>2
<1>3. CASE j # Len(q) + 1
  <2>1. j \in DOMAIN q /\ Append(q, m)[j] = q[j]
    BY <1>3, AppendFacts
  <2> QED
    BY <1>1, <2>1 DEF InTurn
<1> QED
  BY <1>2, <1>3

LEMMA HasTail ==
  ASSUME NEW q \in Seq(Msgs), q # <<>>, NEW c, NEW n, InTurn(q, c)
  PROVE  Has(Tail(q), c, n)
           <=> Has(q, c, n) /\ ~(Head(q).conn = c /\ Head(q).n = n)
<1>1. /\ Head(q) = q[1] /\ DOMAIN q = 1 .. Len(q)
      /\ Len(q) \in Nat /\ 1 \in DOMAIN q
      /\ DOMAIN Tail(q) = 1 .. Len(q) - 1
      /\ \A i \in DOMAIN Tail(q) :
           Tail(q)[i] = q[i + 1] /\ i + 1 \in DOMAIN q /\ 1 < i + 1
  BY TailFacts
<1>2. ASSUME Has(Tail(q), c, n)
      PROVE  Has(q, c, n) /\ ~(Head(q).conn = c /\ Head(q).n = n)
  <2>1. PICK i \in DOMAIN Tail(q) : Tail(q)[i].conn = c /\ Tail(q)[i].n = n
    BY <1>2 DEF Has
  <2>2. Has(q, c, n)
    BY <1>1, <2>1 DEF Has
  <2>3. q[1].conn = c => q[1].n < q[i + 1].n
    BY <1>1, <2>1 DEF InTurn
  <2>4. q[1].n \in Nat
    BY <1>1, TailFacts, MsgFields
  <2> QED
    BY <1>1, <2>1, <2>2, <2>3, <2>4
<1>3. ASSUME Has(q, c, n), ~(Head(q).conn = c /\ Head(q).n = n)
      PROVE  Has(Tail(q), c, n)
  <2>1. PICK i \in DOMAIN q : q[i].conn = c /\ q[i].n = n
    BY <1>3 DEF Has
  <2>2. i # 1
    BY <1>1, <1>3, <2>1
  <2>3. i - 1 \in DOMAIN Tail(q) /\ (i - 1) + 1 = i
    BY <1>1, <2>1, <2>2
  <2>4. Tail(q)[i - 1] = q[i]
    BY <1>1, <2>3
  <2> QED
    BY <2>1, <2>3, <2>4 DEF Has
<1> QED
  BY <1>2, <1>3

LEMMA InTurnTail ==
  ASSUME NEW q \in Seq(Msgs), q # <<>>, NEW c, InTurn(q, c)
  PROVE  InTurn(Tail(q), c)
<1>1. \A i \in DOMAIN Tail(q) :
         Tail(q)[i] = q[i + 1] /\ i + 1 \in DOMAIN q /\ i \in Nat
  BY TailFacts
<1> QED
  BY <1>1 DEF InTurn

\* The head of a queue is the first of its connection.
LEMMA HeadFirst ==
  ASSUME NEW q \in Seq(Msgs), q # <<>>, NEW c, InTurn(q, c), Head(q).conn = c
  PROVE  /\ Has(q, c, Head(q).n)
         /\ \A n \in Nat : Has(q, c, n) => Head(q).n <= n
<1>1. /\ Head(q) = q[1] /\ DOMAIN q = 1 .. Len(q) /\ 1 \in DOMAIN q
      /\ q[1].n \in Nat /\ Len(q) \in Nat
  <2>1. Head(q) = q[1] /\ Head(q) \in Msgs
    BY TailFacts
  <2> QED
    BY <2>1, TailFacts, MsgFields
<1>2. Has(q, c, Head(q).n)
  BY <1>1 DEF Has
<1>3. ASSUME NEW n \in Nat, Has(q, c, n)
      PROVE  Head(q).n <= n
  <2>1. PICK i \in DOMAIN q : q[i].conn = c /\ q[i].n = n
    BY <1>3 DEF Has
  <2>2. CASE i = 1
    BY <1>1, <2>1, <2>2
  <2>3. CASE i # 1
    <3>1. 1 < i
      BY <1>1, <2>3
    <3>2. q[1].n < q[i].n
      BY <1>1, <2>1, <3>1 DEF InTurn
    <3> QED
      BY <1>1, <2>1, <3>2
  <2> QED
    BY <2>2, <2>3
<1> QED
  BY <1>2, <1>3

\* The same about the frames of a wire.
LEMMA IncreasingAppend ==
  ASSUME NEW w \in Seq(Frames), NEW n \in Frames, Increasing(w),
         \/ n = Answer
         \/ \A m \in 1 .. MaxRequests : Occurs(w, m) => m < n
  PROVE  Increasing(Append(w, n))
<1> USE CtxAssumption DEF Frames, Answer
<1> SUFFICES ASSUME NEW i \in 1 .. Len(w) + 1, NEW j \in 1 .. Len(w) + 1, i < j,
                    Append(w, n)[i] # Answer, Append(w, n)[j] # Answer
             PROVE  Append(w, n)[i] < Append(w, n)[j]
  BY AppendFacts DEF Increasing
<1>1. i \in DOMAIN w /\ Append(w, n)[i] = w[i] /\ w[i] \in Frames
  BY AppendFacts
<1>2. CASE j = Len(w) + 1
  <2>1. Append(w, n)[j] = n
    BY <1>2, AppendFacts
  <2>2. Occurs(w, w[i]) /\ w[i] \in 1 .. MaxRequests
    BY <1>1 DEF Occurs
  <2> QED
    BY <1>1, <2>1, <2>2
<1>3. CASE j # Len(w) + 1
  <2>1. j \in DOMAIN w /\ Append(w, n)[j] = w[j]
    BY <1>3, AppendFacts
  <2> QED
    BY <1>1, <2>1 DEF Increasing
<1> QED
  BY <1>2, <1>3

LEMMA WireTail ==
  ASSUME NEW w \in Seq(Frames), w # <<>>, Increasing(w)
  PROVE  /\ Increasing(Tail(w))
         /\ \A n \in 1 .. MaxRequests :
              /\ Occurs(Tail(w), n) <=> Occurs(w, n) /\ n # Head(w)
              /\ Occurs(Tail(w), n) /\ Head(w) # Answer => Head(w) < n
<1> USE CtxAssumption DEF Frames, Answer
<1>1. /\ Head(w) = w[1] /\ DOMAIN w = 1 .. Len(w)
      /\ Len(w) \in Nat /\ 1 \in DOMAIN w /\ w[1] \in Frames
      /\ DOMAIN Tail(w) = 1 .. Len(w) - 1
      /\ \A i \in DOMAIN Tail(w) :
           Tail(w)[i] = w[i + 1] /\ i + 1 \in DOMAIN w /\ 1 < i + 1
  BY TailFacts
<1>2. Increasing(Tail(w))
  BY <1>1 DEF Increasing
<1>3. ASSUME NEW n \in 1 .. MaxRequests, Occurs(Tail(w), n)
      PROVE  Occurs(w, n) /\ n # Head(w) /\ (Head(w) # Answer => Head(w) < n)
  <2>1. PICK i \in DOMAIN Tail(w) : Tail(w)[i] = n
    BY <1>3 DEF Occurs
  <2>2. w[i + 1] = n /\ i + 1 \in DOMAIN w /\ 1 < i + 1 /\ n # Answer
    BY <1>1, <2>1
  <2>3. w[1] # Answer => w[1] < w[i + 1]
    BY <1>1, <2>2 DEF Increasing
  <2> QED
    BY <1>1, <2>2, <2>3 DEF Occurs
<1>4. ASSUME NEW n \in 1 .. MaxRequests, Occurs(w, n), n # Head(w)
      PROVE  Occurs(Tail(w), n)
  <2>1. PICK i \in DOMAIN w : w[i] = n
    BY <1>4 DEF Occurs
  <2>2. i # 1
    BY <1>1, <1>4, <2>1
  <2>3. i - 1 \in DOMAIN Tail(w) /\ (i - 1) + 1 = i
    BY <1>1, <2>1, <2>2
  <2> QED
    BY <1>1, <2>1, <2>3 DEF Occurs
<1> QED
  BY <1>2, <1>3, <1>4

-----------------------------------------------------------------------------
(* What is on its way on a connection, from the other end to the worker.   *)

HasRead(c, n) == reader[c] = "got" /\ frame[c] = n

\* Request n of connection c has been sent and the worker has not taken it.
Pending(c, n) == Has(msg_queue, c, n) \/ HasRead(c, n) \/ Occurs(wire[c], n)

\* The last request of c that the worker has taken.
Taken(c) == IF job # NoJob /\ job.conn = c THEN job.n ELSE Len(out[c])

\* While the socket is open the requests of a connection wait in line: those
\* after the last one taken, all of them and in their order, be it in the
\* queue, with the reader or on the wire.
InLine(c) ==
  /\ job # NoJob /\ job.conn = c => job.n = Len(out[c]) + 1
  /\ Taken(c) <= asked[c]
  /\ \A n \in 1 .. MaxRequests :
       (Taken(c) < n /\ n <= asked[c]) <=> Pending(c, n)
  /\ InTurn(msg_queue, c)
  /\ Increasing(wire[c])
  /\ \A m, n \in 1 .. MaxRequests :
       /\ Has(msg_queue, c, m) /\ (HasRead(c, n) \/ Occurs(wire[c], n)) => m < n
       /\ HasRead(c, m) /\ Occurs(wire[c], n) => m < n

\* Between two calls of a service there is no job.
JobOver == worker \notin {"called", "serving"} => job = NoJob

OrderInv ==
  /\ TypeOK
  /\ JobTaken
  /\ JobOver
  /\ AnswersInOrder
  /\ \A c \in Conns : sock[c] => InLine(c)

LEMMA JobKinds ==
  ASSUME NEW m \in Msgs
  PROVE  m # NoJob
  BY MsgFields DEF NoJob

LEMMA TakenType ==
  ASSUME TypeOK, NEW c \in Conns
  PROVE  Taken(c) \in Nat
<1>1. Len(out[c]) \in Nat
  BY DEF TypeOK
<1>2. job # NoJob => job.n \in Nat
  BY MsgFields DEF TypeOK
<1> QED
  BY <1>1, <1>2 DEF Taken

\* InLine depends on what has happened to the connection itself.
LEMMA InLineKept ==
  ASSUME NEW c \in Conns, InLine(c),
         job' = job, out'[c] = out[c], asked'[c] = asked[c], wire'[c] = wire[c],
         \A n \in 1 .. MaxRequests : HasRead(c, n)' <=> HasRead(c, n),
         \A n \in 1 .. MaxRequests : Has(msg_queue', c, n) <=> Has(msg_queue, c, n),
         InTurn(msg_queue', c)
  PROVE  InLine(c)'
<1>1. Taken(c)' = Taken(c)
  BY DEF Taken
<1>2. InTurn(msg_queue, c)'
  BY DEF InTurn
<1>3. \A n \in 1 .. MaxRequests :
        /\ Has(msg_queue, c, n)' <=> Has(msg_queue, c, n)
        /\ Occurs(wire[c], n)' <=> Occurs(wire[c], n)
  BY DEF Has, Occurs
<1>4. \A n \in 1 .. MaxRequests : Pending(c, n)' <=> Pending(c, n)
  BY <1>3 DEF Pending
<1>5. Increasing(wire[c])'
  BY DEF InLine, Increasing
<1> QED
  BY <1>1, <1>2, <1>3, <1>4, <1>5 DEF InLine

\* The other end sends, or closes.
LEMMA OrderPeers ==
  ASSUME OrderInv, TypeOK', NEW d \in Conns,
         PeerSends(d) \/ ProxyAnswers \/ PeerCloses(d),
         NEW c \in Conns, sock[c]
  PROVE  InLine(c)'
<1>1. InLine(c) /\ TypeOK
  BY DEF OrderInv
<1>2. /\ UNCHANGED <<job, out, msg_queue, reader, frame>>
      /\ InTurn(msg_queue, c) /\ InTurn(msg_queue', c)
      /\ \A n \in 1 .. MaxRequests : HasRead(c, n)' <=> HasRead(c, n)
  BY <1>1 DEF PeerSends, ProxyAnswers, PeerCloses, HasRead, InLine
<1>3. CASE UNCHANGED <<asked[c], wire[c]>>
  BY <1>1, <1>2, <1>3, InLineKept
<1>4. CASE PeerSends(c)
  <2> DEFINE k == asked[c] + 1
             w == Append(wire[c], k)
  <2>1. /\ wire[c] \in Seq(Frames) /\ k \in Frames /\ k \in 1 .. MaxRequests
        /\ asked[c] \in Nat /\ Len(out[c]) \in Nat
        /\ asked'[c] = k /\ wire'[c] = w
    BY <1>1, <1>4, CtxAssumption DEF PeerSends, TypeOK, Frames
  <2>2. \A n \in 1 .. MaxRequests : Pending(c, n) => n < k
    BY <1>1, <2>1 DEF InLine
  <2>3. \A n \in 1 .. MaxRequests : Occurs(w, n) <=> Occurs(wire[c], n) \/ n = k
    BY <2>1, OccursAppend
  <2>4. Increasing(w)
    BY <1>1, <2>1, <2>2, IncreasingAppend DEF InLine, Pending
  <2> HIDE DEF w
  <2>5. /\ Taken(c)' = Taken(c)
        /\ \A n : Has(msg_queue, c, n)' <=> Has(msg_queue, c, n)
        /\ \A n : Occurs(wire[c], n)' <=> Occurs(w, n)
        /\ InTurn(msg_queue, c)' /\ Increasing(wire[c])'
    BY <1>2, <2>1, <2>4 DEF Taken, Has, Occurs, InTurn, Increasing
  <2>6. Taken(c) < k
    <3>1. Taken(c) <= asked[c] /\ Taken(c) \in Nat
      BY <1>1, TakenType DEF InLine
    <3> QED
      BY <2>1, <3>1
  <2>7. \A n \in 1 .. MaxRequests : Pending(c, n)' <=> Pending(c, n) \/ n = k
    BY <1>2, <2>3, <2>5 DEF Pending
  <2>8. \A n \in 1 .. MaxRequests :
           (Taken(c)' < n /\ n <= asked'[c]) <=> Pending(c, n)'
    <3> SUFFICES ASSUME NEW n \in 1 .. MaxRequests
                 PROVE  (Taken(c)' < n /\ n <= asked'[c]) <=> Pending(c, n)'
      OBVIOUS
    <3>1. Pending(c, n) <=> Taken(c) < n /\ n <= asked[c]
      BY <1>1 DEF InLine
    <3> QED
      BY <1>1, <2>1, <2>5, <2>6, <2>7, <3>1, TakenType
  <2>9. \A m, n \in 1 .. MaxRequests :
          /\ Has(msg_queue, c, m)' /\ (HasRead(c, n)' \/ Occurs(wire[c], n)')
               => m < n
          /\ HasRead(c, m)' /\ Occurs(wire[c], n)' => m < n
    BY <1>1, <1>2, <2>2, <2>3, <2>5 DEF InLine, Pending
  <2>10. Taken(c)' <= asked'[c] /\ UNCHANGED <<job, out>>
    BY <1>1, <1>2, <2>1, <2>5, <2>6, TakenType
  <2> QED
    BY <1>1, <2>5, <2>8, <2>9, <2>10 DEF InLine
<1>5. CASE ProxyAnswers /\ c = Proxy
  <2> DEFINE w == Append(wire[c], Answer)
  <2>1. /\ wire[c] \in Seq(Frames) /\ Answer \in Frames
        /\ wire'[c] = w /\ asked' = asked
    BY <1>1, <1>5, CtxAssumption DEF ProxyAnswers, TypeOK, Frames, Answer
  <2>2. \A n \in 1 .. MaxRequests : Occurs(w, n) <=> Occurs(wire[c], n)
    BY <2>1, OccursAppend DEF Answer
  <2>3. Increasing(w)
    BY <1>1, <2>1, IncreasingAppend DEF InLine
  <2> HIDE DEF w
  <2>4. /\ Taken(c)' = Taken(c)
        /\ \A n : Has(msg_queue, c, n)' <=> Has(msg_queue, c, n)
        /\ \A n : Occurs(wire[c], n)' <=> Occurs(w, n)
        /\ InTurn(msg_queue, c)' /\ Increasing(wire[c])'
    BY <1>2, <2>1, <2>3 DEF Taken, Has, Occurs, InTurn, Increasing
  <2> QED
    BY <1>1, <1>2, <2>1, <2>2, <2>4 DEF InLine, Pending
<1> QED
  BY <1>1, <1>3, <1>4, <1>5 DEF PeerSends, ProxyAnswers, PeerCloses, TypeOK, Conns

\* The reader of a connection.
LEMMA OrderReaders ==
  ASSUME OrderInv, TypeOK', NEW d \in Conns,
         Reader(d) \/ SetResponse,
         NEW c \in Conns, sock[c], sock'[c]
  PROVE  InLine(c)'
<1> USE DEF Reader
<1>1. InLine(c) /\ TypeOK /\ InTurn(msg_queue, c) /\ Increasing(wire[c])
  BY DEF OrderInv, InLine
<1>2. UNCHANGED <<job, out, asked>> /\ Taken(c)' = Taken(c)
  BY DEF Accept, ReadCompletes, PushMsg, ReaderEnds, SetResponse, Taken,
     IsRequest, FirstMessage, Enqueued
<1>3. CASE /\ UNCHANGED <<msg_queue, wire>>
           /\ \A n \in 1 .. MaxRequests : HasRead(c, n)' <=> HasRead(c, n)
  BY <1>1, <1>2, <1>3, InLineKept
<1>4. CASE ReadCompletes(d)
  <2>1. CASE d # c
    <3>1. /\ msg_queue' = msg_queue /\ wire'[c] = wire[c]
          /\ reader'[c] = reader[c] /\ frame'[c] = frame[c]
      BY <1>1, <1>4, <2>1 DEF ReadCompletes, TypeOK
    <3> QED
      BY <1>1, <1>2, <3>1, InLineKept DEF HasRead
  <2>2. CASE d = c /\ wire[c] = <<>>
    BY <1>1, <1>3, <1>4, <2>2 DEF ReadCompletes, HasRead, TypeOK
  <2>3. CASE d = c /\ wire[c] # <<>>
    <3> DEFINE w == Tail(wire[c])
               h == Head(wire[c])
    <3>1. /\ msg_queue' = msg_queue /\ wire'[c] = w
          /\ reader[c] = "reading" /\ reader'[c] = "got" /\ frame'[c] = h
      BY <1>1, <1>4, <2>3 DEF ReadCompletes, TypeOK
    <3>2. /\ Increasing(w)
          /\ \A n \in 1 .. MaxRequests :
               /\ Occurs(w, n) <=> Occurs(wire[c], n) /\ n # h
               /\ Occurs(w, n) /\ h # Answer => h < n
      BY <1>1, <2>3, WireTail DEF TypeOK
    <3>3. h \in Frames /\ Occurs(wire[c], h)
      BY <1>1, <2>3, TailFacts, OccursHead DEF TypeOK
    <3> HIDE DEF w, h
    <3>4. /\ \A n : Has(msg_queue, c, n)' <=> Has(msg_queue, c, n)
          /\ \A n : Occurs(wire[c], n)' <=> Occurs(w, n)
          /\ \A n : HasRead(c, n)' <=> n = h
          /\ \A n : ~HasRead(c, n)
          /\ InTurn(msg_queue, c)' /\ Increasing(wire[c])'
      BY <1>1, <3>1, <3>2 DEF Has, HasRead, Occurs, InTurn, Increasing
    <3>5. \A n \in 1 .. MaxRequests : Pending(c, n)' <=> Pending(c, n)
      BY <3>2, <3>3, <3>4 DEF Pending
    <3>6. \A n \in 1 .. MaxRequests : n # Answer
      BY DEF Answer
    <3> QED
      BY <1>1, <1>2, <3>2, <3>3, <3>4, <3>5, <3>6 DEF InLine
  <2> QED
    BY <2>1, <2>2, <2>3
<1>5. CASE PushMsg(d)
  <2> DEFINE msg == [conn |-> d, n |-> frame[d]]
             q == Append(msg_queue, msg)
  <2>1. /\ msg_queue \in Seq(Msgs) /\ msg \in Msgs
        /\ msg.conn = d /\ msg.n = frame[d] /\ msg.n \in 1 .. MaxRequests
        /\ msg_queue' = q /\ reader[d] = "got"
        /\ UNCHANGED <<frame, wire>>
    BY <1>1, <1>5, CtxAssumption DEF PushMsg, IsRequest, FirstMessage, Enqueued,
       TypeOK, Msgs, Frames, Answer
  <2>2. \A n : Has(q, c, n) <=> Has(msg_queue, c, n) \/ (d = c /\ frame[d] = n)
    BY <2>1, HasAppend
  <2>3. InTurn(q, c)
    BY <1>1, <2>1, InTurnAppend DEF InLine, HasRead
  <2> HIDE DEF q, msg
  <2>4. CASE d # c
    <3>1. reader'[c] = reader[c]
      BY <1>1, <1>5, <2>4 DEF PushMsg, ReadOn, TypeOK
    <3> QED
      BY <1>1, <1>2, <2>1, <2>2, <2>3, <2>4, <3>1, InLineKept DEF HasRead
  <2>5. CASE d = c
    <3>1. reader'[c] # "got"
      BY <1>1, <1>5, <2>5 DEF PushMsg, ReadOn, TypeOK
    <3>2. /\ \A n : Has(msg_queue, c, n)' <=> Has(q, c, n)
          /\ \A n : Occurs(wire[c], n)' <=> Occurs(wire[c], n)
          /\ \A n : HasRead(c, n) <=> frame[c] = n
          /\ \A n : ~HasRead(c, n)'
          /\ InTurn(msg_queue, c)' /\ Increasing(wire[c])'
      BY <1>1, <2>1, <2>3, <2>5, <3>1 DEF Has, HasRead, Occurs, InTurn, Increasing
    <3>3. \A n \in 1 .. MaxRequests : Pending(c, n)' <=> Pending(c, n)
      BY <2>2, <2>5, <3>2 DEF Pending
    <3> QED
      BY <1>1, <1>2, <2>1, <2>2, <2>5, <3>2, <3>3 DEF InLine
  <2> QED
    BY <2>4, <2>5
<1>6. CASE Accept(d) \/ ReaderEnds(d)
  BY <1>1, <1>3, <1>6 DEF Accept, ReaderEnds, HasRead, TypeOK
<1>7. CASE SetResponse
  <2>1. UNCHANGED <<msg_queue, wire, frame>> /\ frame[Proxy] = Answer
    BY <1>7 DEF SetResponse
  <2>2. c # Proxy => reader'[c] = reader[c]
    BY <1>1, <1>7 DEF SetResponse, ReadOn, TypeOK
  <2>3. c = Proxy => \A n \in 1 .. MaxRequests : ~HasRead(c, n) /\ ~HasRead(c, n)'
    BY <2>1 DEF HasRead, Answer
  <2> QED
    BY <1>3, <2>1, <2>2, <2>3 DEF HasRead
<1> QED
  BY <1>4, <1>5, <1>6, <1>7

\* The worker takes a message, drops one of a closed connection, or ends a
\* job.
LEMMA OrderWorker ==
  ASSUME OrderInv, TypeOK', Worker,
         NEW c \in Conns, sock[c], sock'[c]
  PROVE  InLine(c)'
<1>1. /\ InLine(c) /\ TypeOK /\ InTurn(msg_queue, c) /\ Increasing(wire[c])
      /\ JobTaken /\ JobOver /\ msg_queue \in Seq(Msgs)
  BY DEF OrderInv, InLine, TypeOK
<1>2. /\ UNCHANGED <<wire, asked, frame>>
      /\ \A n : HasRead(c, n)' <=> HasRead(c, n)
  <2>1. /\ UNCHANGED <<wire, asked, frame>>
        /\ \/ reader' = reader
           \/ \E d : /\ reader' = [reader EXCEPT ![d] = "failed"]
                    /\ reader[d] = "reading"
    BY DEF Worker, Sleep, Loop, SkipClosed, RefuseUnknown, CallService,
       AwaitService, FailJob, Reply, Close, MustWait
  <2> QED
    BY <1>1, <2>1 DEF HasRead, TypeOK
<1>3. CASE UNCHANGED <<msg_queue, job, out>>
  BY <1>1, <1>2, <1>3, InLineKept
<1>4. CASE Sleep \/ Loop \/ AwaitService
  BY <1>3, <1>4 DEF Sleep, Loop, AwaitService, MustWait
<1>5. CASE SkipClosed \/ RefuseUnknown
  <2>1. /\ msg_queue # <<>> /\ msg_queue' = Tail(msg_queue)
        /\ UNCHANGED <<job, out>> /\ Head(msg_queue).conn # c
    BY <1>1, <1>5 DEF SkipClosed, RefuseUnknown, Close, TypeOK
  <2>2. /\ InTurn(Tail(msg_queue), c)
        /\ \A n : Has(Tail(msg_queue), c, n) <=> Has(msg_queue, c, n)
    BY <1>1, <2>1, InTurnTail, HasTail
  <2> QED
    BY <1>1, <1>2, <2>1, <2>2, InLineKept
<1>6. CASE FailJob
  <2>1. UNCHANGED <<msg_queue, out>> /\ job' = NoJob /\ job.conn # c
    BY <1>1, <1>6 DEF FailJob, Close, TypeOK
  <2>2. Taken(c)' = Taken(c)
    BY <2>1 DEF Taken
  <2>3. /\ \A n : Has(msg_queue, c, n)' <=> Has(msg_queue, c, n)
        /\ \A n : Occurs(wire[c], n)' <=> Occurs(wire[c], n)
        /\ InTurn(msg_queue, c)' /\ Increasing(wire[c])'
    BY <1>1, <1>2, <2>1 DEF Has, Occurs, InTurn, Increasing
  <2> QED
    BY <1>1, <1>2, <2>1, <2>2, <2>3 DEF InLine, Pending
<1>7. CASE Reply
  <2>1. /\ msg_queue' = msg_queue /\ job' = NoJob /\ job \in Msgs /\ job # NoJob
        /\ sock[job.conn] => out' = [out EXCEPT ![job.conn] = Append(@, job.n)]
        /\ ~sock[job.conn] => out' = out
    BY <1>1, <1>7, JobKinds DEF Reply, Served, JobTaken, MustWait
  <2>2. Taken(c)' = Taken(c)
    <3>1. CASE job.conn = c
      <4>1. out'[c] = Append(out[c], job.n) /\ out[c] \in Seq(1 .. MaxRequests)
        BY <1>1, <2>1, <3>1 DEF TypeOK
      <4>2. Len(out'[c]) = Len(out[c]) + 1
        BY <2>1, <4>1, MsgFields, AppendFacts
      <4> QED
        BY <1>1, <2>1, <3>1, <4>2 DEF Taken, InLine
    <3>2. CASE job.conn # c
      BY <1>1, <2>1, <3>2 DEF Taken, TypeOK
    <3> QED
      BY <3>1, <3>2
  <2>3. /\ \A n : Has(msg_queue, c, n)' <=> Has(msg_queue, c, n)
        /\ \A n : Occurs(wire[c], n)' <=> Occurs(wire[c], n)
        /\ InTurn(msg_queue, c)' /\ Increasing(wire[c])'
    BY <1>1, <1>2, <2>1 DEF Has, Occurs, InTurn, Increasing
  <2> QED
    BY <1>1, <1>2, <2>1, <2>2, <2>3 DEF InLine, Pending
<1>8. ASSUME NEW atOnce \in BOOLEAN, CallService(atOnce)
      PROVE  InLine(c)'
  <2> DEFINE q == Tail(msg_queue)
             h == Head(msg_queue)
  <2>1. /\ msg_queue # <<>> /\ msg_queue' = q /\ job' = h /\ out' = out
        /\ job = NoJob
    BY <1>1, <1>8 DEF CallService, JobOver
  <2>2. /\ InTurn(q, c)
        /\ \A n : Has(q, c, n) <=> Has(msg_queue, c, n) /\ ~(h.conn = c /\ h.n = n)
    BY <1>1, <2>1, InTurnTail, HasTail
  <2>3. h \in Msgs /\ h # NoJob /\ h.n \in 1 .. MaxRequests
    BY <1>1, <2>1, TailFacts, JobKinds, MsgFields
  <2>4. h.conn = c => /\ Has(msg_queue, c, h.n)
                      /\ \A n \in Nat : Has(msg_queue, c, n) => h.n <= n
    BY <1>1, <2>1, HeadFirst
  <2> HIDE DEF q, h
  <2>5. /\ \A n : Has(msg_queue, c, n)' <=> Has(q, c, n)
        /\ \A n : Occurs(wire[c], n)' <=> Occurs(wire[c], n)
        /\ InTurn(msg_queue, c)' /\ Increasing(wire[c])'
    BY <1>1, <1>2, <2>1, <2>2 DEF Has, Occurs, InTurn, Increasing
  <2>6. CASE h.conn # c
    <3>1. Taken(c)' = Taken(c)
      BY <2>1, <2>6 DEF Taken
    <3> QED
      BY <1>1, <1>2, <2>1, <2>2, <2>5, <2>6, <3>1 DEF InLine, Pending
  <2>7. CASE h.conn = c
    <3>1. Taken(c) = Len(out[c]) /\ Taken(c)' = h.n /\ Len(out[c]) \in Nat
      BY <1>1, <2>1, <2>3, <2>7 DEF Taken, TypeOK
    <3>2. Pending(c, h.n) /\ Taken(c) < h.n /\ h.n <= asked[c]
      BY <1>1, <2>3, <2>4, <2>7 DEF InLine, Pending
    <3>3. \A n \in 1 .. MaxRequests : Pending(c, n) => h.n <= n
      BY <1>1, <2>3, <2>4, <2>7 DEF InLine, Pending
    <3>4. h.n = Taken(c) + 1
      <4>1. Taken(c) + 1 \in 1 .. MaxRequests /\ Taken(c) + 1 <= asked[c]
        BY <1>1, <2>3, <3>1, <3>2, CtxAssumption DEF TypeOK
      <4>2. Pending(c, Taken(c) + 1)
        BY <1>1, <3>1, <4>1 DEF InLine
      <4> QED
        BY <2>3, <3>1, <3>2, <3>3, <4>1, <4>2
    <3>5. \A n \in 1 .. MaxRequests : Pending(c, n)' <=> Pending(c, n) /\ n # h.n
      BY <1>1, <1>2, <2>2, <2>3, <2>4, <2>5, <2>7 DEF Pending, InLine
    <3>6. \A n \in 1 .. MaxRequests :
             (Taken(c)' < n /\ n <= asked'[c]) <=> Pending(c, n)'
      <4> SUFFICES ASSUME NEW n \in 1 .. MaxRequests
                   PROVE  (Taken(c)' < n /\ n <= asked'[c]) <=> Pending(c, n)'
        OBVIOUS
      <4>1. Pending(c, n) <=> Taken(c) < n /\ n <= asked[c]
        BY <1>1 DEF InLine
      <4>2. asked'[c] = asked[c] /\ asked[c] \in Nat
        BY <1>1, <1>2, CtxAssumption DEF TypeOK
      <4>3. Taken(c)' = Taken(c) + 1 /\ Taken(c) \in Nat
        BY <3>1, <3>4
      <4>4. Pending(c, n)' <=> Pending(c, n) /\ n # Taken(c) + 1
        BY <3>4, <3>5
      <4> QED
        BY <4>1, <4>2, <4>3, <4>4
    <3>7. Taken(c)' <= asked'[c]
      BY <1>2, <3>1, <3>2
    <3>8. job' # NoJob /\ job'.conn = c => job'.n = Len(out'[c]) + 1
      BY <2>1, <3>1, <3>4
    <3>9. \A m, n \in 1 .. MaxRequests :
            /\ Has(msg_queue, c, m)' /\ (HasRead(c, n)' \/ Occurs(wire[c], n)')
                 => m < n
            /\ HasRead(c, m)' /\ Occurs(wire[c], n)' => m < n
      BY <1>1, <1>2, <2>2, <2>5 DEF InLine
    <3> QED
      BY <2>5, <3>6, <3>7, <3>8, <3>9 DEF InLine
  <2> QED
    BY <2>6, <2>7
<1> QED
  BY <1>4, <1>5, <1>6, <1>7, <1>8 DEF Worker

\* What is appended to the answers of a connection is the number of the job.
LEMMA OrderOut ==
  ASSUME OrderInv, TypeOK', Next
  PROVE  (JobOver /\ AnswersInOrder)' /\ \A c \in Conns : sock'[c] => sock[c]
<1>1. TypeOK /\ JobTaken /\ JobOver /\ AnswersInOrder
  BY DEF OrderInv
<1>2. CASE Reply
  <2>1. /\ worker' = "writing" /\ job' = NoJob /\ sock' = sock
        /\ job \in Msgs /\ job # NoJob /\ job.conn \in Conns
    BY <1>1, <1>2, JobKinds, MsgFields DEF Reply, Served, JobTaken, MustWait
  <2>2. CASE sock[job.conn]
    <3> DEFINE d == job.conn
    <3>1. /\ out' = [out EXCEPT ![d] = Append(@, job.n)]
          /\ out[d] \in Seq(1 .. MaxRequests) /\ job.n \in 1 .. MaxRequests
          /\ job.n = Len(out[d]) + 1
      BY <1>1, <1>2, <2>1, <2>2, MsgFields DEF Reply, TypeOK, OrderInv, InLine
    <3>2. \A i \in DOMAIN Append(out[d], job.n) : Append(out[d], job.n)[i] = i
      BY <1>1, <2>1, <3>1, AppendFacts DEF AnswersInOrder
    <3>3. \A c \in Conns : out'[c] = IF c = d THEN Append(out[d], job.n) ELSE out[c]
      BY <1>1, <3>1 DEF TypeOK
    <3>4. AnswersInOrder'
      BY <1>1, <3>2, <3>3 DEF AnswersInOrder
    <3> QED
      BY <2>1, <3>4 DEF JobOver
  <2>3. CASE ~sock[job.conn]
    BY <1>1, <1>2, <2>1, <2>3 DEF Reply, JobOver, AnswersInOrder
  <2> QED
    BY <2>2, <2>3
<1>3. ASSUME NEW d, Close(d)
      PROVE  \A c \in Conns : sock'[c] => sock[c]
  BY <1>1, <1>3 DEF Close, TypeOK
<1>4. CASE Worker /\ ~Reply
  BY <1>1, <1>3, <1>4 DEF Worker, Sleep, Loop, SkipClosed, RefuseUnknown,
     AwaitService, FailJob, CallService, Served, MustWait, JobOver, AnswersInOrder
<1>5. CASE Service \/ SetResponse \/ ProxyAnswers
  BY <1>1, <1>5 DEF Service, SendFails, SendWrites, AwaitResponse, NotifyComplete,
     SetResponse, ProxyAnswers, JobOver, AnswersInOrder
<1>6. ASSUME NEW c \in Conns, Reader(c) \/ PeerSends(c) \/ PeerCloses(c)
      PROVE  UNCHANGED <<worker, job, out>> /\ \A d \in Conns : sock'[d] => sock[d]
  BY <1>1, <1>6 DEF Reader, Accept, ReadCompletes, PushMsg, ReaderEnds, PeerSends,
     PeerCloses, IsRequest, FirstMessage, Enqueued, TypeOK
<1> QED
  BY <1>1, <1>2, <1>4, <1>5, <1>6 DEF Next, JobOver, AnswersInOrder

LEMMA OrderStep ==
  ASSUME OrderInv, [Next]_vars
  PROVE  OrderInv'
<1>1. (TypeOK /\ JobTaken)'
  BY TypeStep DEF OrderInv
<1>2. CASE UNCHANGED vars
  BY <1>1, <1>2 DEF vars, OrderInv, JobOver, AnswersInOrder, InLine, Taken,
     Pending, Has, HasRead, Occurs, InTurn, Increasing
<1>3. CASE Next
  <2>1. (JobOver /\ AnswersInOrder)' /\ \A c \in Conns : sock'[c] => sock[c]
    BY <1>1, <1>3, OrderOut
  <2>2. ASSUME NEW c \in Conns, sock'[c]
        PROVE  InLine(c)'
    <3>1. sock[c] /\ InLine(c) /\ InTurn(msg_queue, c)
      BY <2>1, <2>2 DEF OrderInv, InLine
    <3>2. CASE Service
      BY <3>1, <3>2, InLineKept DEF Service, SendFails, SendWrites, AwaitResponse,
         NotifyComplete, HasRead
    <3>3. Proxy \in Conns
      BY DEF Conns
    <3> QED
      BY <1>1, <1>3, <2>2, <3>1, <3>2, <3>3, OrderPeers, OrderReaders, OrderWorker
         DEF Next
  <2> QED
    BY <1>1, <2>1, <2>2 DEF OrderInv
<1> QED
  BY <1>2, <1>3

LEMMA OrderInit ==
  ASSUME Init
  PROVE  OrderInv
<1>1. TypeOK /\ JobTaken
  BY TypeInit
<1>2. JobOver /\ AnswersInOrder
  BY DEF Init, JobOver, AnswersInOrder
<1>3. ASSUME NEW c \in Conns
      PROVE  InLine(c)
  <2>1. /\ msg_queue = <<>> /\ wire[c] = <<>> /\ out[c] = <<>> /\ asked[c] = 0
        /\ reader[c] # "got" /\ job = NoJob
    BY DEF Init
  <2>2. Taken(c) = 0
    BY <2>1 DEF Taken
  <2>3. \A n : ~Has(msg_queue, c, n) /\ ~HasRead(c, n) /\ ~Occurs(wire[c], n)
    BY <2>1 DEF Has, HasRead, Occurs
  <2>4. InTurn(msg_queue, c) /\ Increasing(wire[c])
    BY <2>1 DEF InTurn, Increasing
  <2> QED
    BY <2>1, <2>2, <2>3, <2>4 DEF InLine, Pending
<1> QED
  BY <1>1, <1>2, <1>3 DEF OrderInv

\* The answers of a connection come in the order of its requests and none is
\* left out, although requests of all connections share one queue, some are
\* skipped or refused, and services fail: clients match them by position
\* alone.
THEOREM AnswersCorrect == Spec => []AnswersInOrder
<1>1. Init => OrderInv
  BY OrderInit
<1>2. OrderInv /\ [Next]_vars => OrderInv'
  BY OrderStep
<1>3. OrderInv => AnswersInOrder
  BY DEF OrderInv
<1> QED
  BY <1>1, <1>2, <1>3, PTL DEF Spec

-----------------------------------------------------------------------------
(* The process implements FifoServer.                                      *)

LEMMA ServerInits == Init => Serving!ServerInit
  BY DEF Init, Serving!ServerInit

\* The worker's steps.
LEMMA WorkerServes ==
  ASSUME OrderInv, OrderInv', Worker
  PROVE  [Serving!ServerNext]_(Serving!serverVars)
<1>1. /\ TypeOK /\ JobTaken /\ JobOver /\ sock \in [Conns -> BOOLEAN]
      /\ msg_queue \in Seq(Msgs)
  BY DEF OrderInv, TypeOK
<1>2. CASE Sleep \/ Loop \/ SkipClosed \/ AwaitService
  BY <1>2 DEF Sleep, Loop, SkipClosed, AwaitService, Serving!serverVars
<1>3. CASE RefuseUnknown
  <2>1. \E c \in Clients : Serving!HangUp(c)
    BY <1>3 DEF RefuseUnknown, Close, Serving!HangUp
  <2> QED
    BY <2>1 DEF Serving!ServerNext
<1>4. ASSUME Served
      PROVE  job \in Msgs /\ job # NoJob /\ job.conn \in Conns
  BY <1>1, <1>4, JobKinds, MsgFields DEF Served, JobTaken
<1>5. CASE FailJob
  <2>1. Serving!Drop
    BY <1>4, <1>5 DEF FailJob, Close, Serving!Drop
  <2> QED
    BY <2>1 DEF Serving!ServerNext
<1>6. CASE Reply
  <2>1. /\ job # NoJob /\ job.conn \in Conns /\ job' = NoJob
        /\ UNCHANGED <<asked, sock>>
    BY <1>4, <1>6 DEF Reply
  <2>2. CASE sock[job.conn]
    <3>1. Serving!Respond
      BY <1>6, <2>1, <2>2 DEF Reply, Serving!Respond
    <3> QED
      BY <3>1 DEF Serving!ServerNext
  <2>3. CASE ~sock[job.conn]
    <3>1. [sock EXCEPT ![job.conn] = FALSE] = sock
      BY <1>1, <2>1, <2>3
    <3>2. Serving!Drop
      BY <1>6, <2>1, <2>3, <3>1 DEF Reply, Serving!Drop
    <3> QED
      BY <3>2 DEF Serving!ServerNext
  <2> QED
    BY <2>2, <2>3
<1>7. ASSUME NEW atOnce \in BOOLEAN, CallService(atOnce)
      PROVE  [Serving!ServerNext]_(Serving!serverVars)
  <2> SUFFICES ASSUME NEW h, h = Head(msg_queue), NEW c, c = h.conn
               PROVE  Serving!ServerNext
    OBVIOUS
  <2>1. /\ job = NoJob /\ job' = h /\ sock[c] /\ msg_queue # <<>>
        /\ UNCHANGED <<asked, out, sock>>
    BY <1>1, <1>7 DEF CallService, JobOver
  <2>2. h \in Msgs
    BY <1>1, <2>1, TailFacts
  <2>3. h # NoJob /\ c \in Conns /\ h = [conn |-> c, n |-> h.n] /\ h.n \in Nat
    BY <2>2, JobKinds, MsgFields DEF Msgs
  <2>4. h.n = Len(out[c]) + 1 /\ h.n <= asked[c]
    <3>1. InLine(c)'
      BY <2>1, <2>3 DEF OrderInv
    <3>2. job'.n = Len(out'[c]) + 1 /\ Taken(c)' <= asked'[c]
      BY <2>1, <2>3, <3>1 DEF InLine
    <3>3. Taken(c)' = h.n
      BY <2>1, <2>3 DEF Taken
    <3> QED
      BY <2>1, <3>2, <3>3
  <2>5. Len(out[c]) \in Nat /\ asked[c] \in Nat
    BY <1>1, <2>3, CtxAssumption DEF TypeOK
  <2>6. Serving!Serve(c)
    BY <2>1, <2>3, <2>4, <2>5 DEF Serving!Serve
  <2> QED
    BY <2>3, <2>6 DEF Serving!ServerNext
<1> QED
  BY <1>2, <1>3, <1>5, <1>6, <1>7 DEF Worker

LEMMA ServerStep ==
  ASSUME OrderInv, OrderInv', [Next]_vars
  PROVE  [Serving!ServerNext]_(Serving!serverVars)
<1>1. CASE UNCHANGED vars
  BY <1>1 DEF vars, Serving!serverVars
<1>2. CASE Worker
  BY <1>2, WorkerServes
<1>3. CASE Service \/ SetResponse \/ ProxyAnswers
  BY <1>3 DEF Service, SendFails, SendWrites, AwaitResponse, NotifyComplete,
     SetResponse, ProxyAnswers, Serving!serverVars
<1>4. ASSUME NEW c \in Conns, PeerSends(c)
      PROVE  Serving!ServerNext
  <2>1. Serving!Ask(c)
    BY <1>4 DEF PeerSends, Serving!Ask
  <2> QED
    BY <2>1 DEF Serving!ServerNext
<1>5. ASSUME NEW c \in Conns, ReaderEnds(c)
      PROVE  [Serving!ServerNext]_(Serving!serverVars)
  <2>1. CASE c \in Clients
    <3>1. Serving!HangUp(c)
      BY <1>5, <2>1 DEF ReaderEnds, Serving!HangUp
    <3> QED
      BY <2>1, <3>1 DEF Serving!ServerNext
  <2>2. CASE c \notin Clients
    BY <1>5, <2>2 DEF ReaderEnds, Serving!serverVars
  <2> QED
    BY <2>1, <2>2
<1>6. ASSUME NEW c \in Conns,
             Accept(c) \/ ReadCompletes(c) \/ PushMsg(c) \/ PeerCloses(c)
      PROVE  UNCHANGED Serving!serverVars
  BY <1>6 DEF Accept, ReadCompletes, PushMsg, PeerCloses, Serving!serverVars
<1> QED
  BY <1>1, <1>2, <1>3, <1>4, <1>5, <1>6 DEF Next, Reader

\* A process is a server of its connections: it serves the requests of each in
\* their order, one at a time, and answers each or closes the connection, while
\* its coroutines share one queue and one worker, services fail, and
\* connections end at any point.
THEOREM ActorServesInTurn == Spec => ImplementsServer
<1>1. Init => OrderInv /\ Serving!ServerInit
  BY OrderInit, ServerInits
<1>2. OrderInv /\ [Next]_vars => OrderInv'
  BY OrderStep
<1>3. OrderInv /\ OrderInv' /\ [Next]_vars
        => [Serving!ServerNext]_(Serving!serverVars)
  BY ServerStep
<1> QED
  BY <1>1, <1>2, <1>3, PTL DEF Spec, ImplementsServer, Serving!ServerSpec

=============================================================================
