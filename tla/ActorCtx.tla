----------------------------- MODULE ActorCtx -----------------------------
(***************************************************************************)
(* The inside of one actor process: coro_actor_ctx with its queue and its  *)
(* three timers, the worker coroutine, the coroutine of the service it     *)
(* runs, and the coroutine that reads each connection (a session per       *)
(* remote client, handle_actor_internal for the proxy).                    *)
(*                                                                         *)
(* They share one thread: runq is the queue of completions of the          *)
(* io_context, and only the coroutine at its head takes a step.  A step of *)
(* the worker that goes on without suspending is cut into several actions, *)
(* during which the worker stays at the head.  The timers never expire     *)
(* (time_point::max), so cancel_one resumes a coroutine that waits on one, *)
(* and does nothing when none does.                                        *)
(***************************************************************************)
EXTENDS Naturals, Sequences

CONSTANTS
  Clients,      \* the connections of remote clients
  Proxy,        \* the connection to the proxy
  MayClose,     \* the connections whose other end may close
  MaxRequests   \* bound: requests that come in on one connection

Conns == Clients \cup {Proxy}

ASSUME CtxAssumption ==
  /\ Proxy \notin Clients
  /\ MayClose \subseteq Conns
  /\ MaxRequests \in Nat
  /\ {"worker", "service"} \cap Conns = {}

\* A frame is the number of a request on its connection, or Answer, the
\* response to a request that a service of this process has sent.
Answer == 0
Frames == 0 .. MaxRequests
Msgs   == [conn : Conns, n : 1 .. MaxRequests]
NoJob  == [conn |-> Proxy, n |-> 0]
Tasks  == {"worker", "service"} \cup Conns

VARIABLES
  msg_queue,   \* the messages that wait for the worker
  is_waiting,  \* the service has not called notify_complete yet
  error,       \* error_msg_ is not empty
  worker,      \* where the worker coroutine is
  job,         \* the message it serves
  service,     \* where the coroutine of the service is
  reader,      \* where the coroutine that reads each connection is
  frame,       \* the frame it has read
  sock,        \* is_open() of this process's socket
  peer,        \* is the other end open
  asked,       \* how many requests the other end has sent
  wire,        \* the frames in flight to this process
  out,         \* the requests answered on each connection, in order
  runq         \* the coroutines the io_context has to resume, in order

vars == <<msg_queue, is_waiting, error, worker, job, service, reader, frame,
          sock, peer, asked, wire, out, runq>>

TypeOK ==
  /\ msg_queue \in Seq(Msgs)
  /\ is_waiting \in BOOLEAN
  /\ error \in BOOLEAN
  /\ worker \in {"loop", "idle", "called", "serving", "writing"}
  /\ job \in Msgs \cup {NoJob}
  /\ service \in {"none", "running", "sending", "failing", "awaiting"}
  /\ reader \in [Conns -> {"backlog", "reading", "got", "failed", "done"}]
  /\ frame \in [Conns -> Frames]
  /\ sock \in [Conns -> BOOLEAN]
  /\ peer \in [Conns -> BOOLEAN]
  /\ asked \in [Conns -> 0 .. MaxRequests]
  /\ wire \in [Conns -> Seq(Frames)]
  /\ out \in [Conns -> Seq(1 .. MaxRequests)]
  /\ runq \in Seq(Tasks)

\* The constructor spawns the worker; the clients are not accepted yet.
Init ==
  /\ msg_queue = <<>>
  /\ is_waiting = FALSE
  /\ error = FALSE
  /\ worker = "loop"
  /\ job = NoJob
  /\ service = "none"
  /\ reader = [c \in Conns |-> IF c = Proxy THEN "reading" ELSE "backlog"]
  /\ frame = [c \in Conns |-> Answer]
  /\ sock = [c \in Conns |-> TRUE]
  /\ peer = [c \in Conns |-> TRUE]
  /\ asked = [c \in Conns |-> 0]
  /\ wire = [c \in Conns |-> <<>>]
  /\ out = [c \in Conns |-> <<>>]
  /\ runq = <<"worker">>

Running(t) == runq # <<>> /\ Head(runq) = t

-----------------------------------------------------------------------------
(* The other ends.                                                         *)

\* A client sends a request, or the proxy forwards one.
PeerSends(c) ==
  /\ peer[c]
  /\ asked[c] < MaxRequests
  /\ asked' = [asked EXCEPT ![c] = @ + 1]
  /\ wire' = [wire EXCEPT ![c] = Append(@, asked[c] + 1)]
  /\ UNCHANGED <<msg_queue, is_waiting, error, worker, job, service, reader,
                 frame, sock, peer, out, runq>>

\* The proxy brings the answer that a send() of this process asks for: the
\* bytes of the request left when send() started to write.  It may never do
\* so: it drops requests, and those of a provider that is gone.
ProxyAnswers ==
  /\ peer[Proxy]
  /\ service \in {"sending", "awaiting"}
  /\ frame[Proxy] # Answer \/ reader[Proxy] # "got"
  /\ \A i \in DOMAIN wire[Proxy] : wire[Proxy][i] # Answer
  /\ wire' = [wire EXCEPT ![Proxy] = Append(@, Answer)]
  /\ UNCHANGED <<msg_queue, is_waiting, error, worker, job, service, reader,
                 frame, sock, peer, asked, out, runq>>

PeerCloses(c) ==
  /\ c \in MayClose
  /\ peer[c]
  /\ peer' = [peer EXCEPT ![c] = FALSE]
  /\ UNCHANGED <<msg_queue, is_waiting, error, worker, job, service, reader,
                 frame, sock, asked, wire, out, runq>>

-----------------------------------------------------------------------------
(* The coroutines that read the connections.                               *)

\* handle_actor_remote accepts a connection and starts its session.
Accept(c) ==
  /\ reader[c] = "backlog"
  /\ reader' = [reader EXCEPT ![c] = "reading"]
  /\ UNCHANGED <<msg_queue, is_waiting, error, worker, job, service, frame,
                 sock, peer, asked, wire, out, runq>>

\* The last async_read of a frame completes, or one of them with an error.
ReadCompletes(c) ==
  /\ reader[c] = "reading"
  /\ runq' = Append(runq, c)
  /\ IF wire[c] # <<>>
     THEN /\ reader' = [reader EXCEPT ![c] = "got"]
          /\ frame' = [frame EXCEPT ![c] = Head(wire[c])]
          /\ wire' = [wire EXCEPT ![c] = Tail(@)]
     ELSE /\ ~peer[c]
          /\ reader' = [reader EXCEPT ![c] = "failed"]
          /\ UNCHANGED <<frame, wire>>
  /\ UNCHANGED <<msg_queue, is_waiting, error, worker, job, service, sock,
                 peer, asked, out>>

\* The loop of the reader goes on while the socket is open.
ReadOn(c) ==
  reader' = [reader EXCEPT ![c] = IF sock[c] THEN "reading" ELSE "done"]

\* (Mistake: takes a response for a request.)
AnyFrame(c) == TRUE
IsRequest(c) == frame[c] # Answer

\* (Mistake: the size of the queue before the push.)
SecondMessage == Len(msg_queue) = 1
\* After the push the queue holds the new message only.
FirstMessage == msg_queue = <<>>

\* (Mistake: a stack.)
Stacked(msg) == <<msg>> \o msg_queue
Enqueued(msg) == Append(msg_queue, msg)

\* A request: push_msg, which notifies the worker of the first message only.
PushMsg(c) ==
  /\ Running(c)
  /\ reader[c] = "got"
  /\ IsRequest(c)
  /\ msg_queue' = Enqueued([conn |-> c, n |-> frame[c]])
  /\ runq' = IF FirstMessage /\ worker = "idle"
             THEN Append(Tail(runq), "worker") ELSE Tail(runq)
  /\ ReadOn(c)
  /\ UNCHANGED <<is_waiting, error, worker, job, service, frame, sock, peer,
                 asked, wire, out>>

\* set_response_pack resumes the send() that waits, if one does.
SetResponse ==
  /\ Running(Proxy)
  /\ reader[Proxy] = "got"
  /\ frame[Proxy] = Answer
  /\ IF service = "awaiting"
     THEN service' = "running" /\ runq' = Append(Tail(runq), "service")
     ELSE UNCHANGED service /\ runq' = Tail(runq)
  /\ ReadOn(Proxy)
  /\ UNCHANGED <<msg_queue, is_waiting, error, worker, job, frame, sock, peer,
                 asked, wire, out>>

\* After an error a session closes its socket, handle_actor_internal leaves
\* the one to the proxy as it is.
ReaderEnds(c) ==
  /\ Running(c)
  /\ reader[c] = "failed"
  /\ reader' = [reader EXCEPT ![c] = "done"]
  /\ sock' = IF c \in Clients THEN [sock EXCEPT ![c] = FALSE] ELSE sock
  /\ runq' = Tail(runq)
  /\ UNCHANGED <<msg_queue, is_waiting, error, worker, job, service, frame,
                 peer, asked, wire, out>>

-----------------------------------------------------------------------------
(* The worker: handle_message.                                             *)

Sleep ==
  /\ Running("worker")
  /\ worker = "loop"
  /\ msg_queue = <<>>
  /\ worker' = "idle"
  /\ runq' = Tail(runq)
  /\ UNCHANGED <<msg_queue, is_waiting, error, job, service, reader, frame,
                 sock, peer, asked, wire, out>>

\* Its wait for a message, or its write of a response, is over.
Loop ==
  /\ Running("worker")
  /\ worker \in {"idle", "writing"}
  /\ worker' = "loop"
  /\ UNCHANGED <<msg_queue, is_waiting, error, job, service, reader, frame,
                 sock, peer, asked, wire, out, runq>>

SkipClosed ==
  /\ Running("worker")
  /\ worker = "loop"
  /\ msg_queue # <<>>
  /\ ~sock[Head(msg_queue).conn]
  /\ msg_queue' = Tail(msg_queue)
  /\ UNCHANGED <<is_waiting, error, worker, job, service, reader, frame, sock,
                 peer, asked, wire, out, runq>>

\* (Mistake: leaves the connection open.)
CloseNot(c) == UNCHANGED <<sock, reader, runq>>

\* close() on this process's end of c: the read that is under way fails.
Close(c) ==
  /\ sock' = [sock EXCEPT ![c] = FALSE]
  /\ IF reader[c] = "reading"
     THEN /\ reader' = [reader EXCEPT ![c] = "failed"]
          /\ runq' = Append(runq, c)
     ELSE UNCHANGED <<reader, runq>>

\* A client asks for a service that this process has not loaded; the proxy
\* asks for none of those.
RefuseUnknown ==
  /\ Running("worker")
  /\ worker = "loop"
  /\ msg_queue # <<>>
  /\ sock[Head(msg_queue).conn]
  /\ Head(msg_queue).conn \in Clients
  /\ msg_queue' = Tail(msg_queue)
  /\ Close(Head(msg_queue).conn)
  /\ UNCHANGED <<is_waiting, error, worker, job, service, frame, peer, asked,
                 wire, out>>

\* The service function spawns its coroutine, which starts at once or from
\* the queue.
CallService(atOnce) ==
  /\ Running("worker")
  /\ worker = "loop"
  /\ msg_queue # <<>>
  /\ sock[Head(msg_queue).conn]
  /\ msg_queue' = Tail(msg_queue)
  /\ job' = Head(msg_queue)
  /\ is_waiting' = TRUE
  /\ service' = "running"
  /\ worker' = "called"
  /\ runq' = IF atOnce THEN <<"service">> \o runq ELSE Append(runq, "service")
  /\ UNCHANGED <<error, reader, frame, sock, peer, asked, wire, out>>

\* (Mistake: is_waiting is not looked at.)
AlwaysWaits == TRUE
MustWait == is_waiting

\* The function returns and notify_complete has not been called yet.
AwaitService ==
  /\ Running("worker")
  /\ worker = "called"
  /\ MustWait
  /\ worker' = "serving"
  /\ runq' = Tail(runq)
  /\ UNCHANGED <<msg_queue, is_waiting, error, job, service, reader, frame,
                 sock, peer, asked, wire, out>>

\* (Mistake: goes on without notify_complete.)
ServedEarly == Running("worker") /\ worker \in {"called", "serving"}

Served ==
  /\ Running("worker")
  /\ worker = "serving" \/ (worker = "called" /\ ~MustWait)

FailJob ==
  /\ Served
  /\ error
  /\ error' = FALSE
  /\ Close(job.conn)
  /\ worker' = "loop"
  /\ job' = NoJob
  /\ UNCHANGED <<msg_queue, is_waiting, service, frame, peer, asked, wire, out>>

\* The response is written, on a socket that may be closed by now.
Reply ==
  /\ Served
  /\ ~error
  /\ out' = IF sock[job.conn] THEN [out EXCEPT ![job.conn] = Append(@, job.n)]
            ELSE out
  /\ worker' = "writing"
  /\ job' = NoJob
  /\ runq' = Append(Tail(runq), "worker")
  /\ UNCHANGED <<msg_queue, is_waiting, error, service, reader, frame, sock,
                 peer, asked, wire>>

-----------------------------------------------------------------------------
(* The service, which may call send() before it calls notify_complete.     *)

\* send() fails: the service is one of this process's own, or its write has
\* failed.
SendFails ==
  /\ Running("service")
  /\ service \in {"running", "failing"}
  /\ service' = "running"
  /\ error' = TRUE
  /\ UNCHANGED <<msg_queue, is_waiting, worker, job, reader, frame, sock, peer,
                 asked, wire, out, runq>>

\* send() writes its request, on a connection that may be gone.
SendWrites ==
  /\ Running("service")
  /\ service = "running"
  /\ service' = IF sock[Proxy] /\ peer[Proxy] THEN "sending" ELSE "failing"
  /\ runq' = Append(Tail(runq), "service")
  /\ UNCHANGED <<msg_queue, is_waiting, error, worker, job, reader, frame,
                 sock, peer, asked, wire, out>>

\* (Mistake: another suspension between the write and the wait.)
AwaitAfterYield ==
  /\ Running("service")
  /\ service = "sending"
  /\ \/ service' = "awaiting" /\ runq' = Tail(runq)
     \/ service' = "sending" /\ runq' = Append(Tail(runq), "service")
  /\ UNCHANGED <<msg_queue, is_waiting, error, worker, job, reader, frame,
                 sock, peer, asked, wire, out>>

AwaitResponse ==
  /\ Running("service")
  /\ service = "sending"
  /\ service' = "awaiting"
  /\ runq' = Tail(runq)
  /\ UNCHANGED <<msg_queue, is_waiting, error, worker, job, reader, frame,
                 sock, peer, asked, wire, out>>

NotifyComplete ==
  /\ Running("service")
  /\ service = "running"
  /\ is_waiting' = FALSE
  /\ service' = "none"
  /\ runq' = IF worker = "serving" THEN Append(Tail(runq), "worker")
             ELSE Tail(runq)
  /\ UNCHANGED <<msg_queue, error, worker, job, reader, frame, sock, peer,
                 asked, wire, out>>

-----------------------------------------------------------------------------

Worker  == \/ Sleep \/ Loop \/ SkipClosed \/ RefuseUnknown \/ AwaitService
           \/ FailJob \/ Reply
           \/ \E atOnce \in BOOLEAN : CallService(atOnce)
Service == SendFails \/ SendWrites \/ AwaitResponse \/ NotifyComplete
Reader(c) == Accept(c) \/ ReadCompletes(c) \/ PushMsg(c) \/ ReaderEnds(c)

Next ==
  \/ Worker
  \/ Service
  \/ SetResponse
  \/ ProxyAnswers
  \/ \E c \in Conns : Reader(c) \/ PeerSends(c) \/ PeerCloses(c)

Spec == Init /\ [][Next]_vars

\* The io_context runs what is queued and completes the reads that can be
\* completed; a service calls notify_complete in the end, as the README asks
\* of it.  The proxy need not answer.
Fairness ==
  /\ WF_vars(Worker)
  /\ WF_vars(AwaitResponse)
  /\ WF_vars(SendFails /\ service = "failing")
  /\ WF_vars(SetResponse)
  /\ SF_vars(NotifyComplete)
  /\ \A c \in Conns : WF_vars(Reader(c))

FairSpec == Spec /\ Fairness

-----------------------------------------------------------------------------
(* Properties.                                                             *)

Occurs(s, t) == \E i \in DOMAIN s : s[i] = t
Queued(t) == Occurs(runq, t)

\* The worker never sleeps over a message: it is notified of a first message
\* only (coro_actor_ctx.cpp 97-101), and a notification that finds it busy
\* is lost.
NoLostWakeup == (worker = "idle" /\ msg_queue # <<>>) => Queued("worker")

\* Nor does it wait for a notify_complete that has already come.
NoLostCompletion ==
  (worker = "serving" /\ ~is_waiting) => Queued("worker")

\* A process executes its services one after another (README 11): the
\* coroutine of a service exists only while the worker is in its job.
OneServiceAtATime ==
  service # "none" => is_waiting /\ worker \in {"called", "serving"}

\* The answer to a send() never comes while send() does not wait for it yet,
\* between its write and its async_wait (coro_actor_ctx.cpp 78-87).
NoLostResponse ==
  (Running(Proxy) /\ reader[Proxy] = "got" /\ frame[Proxy] = Answer)
    => service = "awaiting"

\* The answers of a connection come in the order of its requests, none left
\* out: clients match them by position alone.
AnswersInOrder ==
  \A c \in Conns : \A i \in DOMAIN out[c] : out[c][i] = i

\* A send() waits, and no answer is on its way.
Unanswered ==
  /\ service = "awaiting"
  /\ ~(reader[Proxy] = "got" /\ frame[Proxy] = Answer)
  /\ \A i \in DOMAIN wire[Proxy] : wire[Proxy][i] # Answer

\* Every request is answered, unless its connection is closed, or a send()
\* is never answered: the proxy drops requests (coro_actor.cpp 633-660), and
\* those of a provider that is gone (699-704), and when it dies itself nobody
\* resumes send() (861).  Given an answer, nothing in the process loses it,
\* and nothing else stops the worker.
RequestsAnswered ==
  \A c \in Conns : \A n \in 1 .. MaxRequests :
    asked[c] >= n ~> (\/ \E i \in DOMAIN out[c] : out[c][i] = n
                      \/ ~sock[c] \/ ~peer[c]
                      \/ []Unanswered)

\* The process is a server of its connections (FifoServer), whatever
\* handle_message, the sessions and handle_actor_internal do in between:
\* requests of all connections share one queue and one worker, are skipped or
\* refused there, and connections fail at any point.
Serving == INSTANCE FifoServer WITH open <- sock

ImplementsServer == Serving!ServerSpec

=============================================================================
