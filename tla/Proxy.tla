------------------------------- MODULE Proxy -------------------------------
(***************************************************************************)
(* The proxy process of coro_actor: it owns one Unix-domain connection per *)
(* actor process and forwards requests and responses between them.         *)
(*                                                                         *)
(* All coroutines of the proxy run on one thread.  An action is what one   *)
(* coroutine does from one resumption to its next suspension, so several   *)
(* pieces of code that call one another without suspending (for instance   *)
(* handle_proxy_handle_request when it writes nothing) are one action.     *)
(* What is left suspended is a frame of the coroutine, in coro.            *)
(*                                                                         *)
(* The io_context is a FIFO queue of completions, runq: a step runs the    *)
(* coroutine at its head.  A write completes at once (the buffers of the   *)
(* sockets are taken to be large enough), so it posts its completion in    *)
(* the step that starts it; a pack is handled some time after its arrival, *)
(* behind every completion that was posted before it arrived.              *)
(***************************************************************************)
EXTENDS Naturals, Sequences, FiniteSets

CONSTANTS
  Actors,      \* the actor processes; the model's pids
  Nodes,       \* actor names (groups of processes that load one library)
  NodeOf,      \* the group of each actor process
  Services,    \* the service names that requests may carry
  ServiceMap,  \* service_map: supported service -> the node that provides it
  MaxSends,    \* bound: how many requests one actor process may issue
  SeqSize,     \* the number of values of seq_, after which it wraps
  NoCall,      \* the empty call id
  NoActor,     \* no actor, in a frame that concerns none
  NoRequest    \* no request, in a frame that holds none

\* A call id is the text "pid-seq"; a request is identified by its sender
\* and its number, which stands for the payload it carries.
CallIds == Actors \X (0 .. SeqSize - 1)
Reqs    == Actors \X (1 .. MaxSends)

ASSUME ConstantsAssumption ==
  /\ MaxSends \in Nat
  /\ SeqSize \in Nat \ {0}
  /\ NodeOf \in [Actors -> Nodes]
  /\ DOMAIN ServiceMap \subseteq Services
  /\ \A s \in DOMAIN ServiceMap : ServiceMap[s] \in Nodes
  /\ NoCall \notin CallIds
  /\ NoActor \notin Actors

\* The packs exchanged on the Unix-domain sockets.
Request  == [type : {"REQUEST"}, pid : Actors, call : CallIds,
             svc : Services, req : Reqs]
Response == [type : {"RESPONSE"}, call : CallIds, req : Reqs]
Connect  == [type |-> "CONNECT"]
Connack  == [type |-> "CONNACK"]

ASSUME NoRequest \notin Request

VARIABLES
  actor_info,       \* what the proxy knows of each actor (actor_pid_map)
  actor_info_map,   \* node -> its connected actors, in order of connection
  call_chain,       \* actor_call_chain_map; <<>> for a call id not in it
  coro,             \* the frame of the coroutine that serves each connection
  runq,             \* the coroutines the io_context has to resume, in order
  link,             \* the connection: "none", "open" or "cut" by its actor
  up,               \* bytes in flight, actor to proxy
  down              \* bytes in flight, proxy to actor

proxyVars ==
  <<actor_info, actor_info_map, call_chain, coro, runq, link, up, down>>

Info  == [call_id : CallIds \cup {NoCall}, is_waiting : BOOLEAN,
          msg_queue : Seq(Request)]
Frame == [at   : {"accept", "read", "connack", "request", "reply", "self",
                  "back", "closed"},
          call : CallIds \cup {NoCall},
          who  : Actors \cup {NoActor},
          pack : Request \cup {NoRequest},
          ok   : BOOLEAN]

Idle(at) == [at |-> at, call |-> NoCall, who |-> NoActor,
             pack |-> NoRequest, ok |-> TRUE]

ProxyTypeOK ==
  /\ actor_info \in [Actors -> Info]
  /\ actor_info_map \in [Nodes -> Seq(Actors)]
  /\ call_chain \in [CallIds -> Seq(Actors)]
  /\ coro \in [Actors -> Frame]
  /\ runq \in Seq(Actors)
  /\ link \in [Actors -> {"none", "open", "cut"}]
  /\ up \in [Actors -> Seq({Connect} \cup Request \cup Response)]
  /\ down \in [Actors -> Seq({Connack} \cup Request \cup Response)]

ProxyInit ==
  /\ actor_info = [a \in Actors |-> [call_id |-> NoCall, is_waiting |-> FALSE,
                                     msg_queue |-> <<>>]]
  /\ actor_info_map = [n \in Nodes |-> <<>>]
  /\ call_chain = [c \in CallIds |-> <<>>]
  /\ coro = [a \in Actors |-> Idle("accept")]
  /\ runq = <<>>
  /\ link = [a \in Actors |-> "none"]
  /\ up = [a \in Actors |-> <<>>]
  /\ down = [a \in Actors |-> <<>>]

-----------------------------------------------------------------------------
(* The calls that run inside one step work on a pair of the two maps.      *)

Maps == [info |-> actor_info, chain |-> call_chain]

UpdateActorInfo(m, a, c, w) ==
  [m EXCEPT !.info[a].call_id = c, !.info[a].is_waiting = w]

\* (Mistake: the other end.)
Front(chain) == Head(chain)
Back(chain) == chain[Len(chain)]

\* (Mistake: nobody leaves the chain.)
Kept(chain) == chain
Popped(chain) == SubSeq(chain, 1, Len(chain) - 1)

\* (Mistake: nobody starts it.)
Unstarted(chain, pid) == chain
\* The chain of a call that pid asks something in: pid starts a new one.
Started(chain, pid) == IF chain = <<>> THEN <<pid>> ELSE chain

\* (Mistake: connected or not.)
ForkedPeers(svc) ==
  LET forked == {a \in Actors : NodeOf[a] = ServiceMap[svc]}
  IN  CHOOSE q \in [1 .. Cardinality(forked) -> forked] :
        \A a \in forked : \E i \in DOMAIN q : q[i] = a
\* The processes that provide a service, once they have connected.
Peers(svc) == actor_info_map[ServiceMap[svc]]

\* The first actor of the list with the shortest queue.
LeastLoaded(m, peers) ==
  LET load(i) == Len(m.info[peers[i]].msg_queue)
      best == CHOOSE i \in DOMAIN peers :
                \A j \in DOMAIN peers :
                  load(i) < load(j) \/ (load(i) = load(j) /\ i <= j)
  IN  peers[best]

\* The three ways handle_proxy_handle_request drops the pack it has popped:
\* no node provides the service, no process of the node ever connected, or
\* a process of the node is already working for this call (a cycle).
Dropped(m, pack) ==
  \/ pack.svc \notin DOMAIN ServiceMap
  \/ Peers(pack.svc) = <<>>
  \/ \E i \in DOMAIN Peers(pack.svc) :
       m.info[Peers(pack.svc)[i]].call_id = pack.call

Returned(m)     == [maps |-> m, writes |-> FALSE, to |-> NoActor,
                    pack |-> NoRequest]
Writes(m, a, p) == [maps |-> m, writes |-> TRUE, to |-> a, pack |-> p]

\* (Mistake: the caller.)
CallerJoins(pack, to) == pack.pid
\* Who joins the chain of the call when the pack goes to this process.
Joins(pack, to) == to

\* The pack joins the chain of its call, the caller waits, and the target
\* either gets it at once or, when it waits itself, finds it in its queue.
Forward(m, pack) ==
  LET to     == LeastLoaded(m, Peers(pack.svc))
      caller == UpdateActorInfo(m, pack.pid, pack.call, TRUE)
      joined == [caller EXCEPT !.chain[pack.call] =
                                  Append(@, Joins(pack, to))]
  IN  IF joined.info[to].is_waiting
      THEN Returned([joined EXCEPT !.info[to].msg_queue = Append(@, pack)])
      ELSE Writes(UpdateActorInfo(joined, to, pack.call, FALSE), to, pack)

\* (Mistake: the pack stays in the queue.)
Unpopped(queue) == queue
Rest(queue) == Tail(queue)

\* handle_proxy_handle_request(af), up to its return or its async_write.
HandleRequest(m, a) ==
  LET queue  == m.info[a].msg_queue
      popped == [m EXCEPT !.info[a].msg_queue = Rest(@)]
  IN  IF queue = <<>> \/ m.info[a].is_waiting THEN Returned(m)
      ELSE IF Dropped(popped, Head(queue)) THEN Returned(popped)
      ELSE Forward(popped, Head(queue))

\* The write of HandleRequest has completed with this result.
RequestWritten(m, frame) ==
  IF frame.ok THEN m
  ELSE UpdateActorInfo(UpdateActorInfo(m, frame.pack.pid, NoCall, FALSE),
                       frame.who, NoCall, FALSE)

-----------------------------------------------------------------------------
(* The steps of the coroutines.                                            *)

\* handle_proxy_accept accepts a pending connection.
Accept(a) ==
  /\ coro[a].at = "accept"
  /\ link[a] # "none"
  /\ coro' = [coro EXCEPT ![a] = Idle("read")]
  /\ UNCHANGED <<actor_info, actor_info_map, call_chain, runq, link, up, down>>

\* A whole pack, or the end of the stream, has come in on connection a.
Arrive(a) ==
  /\ coro[a].at = "read"
  /\ up[a] # <<>> \/ link[a] = "cut"
  /\ \A i \in DOMAIN runq : runq[i] # a
  /\ runq' = Append(runq, a)
  /\ UNCHANGED <<actor_info, actor_info_map, call_chain, coro, link, up, down>>

\* The io_context resumes coroutine a, which was suspended at this point.
Resumes(a, at) ==
  /\ runq # <<>>
  /\ Head(runq) = a
  /\ coro[a].at = at

\* Coroutine a has read the next pack of its connection.
Reads(a, type) ==
  /\ Resumes(a, "read")
  /\ up[a] # <<>>
  /\ Head(up[a]).type = type
  /\ up' = [up EXCEPT ![a] = Tail(@)]

\* An async_write: the bytes go out at once, or the peer is gone.
Transmit(a, pack) ==
  down' = IF link[a] = "open" THEN [down EXCEPT ![a] = Append(@, pack)]
          ELSE down

\* Coroutine a ends its step in a write, whose completion it awaits ...
AwaitWrite(a, frame) ==
  /\ coro' = [coro EXCEPT ![a] = frame]
  /\ runq' = Append(Tail(runq), a)

\* ... or waiting for the next pack.
AwaitPack(a) ==
  /\ coro' = [coro EXCEPT ![a] = Idle("read")]
  /\ runq' = Tail(runq)

\* Coroutine a ends its step with the result r of HandleRequest.
Suspend(a, r, at, call) ==
  /\ actor_info' = r.maps.info
  /\ call_chain' = r.maps.chain
  /\ IF r.writes
     THEN /\ Transmit(r.to, r.pack)
          /\ AwaitWrite(a, [at |-> at, call |-> call, who |-> r.to,
                            pack |-> r.pack, ok |-> link[r.to] = "open"])
     ELSE AwaitPack(a) /\ UNCHANGED down

ReadConnect(a) ==
  /\ Reads(a, "CONNECT")
  /\ actor_info' = [actor_info EXCEPT ![a] =
                      [call_id |-> NoCall, is_waiting |-> FALSE,
                       msg_queue |-> <<>>]]
  /\ actor_info_map' = [actor_info_map EXCEPT ![NodeOf[a]] = Append(@, a)]
  /\ Transmit(a, Connack)
  /\ AwaitWrite(a, Idle("connack"))
  /\ UNCHANGED <<call_chain, link>>

ConnackWritten(a) ==
  /\ Resumes(a, "connack")
  /\ AwaitPack(a)
  /\ UNCHANGED <<actor_info, actor_info_map, call_chain, link, up, down>>

ReadRequest(a) ==
  /\ Reads(a, "REQUEST")
  /\ LET pack   == Head(up[a])
         first  == [Maps EXCEPT !.chain[pack.call] = Started(@, pack.pid)]
         queued == [first EXCEPT !.info[pack.pid].msg_queue = Append(@, pack)]
     IN  Suspend(a, HandleRequest(queued, pack.pid), "request", NoCall)
  /\ UNCHANGED <<actor_info_map, link>>

\* A request has been written, as the last thing the coroutine had to do.
RequestDone(a) ==
  /\ Resumes(a, "request")
  /\ LET m == RequestWritten(Maps, coro[a])
     IN  actor_info' = m.info /\ call_chain' = m.chain
  /\ AwaitPack(a)
  /\ UNCHANGED <<actor_info_map, link, up, down>>

\* The responder leaves the chain and the response goes to whom the chain
\* then ends with.  back() of an empty list is undefined: see BackDefined.
ReadResponse(a) ==
  /\ Reads(a, "RESPONSE")
  /\ LET pack  == Head(up[a])
         chain == call_chain[pack.call]
     IN  /\ Len(chain) >= 2
         /\ call_chain' = [call_chain EXCEPT ![pack.call] = Popped(@)]
         /\ Transmit(Back(Popped(chain)), pack)
         /\ AwaitWrite(a, [at |-> "reply", call |-> pack.call,
                           who |-> Back(chain), pack |-> NoRequest,
                           ok |-> TRUE])
  /\ UNCHANGED <<actor_info, actor_info_map, link>>

\* (Mistake: the caller is not marked as free again.)
ResumeCallerWaiting(a, m, call) ==
  Suspend(a, HandleRequest(m, Back(m.chain[call])), "request", NoCall)

\* The last part of the RESPONSE case: the end of the chain stops waiting.
ResumeCaller(a, m, call) ==
  LET caller == Back(m.chain[call])
  IN  Suspend(a, HandleRequest(UpdateActorInfo(m, caller, call, FALSE), caller),
              "request", NoCall)

\* The response is written: the responder is free, and its queue is served.
ReplyWritten(a) ==
  /\ Resumes(a, "reply")
  /\ LET call == coro[a].call
         r    == HandleRequest(UpdateActorInfo(Maps, coro[a].who, NoCall, FALSE),
                               coro[a].who)
     IN  /\ call_chain[call] # <<>>
         /\ IF r.writes THEN Suspend(a, r, "self", call)
            ELSE ResumeCaller(a, r.maps, call)
  /\ UNCHANGED <<actor_info_map, link, up>>

SelfDone(a) ==
  /\ Resumes(a, "self")
  /\ call_chain[coro[a].call] # <<>>
  /\ ResumeCaller(a, RequestWritten(Maps, coro[a]), coro[a].call)
  /\ UNCHANGED <<actor_info_map, link, up>>

\* The actor closed its end and everything it sent has been read.  The
\* coroutine returns; nothing is unregistered and the socket stays open.
ReadEof(a) ==
  /\ Resumes(a, "read")
  /\ up[a] = <<>>
  /\ coro' = [coro EXCEPT ![a] = Idle("closed")]
  /\ runq' = Tail(runq)
  /\ UNCHANGED <<actor_info, actor_info_map, call_chain, link, up, down>>

ProxyStep(a) ==
  \/ Accept(a)
  \/ Arrive(a)
  \/ ReadConnect(a)
  \/ ConnackWritten(a)
  \/ ReadRequest(a)
  \/ RequestDone(a)
  \/ ReadResponse(a)
  \/ ReplyWritten(a)
  \/ SelfDone(a)
  \/ ReadEof(a)

=============================================================================
