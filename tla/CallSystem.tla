---------------------------- MODULE CallSystem ----------------------------
(***************************************************************************)
(* The actor processes around the proxy: how a service runs, how it calls  *)
(* a service of another process through the proxy, and how the answer gets *)
(* back to it.  An actor process runs one thread; an action is what one of *)
(* its coroutines does between two suspensions.  The worker coroutine is   *)
(* seen at the grain of one service call (job).                            *)
(***************************************************************************)
EXTENDS Proxy

CONSTANTS
  Calls,        \* service -> the services its code may send requests to
  ClientNodes,  \* the nodes that listen for remote clients
  MaxClients,   \* bound: requests of remote clients
  MaxCrashes,   \* bound: actor processes that die
  NoMsg,        \* the worker has no job
  NoReq         \* no request awaits its answer

ASSUME CallConstantsAssumption ==
  /\ Calls \in [Services -> SUBSET Services]
  /\ ClientNodes \subseteq Nodes
  /\ MaxClients \in Nat
  /\ MaxCrashes \in Nat
  /\ NoReq \notin Reqs

VARIABLES
  ctx,       \* the coro_actor_ctx and the coroutines of each actor process
  clients,   \* how many client requests there have been
  crashes    \* how many actor processes have died

vars == <<proxyVars, ctx, clients, crashes>>

\* A message of the worker's queue: a request pack or a remote client's.
ClientMsg == [type : {"CLIENT"}, call : {NoCall}, svc : Services]
Msg       == Request \cup ClientMsg

ASSUME NoMsgAssumption == NoMsg \notin Msg

Ctx == [phase   : {"start", "connecting", "up", "dead"},
        inbox   : Seq(Msg),               \* msg_queue_
        job     : Msg \cup {NoMsg},       \* the message being served
        call_id : CallIds \cup {NoCall},
        seq     : 0 .. SeqSize - 1,      \* seq_
        sends   : 0 .. MaxSends,          \* requests issued, to name them
        pending : Reqs \cup {NoReq},      \* the request send() waits for
        error   : BOOLEAN]                \* error_msg_ is not empty

TypeOK ==
  /\ ProxyTypeOK
  /\ ctx \in [Actors -> Ctx]
  /\ clients \in 0 .. MaxClients
  /\ crashes \in 0 .. MaxCrashes

Init ==
  /\ ProxyInit
  /\ ctx = [a \in Actors |->
              [phase |-> "start", inbox |-> <<>>, job |-> NoMsg,
               call_id |-> NoCall, seq |-> 0, sends |-> 0,
               pending |-> NoReq, error |-> FALSE]]
  /\ clients = 0
  /\ crashes = 0

\* The services an actor process has loaded (coro_actor_ctx::contains).
Provides(a, s) == s \in DOMAIN ServiceMap /\ ServiceMap[s] = NodeOf[a]

-----------------------------------------------------------------------------
(* The connection to the proxy.                                            *)

\* A process that cannot load its library (coro_actor.cpp 751, 763) or reach the
\* proxy (780) ends; as nobody has heard of it, it is one that never connects.
ActorConnect(a) ==
  /\ ctx[a].phase = "start"
  /\ ctx' = [ctx EXCEPT ![a].phase = "connecting"]
  /\ link' = [link EXCEPT ![a] = "open"]
  /\ up' = [up EXCEPT ![a] = <<Connect>>]
  /\ UNCHANGED <<actor_info, actor_info_map, call_chain, coro, runq, down,
                 clients, crashes>>

\* handle_actor_notify_proxy takes the CONNACK, handle_actor_internal the
\* packs that follow it.
ReceiveConnack(a) ==
  /\ ctx[a].phase = "connecting"
  /\ down[a] # <<>>
  /\ ctx' = [ctx EXCEPT ![a].phase = "up"]
  /\ down' = [down EXCEPT ![a] = Tail(@)]
  /\ UNCHANGED <<actor_info, actor_info_map, call_chain, coro, runq, link, up,
                 clients, crashes>>

\* (Mistake: takes every pack for the one it expects.)
IsPack(a, type) == TRUE
IsNext(a, type) == Head(down[a]).type = type

Receives(a, type) ==
  /\ ctx[a].phase = "up"
  /\ down[a] # <<>>
  /\ IsNext(a, type)
  /\ down' = [down EXCEPT ![a] = Tail(@)]
  /\ UNCHANGED <<actor_info, actor_info_map, call_chain, coro, runq, link, up,
                 clients, crashes>>

\* set_call_id gets the string that was moved into the message just before.
ReceiveRequest(a) ==
  /\ Receives(a, "REQUEST")
  /\ ctx' = [ctx EXCEPT ![a].call_id = NoCall,
                        ![a].inbox = Append(@, Head(down[a]))]

\* The answer is kept and send(), which waits for it, returns it before this
\* process handles another pack.  With nobody waiting the next answer
\* overwrites it.
ReceiveResponse(a) ==
  /\ Receives(a, "RESPONSE")
  /\ ctx' = [ctx EXCEPT ![a].pending = NoReq]

\* A session of a remote client pushes its next request.
ClientRequest(a, s) ==
  /\ ctx[a].phase = "up"
  /\ NodeOf[a] \in ClientNodes
  /\ Provides(a, s)
  /\ clients < MaxClients
  /\ clients' = clients + 1
  /\ ctx' = [ctx EXCEPT ![a].inbox =
               Append(@, [type |-> "CLIENT", call |-> NoCall, svc |-> s])]
  /\ UNCHANGED <<proxyVars, crashes>>

-----------------------------------------------------------------------------
(* The worker coroutine and the service it runs.                           *)

\* A message of a connection that this process has closed is skipped.
Stale(a, msg) == msg.type = "REQUEST" /\ link[a] = "cut"

\* (Mistake: takes a message while it serves another.)
TakesMsgBusy(a) ==
  /\ ctx[a].phase = "up"
  /\ ctx[a].inbox # <<>>

\* (Mistake: sleeps over a message that is alone.)
TakesMsgOfTwo(a) ==
  /\ ctx[a].phase = "up"
  /\ ctx[a].job = NoMsg
  /\ Len(ctx[a].inbox) > 1

TakesMsg(a) ==
  /\ ctx[a].phase = "up"
  /\ ctx[a].job = NoMsg
  /\ ctx[a].inbox # <<>>

SkipStale(a) ==
  /\ TakesMsg(a)
  /\ Stale(a, Head(ctx[a].inbox))
  /\ ctx' = [ctx EXCEPT ![a].inbox = Tail(@)]
  /\ UNCHANGED <<proxyVars, clients, crashes>>

StartJob(a) ==
  /\ TakesMsg(a)
  /\ LET msg == Head(ctx[a].inbox)
     IN  /\ ~Stale(a, msg)
         /\ ctx' = [ctx EXCEPT ![a].inbox = Tail(@), ![a].job = msg,
                               ![a].call_id = msg.call]
  /\ UNCHANGED <<proxyVars, clients, crashes>>

\* The service code runs and is not waiting for an answer.
Serving(a) ==
  /\ ctx[a].phase = "up"
  /\ ctx[a].job # NoMsg
  /\ ctx[a].pending = NoReq

SendRefused(a, s) ==
  /\ Serving(a)
  /\ s \in Calls[ctx[a].job.svc]
  /\ Provides(a, s)
  /\ ctx' = [ctx EXCEPT ![a].error = TRUE]
  /\ UNCHANGED <<proxyVars, clients, crashes>>

\* send() up to its wait for the answer, or to the failure of its write.
Send(a, s) ==
  /\ Serving(a)
  /\ s \in Calls[ctx[a].job.svc]
  /\ ~Provides(a, s)
  /\ ctx[a].sends < MaxSends
  /\ LET fresh == ctx[a].call_id = NoCall
         seq   == IF fresh THEN (ctx[a].seq + 1) % SeqSize ELSE ctx[a].seq
         call  == IF fresh THEN <<a, seq>> ELSE ctx[a].call_id
         req   == <<a, ctx[a].sends + 1>>
         pack  == [type |-> "REQUEST", pid |-> a, call |-> call, svc |-> s,
                   req |-> req]
         sent  == [ctx EXCEPT ![a].call_id = call, ![a].seq = seq,
                              ![a].sends = @ + 1]
     IN  IF link[a] = "open"
         THEN /\ ctx' = [sent EXCEPT ![a].pending = req]
              /\ up' = [up EXCEPT ![a] = Append(@, pack)]
         ELSE /\ ctx' = [sent EXCEPT ![a].error = TRUE]
              /\ UNCHANGED up
  /\ UNCHANGED <<actor_info, actor_info_map, call_chain, coro, runq, link, down,
                 clients, crashes>>

\* notify_complete, and the worker's end of the job: after an error it
\* closes the connection the message came from, else it answers on it.
Finish(a) ==
  /\ Serving(a)
  /\ ctx' = [ctx EXCEPT ![a].job = NoMsg, ![a].call_id = NoCall,
                        ![a].error = FALSE]
  /\ LET job == ctx[a].job
     IN  IF job.type = "CLIENT"
         THEN UNCHANGED <<link, up, down>>
         ELSE IF ctx[a].error
         THEN /\ link' = [link EXCEPT ![a] = "cut"]
              /\ down' = [down EXCEPT ![a] = <<>>]
              /\ UNCHANGED up
         ELSE /\ up' = [up EXCEPT ![a] = Append(@,
                          [type |-> "RESPONSE", call |-> job.call,
                           req |-> job.req])]
              /\ UNCHANGED <<link, down>>
  /\ UNCHANGED <<actor_info, actor_info_map, call_chain, coro, runq,
                 clients, crashes>>

\* The process dies.  Nobody starts it again.
Crash(a) ==
  /\ ctx[a].phase \in {"connecting", "up"}
  /\ crashes < MaxCrashes
  /\ crashes' = crashes + 1
  /\ ctx' = [ctx EXCEPT ![a] =
               [@ EXCEPT !.phase = "dead", !.inbox = <<>>, !.job = NoMsg,
                         !.pending = NoReq, !.call_id = NoCall]]
  /\ link' = [link EXCEPT ![a] = "cut"]
  /\ down' = [down EXCEPT ![a] = <<>>]
  /\ UNCHANGED <<actor_info, actor_info_map, call_chain, coro, runq, up, clients>>

-----------------------------------------------------------------------------

\* What the io_context of process a has to do of itself.
ActorRuns(a) ==
  \/ ActorConnect(a)
  \/ ReceiveConnack(a) \/ ReceiveRequest(a) \/ ReceiveResponse(a)
  \/ SkipStale(a) \/ StartJob(a) \/ Finish(a)

ActorStep(a) ==
  \/ ActorRuns(a)
  \/ \E s \in Services : SendRefused(a, s)
  \/ \E s \in Services : Send(a, s)

Proxies(a) == ProxyStep(a) /\ UNCHANGED <<ctx, clients, crashes>>

Next ==
  \E a \in Actors :
    \/ Proxies(a)
    \/ ActorStep(a)
    \/ \E s \in Services : ClientRequest(a, s)
    \/ Crash(a)

Spec == Init /\ [][Next]_vars

\* Each process that has connected keeps running its coroutines, and a service
\* returns.  No client is obliged to call and no process to connect or to die.
Fairness ==
  /\ WF_vars(\E a \in Actors : Proxies(a))
  /\ \A a \in Actors : WF_vars(ctx[a].phase # "start" /\ ActorRuns(a))

FairSpec == Spec /\ Fairness

-----------------------------------------------------------------------------
(* Properties.                                                             *)

\* The packs that process a has to work on, or the proxy keeps for it.
Backlog(a) ==
  actor_info[a].msg_queue \o down[a] \o ctx[a].inbox
    \o (IF ctx[a].job = NoMsg THEN <<>> ELSE <<ctx[a].job>>)

\* Every pack that process a, or the proxy on its behalf, has in hand.
Held(a) == up[a] \o Backlog(a)

IsOf(pack, r) == pack.type \in {"REQUEST", "RESPONSE"} /\ pack.req = r

Places(r) ==
  UNION {{<<a, i>> : i \in {j \in DOMAIN Held(a) : IsOf(Held(a)[j], r)}}
           : a \in Actors}

\* A request is executed at most once: over the sockets, the proxy's queues,
\* the queues of the actors and the jobs there is one pack of it, be it the
\* request or its response (the queue of a waiting actor re-dispatches the
\* packs it holds, coro_actor.cpp 678-682).
RequestInOnePlace == \A r \in Reqs : \A x, y \in Places(r) : x = y

\* call_chain.back() is never taken of an empty list (coro_actor.cpp 604,
\* 608, 614, 615), although other coroutines change the chain in between.
BackDefined ==
  \A a \in Actors :
    /\ (coro[a].at = "read" /\ up[a] # <<>> /\ Head(up[a]).type = "RESPONSE")
         => Len(call_chain[Head(up[a]).call]) >= 2
    /\ coro[a].at \in {"reply", "self"} => call_chain[coro[a].call] # <<>>

\* The first pack an actor process reads is the CONNACK (the assertion of
\* coro_actor.cpp 815), although the proxy registers it before it answers.
AckFirst ==
  \A a \in Actors :
    (ctx[a].phase = "connecting" /\ down[a] # <<>>)
      => Head(down[a]).type = "CONNACK"

\* Of two processes that call each other's services at the same time, the
\* one the proxy takes to be waiting really is: its send() awaits an answer,
\* or the coroutine that brought the answer is about to say so.  (As long as
\* no answer goes to the wrong process, ResultIsOwn.)
WaitingMirror ==
  \A a \in Actors : (actor_info[a].is_waiting /\ ctx[a].phase = "up") =>
    \/ ctx[a].pending # NoReq
    \/ \E b \in Actors : /\ coro[b].at \in {"reply", "self"}
                         /\ Back(call_chain[coro[b].call]) = a

\* No request is kept in the proxy for a process that waits itself: where a
\* service that asks others is not asked by two callers at once, every request
\* is forwarded, or dropped, in the step that reads it, and the branch of
\* coro_actor.cpp 679-682 is not taken.
NoRequestWaits == \A a \in Actors : actor_info[a].msg_queue = <<>>

\* The process that pop_back takes off the chain as the responder
\* (coro_actor.cpp 604, af_self) is the one that sent the response.  (As long
\* as no request is dispatched a second time to the end, ResultIsOwn.)
ResponderEndsChain ==
  \A a \in Actors : \A i \in DOMAIN up[a] :
    (up[a][i].type = "RESPONSE" /\ call_chain[up[a][i].call] # <<>>)
      => Back(call_chain[up[a][i].call]) = a

\* A response goes to the process that waits for exactly that answer.
ResponseToRequester ==
  \A a \in Actors : \A i \in DOMAIN down[a] :
    down[a][i].type = "RESPONSE" => down[a][i].req = ctx[a].pending

\* No send() returns the answer to another request: curr_resp_pack_ is "the
\* response to the current call" (coro_actor_ctx.h 62).
ResultIsOwn ==
  \A a \in Actors :
    (/\ down[a] # <<>>
     /\ Head(down[a]).type = "RESPONSE"
     /\ ctx[a].pending # NoReq) => Head(down[a]).req = ctx[a].pending

\* A chain that is longer than its first caller belongs to a call somebody
\* still works for: no process is left in the chain of a call that is over.
ChainHasWork ==
  \A c \in CallIds : Len(call_chain[c]) > 1
    => \E a \in Actors : \E i \in DOMAIN Held(a) :
         Held(a)[i].type \in {"REQUEST", "RESPONSE"} /\ Held(a)[i].call = c

\* The call id of a request is the call id of everything its service asks of
\* other processes meanwhile ("调用 ID 传递", coro_actor_ctx.cpp 136).
CallIdPropagated ==
  \A a \in Actors :
    (ctx[a].job # NoMsg /\ ctx[a].job.type = "REQUEST")
      => ctx[a].call_id = ctx[a].job.call

\* Nothing will bring the answer to r any more: the proxy has dropped the
\* request, it was with a process that died or cut its connection, or its
\* answer went elsewhere.
Lost(r) ==
  \/ Places(r) = {}
  \/ \E a \in Actors : /\ link[a] = "cut"
                       /\ \E i \in DOMAIN actor_info[a].msg_queue :
                            IsOf(actor_info[a].msg_queue[i], r)

\* Processes each of which waits for one of the others to work on its
\* request: the proxy refuses such a cycle within one call only.
WaitForEachOther(group) ==
  \A a \in group : \E b \in group \ {a} : \E i \in DOMAIN Backlog(b) :
    /\ ctx[a].pending # NoReq
    /\ Backlog(b)[i].type = "REQUEST"
    /\ Backlog(b)[i].req = ctx[a].pending

\* A send() returns unless a request somebody waits for is lost, or processes
\* wait for one another: nothing else can keep it.
HangsOnlyByLossOrCycle ==
  \A a \in Actors : ctx[a].pending # NoReq ~>
    \/ ctx[a].pending = NoReq
    \/ \E b \in Actors : ctx[b].pending # NoReq /\ Lost(ctx[b].pending)
    \/ \E group \in SUBSET Actors \ {{}} : WaitForEachOther(group)

\* Whoever calls send() gets an answer.
SendReturns ==
  \A a \in Actors : ctx[a].pending # NoReq ~> ctx[a].pending = NoReq

\* The whole implements remote procedure calls.
ServerOf(r) ==
  {a \in Actors : ctx[a].job # NoMsg /\ ctx[a].job.type = "REQUEST"
                    /\ ctx[a].job.req = r}

StateOf(r) ==
  IF r[2] > ctx[r[1]].sends THEN "unsent"
  ELSE IF ctx[r[1]].pending # r THEN "returned"
  ELSE IF ServerOf(r) # {} THEN "executing"
  ELSE IF \E a \in Actors : \E i \in DOMAIN Held(a) :
            Held(a)[i].type = "RESPONSE" /\ Held(a)[i].req = r
       THEN "answered"
  ELSE "sent"

Calling == INSTANCE Rpc WITH
  NoServer <- NoActor,
  state    <- [r \in Reqs |-> StateOf(r)],
  server   <- [r \in Reqs |-> IF ServerOf(r) = {} THEN NoActor
                              ELSE CHOOSE a \in ServerOf(r) : TRUE]

\* Rpc's steps and its promise that every request returns.
ImplementsRpc == Calling!RpcSpec

=============================================================================
