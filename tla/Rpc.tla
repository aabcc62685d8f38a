-------------------------------- MODULE Rpc --------------------------------
(***************************************************************************)
(* What a call of one actor process to a service of another promises: the  *)
(* request is executed by one process, which serves one request at a time, *)
(* and its answer, not another, is what the caller's send() returns.       *)
(***************************************************************************)
EXTENDS Naturals

CONSTANTS Actors, MaxSends, NoServer

VARIABLES
  state,    \* of each request <<caller, number>>
  server    \* the process that executes it, while it does

rpcVars == <<state, server>>

RpcReqs == Actors \X (1 .. MaxSends)

RpcInit ==
  /\ state = [r \in RpcReqs |-> "unsent"]
  /\ server = [r \in RpcReqs |-> NoServer]

\* A process waits for one answer at a time and numbers its requests.
Issue(r) ==
  /\ state[r] = "unsent"
  /\ \A q \in RpcReqs : (q[1] = r[1] /\ q[2] < r[2]) => state[q] = "returned"
  /\ state' = [state EXCEPT ![r] = "sent"]
  /\ UNCHANGED server

Execute(r, a) ==
  /\ state[r] = "sent"
  /\ a # r[1]
  /\ \A q \in RpcReqs : server[q] # a
  /\ state' = [state EXCEPT ![r] = "executing"]
  /\ server' = [server EXCEPT ![r] = a]

Answer(r) ==
  /\ state[r] = "executing"
  /\ state' = [state EXCEPT ![r] = "answered"]
  /\ server' = [server EXCEPT ![r] = NoServer]

Return(r) ==
  /\ state[r] = "answered"
  /\ state' = [state EXCEPT ![r] = "returned"]
  /\ UNCHANGED server

Progress(r) ==
  \/ \E a \in Actors : Execute(r, a)
  \/ Answer(r)
  \/ Return(r)

RpcNext == \E r \in RpcReqs : Issue(r) \/ Progress(r)

\* Nothing that a has asked is unanswered.
Answered(a) ==
  \A r \in RpcReqs : r[1] = a => state[r] \in {"unsent", "returned"}

\* Every request that is issued returns: nobody waits for ever.
RpcSpec ==
  /\ RpcInit
  /\ [][RpcNext]_rpcVars
  /\ \A a \in Actors : []<>Answered(a)

=============================================================================
