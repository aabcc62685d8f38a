-------------------------- MODULE CallSystemProofs --------------------------
(***************************************************************************)
(* What holds of the proxy and any number of actor processes, whatever     *)
(* services call one another, processes die and connections are cut: the   *)
(* state is well typed, and the first pack an actor reads is the CONNACK.  *)
(***************************************************************************)
EXTENDS CallSystem, TLAPS, FiniteSetTheorems, SequenceTheorems, WellFoundedInduction

-----------------------------------------------------------------------------
(* What the parts of a step of the proxy do: the lemmas that everything    *)
(* below rests on.                                                         *)

LEMMA AppendFacts ==
  ASSUME NEW S, NEW s \in Seq(S), NEW x \in S
  PROVE  /\ Append(s, x) \in Seq(S)
         /\ Len(Append(s, x)) = Len(s) + 1
         /\ DOMAIN Append(s, x) = 1 .. Len(s) + 1
         /\ \A i \in 1 .. Len(s) : Append(s, x)[i] = s[i]
         /\ Append(s, x)[Len(s) + 1] = x
         /\ Append(s, x) # <<>>
         /\ Head(Append(s, x)) = IF s = <<>> THEN x ELSE Head(s)
  OBVIOUS

LEMMA AppendMembers ==
  ASSUME NEW S, NEW s \in Seq(S), NEW x \in S
  PROVE  \A i \in DOMAIN Append(s, x) :
           Append(s, x)[i] = x \/ \E j \in DOMAIN s : Append(s, x)[i] = s[j]
<1>1. /\ DOMAIN Append(s, x) = 1 .. Len(s) + 1 /\ DOMAIN s = 1 .. Len(s)
      /\ \A j \in 1 .. Len(s) : Append(s, x)[j] = s[j]
      /\ Append(s, x)[Len(s) + 1] = x /\ Len(s) \in Nat
  BY AppendFacts
<1>2. \A i \in DOMAIN Append(s, x) : i \in 1 .. Len(s) \/ i = Len(s) + 1
  BY <1>1
<1> QED
  BY <1>1, <1>2

LEMMA TailFacts ==
  ASSUME NEW S, NEW s \in Seq(S), s # <<>>
  PROVE  /\ Tail(s) \in Seq(S)
         /\ Head(s) = s[1]
         /\ Head(s) \in S
         /\ Len(s) >= 1
         /\ DOMAIN s = 1 .. Len(s)
         /\ DOMAIN Tail(s) = 1 .. Len(s) - 1
         /\ \A i \in 1 .. Len(s) - 1 : Tail(s)[i] = s[i + 1]
  OBVIOUS

LEMMA LeastNat ==
  ASSUME NEW T \in SUBSET Nat, T # {}
  PROVE  \E x \in T : \A y \in T : x <= y
<1> DEFINE R == OpToRel(<, Nat)
<1>1. \A x, y \in Nat : <<y, x>> \in R <=> y < x
  BY DEF OpToRel
<1>2. IsWellFoundedOn(R, Nat)
  BY NatLessThanWellFounded
<1> HIDE DEF R
<1>3. PICK x \in T : \A y \in T : ~(<<y, x>> \in R)
  BY <1>2, WFMin
<1>4. \A y \in T : ~(y < x)
  BY <1>1, <1>3
<1>5. \A y \in T : x <= y
  BY <1>4
<1> QED
  BY <1>5

-----------------------------------------------------------------------------
(* The two maps that the calls of a step work on.                          *)

MapsType == [info : [Actors -> Info], chain : [CallIds -> Seq(Actors)]]

\* The queues of requests, which is all that the properties ask of the info.
Queues(m) == [b \in Actors |-> m.info[b].msg_queue]

LEMMA MapsFields ==
  ASSUME NEW m \in MapsType
  PROVE  /\ m.info \in [Actors -> Info]
         /\ m.chain \in [CallIds -> Seq(Actors)]
         /\ Queues(m) \in [Actors -> Seq(Request)]
         /\ \A b \in Actors : m.info[b].msg_queue = Queues(m)[b]
<1>1. m.info \in [Actors -> Info] /\ m.chain \in [CallIds -> Seq(Actors)]
  BY DEF MapsType
<1>2. \A b \in Actors : m.info[b].msg_queue \in Seq(Request)
  BY <1>1 DEF Info
<1> QED
  BY <1>1, <1>2 DEF Queues

LEMMA UpdateFacts ==
  ASSUME NEW m \in MapsType, NEW a \in Actors, NEW c \in CallIds \cup {NoCall},
         NEW w \in BOOLEAN
  PROVE  /\ UpdateActorInfo(m, a, c, w) \in MapsType
         /\ Queues(UpdateActorInfo(m, a, c, w)) = Queues(m)
         /\ UpdateActorInfo(m, a, c, w).chain = m.chain
<1> DEFINE i == [m.info[a] EXCEPT !.call_id = c, !.is_waiting = w]
           u == UpdateActorInfo(m, a, c, w)
<1>1. u = [m EXCEPT !.info = [m.info EXCEPT ![a] = i]]
  BY DEF UpdateActorInfo, MapsType
<1>2. i \in Info /\ i.msg_queue = m.info[a].msg_queue
  BY DEF MapsType, Info
<1> HIDE DEF i, u
<1>3. u.info = [m.info EXCEPT ![a] = i] /\ u.chain = m.chain /\ u \in MapsType
  <2>1. u.info = [m.info EXCEPT ![a] = i] /\ u.chain = m.chain
    BY <1>1 DEF MapsType
  <2>2. u \in MapsType
    BY <1>1, <1>2 DEF MapsType
  <2> QED
    BY <2>1, <2>2
<1>4. \A b \in Actors : u.info[b].msg_queue = m.info[b].msg_queue
  BY <1>2, <1>3, MapsFields
<1> QED
  BY <1>3, <1>4 DEF Queues, u

\* A queue of the maps, or a chain, is set to another one.
WithQueue(m, a, q) == [m EXCEPT !.info[a].msg_queue = q]
WithChain(m, c, s) == [m EXCEPT !.chain[c] = s]

LEMMA QueueFacts ==
  ASSUME NEW m \in MapsType, NEW a \in Actors, NEW q \in Seq(Request)
  PROVE  /\ WithQueue(m, a, q) \in MapsType
         /\ Queues(WithQueue(m, a, q)) = [Queues(m) EXCEPT ![a] = q]
         /\ WithQueue(m, a, q).chain = m.chain
<1> DEFINE i == [m.info[a] EXCEPT !.msg_queue = q]
           u == WithQueue(m, a, q)
<1>1. u = [m EXCEPT !.info = [m.info EXCEPT ![a] = i]]
  BY DEF MapsType, WithQueue
<1>2. i \in Info /\ i.msg_queue = q
  BY DEF MapsType, Info
<1>3. u.info = [m.info EXCEPT ![a] = i] /\ u.chain = m.chain /\ u \in MapsType
  BY <1>1, <1>2 DEF MapsType
<1>4. \A b \in Actors : u.info[b].msg_queue = IF b = a THEN q ELSE m.info[b].msg_queue
  BY <1>2, <1>3, MapsFields
<1> QED
  BY <1>3, <1>4 DEF Queues

LEMMA ChainFacts ==
  ASSUME NEW m \in MapsType, NEW c \in CallIds, NEW s \in Seq(Actors)
  PROVE  /\ WithChain(m, c, s) \in MapsType
         /\ Queues(WithChain(m, c, s)) = Queues(m)
         /\ WithChain(m, c, s).chain = [m.chain EXCEPT ![c] = s]
<1> DEFINE u == WithChain(m, c, s)
<1>1. u.info = m.info /\ u.chain = [m.chain EXCEPT ![c] = s] /\ u \in MapsType
  BY DEF MapsType, WithChain
<1> QED
  BY <1>1 DEF Queues

LEMMA LeastLoadedIn ==
  ASSUME NEW m \in MapsType, NEW peers \in Seq(Actors), peers # <<>>
  PROVE  \E i \in DOMAIN peers : LeastLoaded(m, peers) = peers[i]
<1> DEFINE load(i) == Len(m.info[peers[i]].msg_queue)
           Best(i) == \A j \in DOMAIN peers :
                        load(i) < load(j) \/ (load(i) = load(j) /\ i <= j)
           loads == {load(i) : i \in DOMAIN peers}
<1>1. /\ DOMAIN peers \in SUBSET Nat /\ DOMAIN peers # {}
      /\ \A i \in DOMAIN peers : load(i) \in Nat
  BY TailFacts, MapsFields
<1>2. loads \in SUBSET Nat /\ loads # {}
  BY <1>1
<1>3. PICK l \in loads : \A k \in loads : l <= k
  BY <1>2, LeastNat
<1> DEFINE firsts == {i \in DOMAIN peers : load(i) = l}
<1>4. firsts \in SUBSET Nat /\ firsts # {}
  BY <1>1, <1>3
<1>5. PICK i \in firsts : \A j \in firsts : i <= j
  BY <1>4, LeastNat
<1>6. ASSUME NEW j \in DOMAIN peers
      PROVE  load(i) < load(j) \/ (load(i) = load(j) /\ i <= j)
  <2>1. l <= load(j) /\ load(i) = l
    BY <1>3, <1>5
  <2>2. load(j) = l => i <= j
    BY <1>5
  <2> QED
    BY <1>1, <2>1, <2>2
<1>7. (CHOOSE k \in DOMAIN peers : Best(k)) \in DOMAIN peers
  BY <1>5, <1>6
<1> QED
  BY <1>7 DEF LeastLoaded

-----------------------------------------------------------------------------
(* handle_proxy_handle_request.                                            *)

\* The proxy has this process in the list of its node.
Registered(a) ==
  \E n \in Nodes : \E i \in DOMAIN actor_info_map[n] : actor_info_map[n][i] = a

\* A pack that is in none of these queues goes to a registered process, which
\* joins the chain of the call and finds it in its queue or gets it at once.
Forwarded(queues, chain, pack, r) ==
  \E to \in Actors :
    /\ Registered(to)
    /\ r.maps.chain = [chain EXCEPT ![pack.call] = Append(@, to)]
    /\ \/ /\ ~r.writes
          /\ Queues(r.maps) = [queues EXCEPT ![to] = Append(@, pack)]
       \/ /\ r.writes /\ r.to = to /\ r.pack = pack
          /\ Queues(r.maps) = queues

\* What it does with the queue of a: nothing; it drops the first pack; or it
\* forwards it.
Handled(m, a, r) ==
  LET popped == [Queues(m) EXCEPT ![a] = Tail(@)]
  IN  \/ r.maps = m /\ ~r.writes
      \/ /\ Queues(m)[a] # <<>>
         /\ ~r.writes
         /\ Queues(r.maps) = popped
         /\ r.maps.chain = m.chain
      \/ /\ Queues(m)[a] # <<>>
         /\ Forwarded(popped, m.chain, Head(Queues(m)[a]), r)

ResultType ==
  [maps : MapsType, writes : BOOLEAN, to : Actors \cup {NoActor},
   pack : Request \cup {NoRequest}]

LEMMA ReturnedFacts ==
  ASSUME NEW m \in MapsType
  PROVE  /\ Returned(m) \in ResultType
         /\ Returned(m).maps = m /\ ~Returned(m).writes
  BY DEF Returned, ResultType

LEMMA WritesFacts ==
  ASSUME NEW m \in MapsType, NEW a \in Actors, NEW p \in Request
  PROVE  /\ Writes(m, a, p) \in ResultType
         /\ Writes(m, a, p).maps = m /\ Writes(m, a, p).writes
         /\ Writes(m, a, p).to = a /\ Writes(m, a, p).pack = p
  BY DEF Writes, ResultType

LEMMA RequestFields ==
  ASSUME NEW p \in Request
  PROVE  /\ p.type = "REQUEST" /\ p.pid \in Actors /\ p.call \in CallIds
         /\ p.svc \in Services /\ p.req \in Reqs
  BY DEF Request

LEMMA PeersFacts ==
  ASSUME actor_info_map \in [Nodes -> Seq(Actors)],
         NEW svc \in DOMAIN ServiceMap
  PROVE  /\ Peers(svc) \in Seq(Actors)
         /\ \A i \in DOMAIN Peers(svc) : Registered(Peers(svc)[i])
<1>1. ServiceMap[svc] \in Nodes
  BY ConstantsAssumption
<1> QED
  BY <1>1 DEF Peers, Registered

LEMMA ForwardFacts ==
  ASSUME actor_info_map \in [Nodes -> Seq(Actors)],
         NEW m \in MapsType, NEW pack \in Request,
         pack.svc \in DOMAIN ServiceMap, Peers(pack.svc) # <<>>,
         NEW r, r = Forward(m, pack)
  PROVE  /\ r \in ResultType
         /\ r.writes => r.to \in Actors /\ r.pack \in Request
         /\ Forwarded(Queues(m), m.chain, pack, r)
<1> DEFINE to == LeastLoaded(m, Peers(pack.svc))
           caller == UpdateActorInfo(m, pack.pid, pack.call, TRUE)
           joined == [caller EXCEPT !.chain[pack.call] = Append(@, to)]
           queued == [joined EXCEPT !.info[to].msg_queue = Append(@, pack)]
           taken == UpdateActorInfo(joined, to, pack.call, FALSE)
<1>1. /\ pack.pid \in Actors /\ pack.call \in CallIds
      /\ pack.call \in CallIds \cup {NoCall} /\ Peers(pack.svc) \in Seq(Actors)
      /\ TRUE \in BOOLEAN /\ FALSE \in BOOLEAN
  BY RequestFields, PeersFacts
<1>2. to \in Actors /\ Registered(to)
  <2>1. PICK i \in DOMAIN Peers(pack.svc) : to = Peers(pack.svc)[i]
    BY <1>1, LeastLoadedIn
  <2> QED
    BY <1>1, <2>1, PeersFacts
<1>3. caller \in MapsType /\ Queues(caller) = Queues(m) /\ caller.chain = m.chain
  BY <1>1, UpdateFacts
<1>4. r = IF joined.info[to].is_waiting THEN Returned(queued)
          ELSE Writes(taken, to, pack)
  BY DEF Forward, Joins
<1> HIDE DEF to, caller
<1> DEFINE s == Append(caller.chain[pack.call], to)
<1>5. s \in Seq(Actors) /\ joined = WithChain(caller, pack.call, s)
  BY <1>1, <1>2, <1>3, MapsFields DEF WithChain
<1>6. /\ joined \in MapsType /\ Queues(joined) = Queues(m)
      /\ joined.chain = [m.chain EXCEPT ![pack.call] = Append(@, to)]
  <2> HIDE DEF s, joined
  <2>1. /\ joined \in MapsType /\ Queues(joined) = Queues(m)
        /\ joined.chain = [m.chain EXCEPT ![pack.call] = s]
    BY <1>1, <1>3, <1>5, ChainFacts
  <2> QED
    BY <1>1, <1>3, <2>1, MapsFields DEF s
<1> HIDE DEF joined
<1>7. CASE joined.info[to].is_waiting
  <2> DEFINE q == Append(Queues(joined)[to], pack)
  <2>1. q \in Seq(Request) /\ queued = WithQueue(joined, to, q)
    <3>1. Queues(joined)[to] \in Seq(Request)
      BY <1>2, <1>6, MapsFields
    <3>2. joined.info[to].msg_queue = Queues(joined)[to]
      BY <1>2, <1>6, MapsFields
    <3> QED
      BY <3>1, <3>2, AppendFacts DEF WithQueue
  <2>2. /\ queued \in MapsType /\ queued.chain = joined.chain
        /\ Queues(queued) = [Queues(m) EXCEPT ![to] = Append(@, pack)]
    <3> HIDE DEF q, queued
    <3>1. /\ queued \in MapsType /\ queued.chain = joined.chain
          /\ Queues(queued) = [Queues(joined) EXCEPT ![to] = q]
      BY <1>2, <1>6, <2>1, QueueFacts
    <3> QED
      BY <1>2, <1>6, <3>1, MapsFields DEF q
  <2>3. r = Returned(queued)
    BY <1>4, <1>7
  <2> HIDE DEF queued
  <2>4. r \in ResultType /\ r.maps = queued /\ ~r.writes
    BY <2>2, <2>3, ReturnedFacts
  <2> QED
    BY <1>2, <1>6, <2>2, <2>4 DEF Forwarded
<1>8. CASE ~joined.info[to].is_waiting
  <2>1. taken \in MapsType /\ Queues(taken) = Queues(m) /\ taken.chain = joined.chain
    BY <1>1, <1>2, <1>6, UpdateFacts
  <2>2. r = Writes(taken, to, pack)
    BY <1>4, <1>8
  <2> HIDE DEF taken
  <2>3. /\ r \in ResultType /\ r.maps = taken /\ r.writes
        /\ r.to = to /\ r.pack = pack
    BY <1>2, <2>1, <2>2, WritesFacts
  <2> QED
    BY <1>2, <1>6, <2>1, <2>3 DEF Forwarded
<1> QED
  BY <1>7, <1>8

LEMMA HandleFacts ==
  ASSUME actor_info_map \in [Nodes -> Seq(Actors)],
         NEW m \in MapsType, NEW a \in Actors,
         NEW r, r = HandleRequest(m, a)
  PROVE  /\ r \in ResultType
         /\ r.writes => r.to \in Actors /\ r.pack \in Request
         /\ Handled(m, a, r)
<1> DEFINE queue == m.info[a].msg_queue
           pack == Head(queue)
           popped == [m EXCEPT !.info[a].msg_queue = Rest(@)]
<1>1. queue = Queues(m)[a] /\ queue \in Seq(Request)
  BY MapsFields
<1>2. CASE queue = <<>> \/ m.info[a].is_waiting
  <2>1. r = Returned(m)
    BY <1>2 DEF HandleRequest
  <2> QED
    BY <2>1, ReturnedFacts DEF Handled
<1>3. CASE ~(queue = <<>> \/ m.info[a].is_waiting)
  <2> DEFINE q == Tail(queue)
  <2>1. /\ pack \in Request /\ q \in Seq(Request)
        /\ popped = WithQueue(m, a, q)
    BY <1>1, <1>3, TailFacts DEF Rest, WithQueue
  <2>2. /\ popped \in MapsType /\ popped.chain = m.chain
        /\ Queues(popped) = [Queues(m) EXCEPT ![a] = Tail(@)]
    <3> HIDE DEF popped, q
    <3>1. /\ popped \in MapsType /\ popped.chain = m.chain
          /\ Queues(popped) = [Queues(m) EXCEPT ![a] = q]
      BY <2>1, QueueFacts
    <3> QED
      BY <1>1, <3>1, MapsFields DEF q
  <2>3. r = IF Dropped(popped, pack) THEN Returned(popped) ELSE Forward(popped, pack)
    BY <1>3 DEF HandleRequest
  <2> HIDE DEF popped
  <2>4. CASE Dropped(popped, pack)
    <3>1. r = Returned(popped)
      BY <2>3, <2>4
    <3>2. r \in ResultType /\ ~r.writes /\ r.maps = popped
      BY <2>2, <3>1, ReturnedFacts
    <3> QED
      BY <1>1, <1>3, <2>2, <3>2 DEF Handled
  <2>5. CASE ~Dropped(popped, pack)
    <3>1. pack.svc \in DOMAIN ServiceMap /\ Peers(pack.svc) # <<>>
      BY <2>5 DEF Dropped
    <3>2. r = Forward(popped, pack)
      BY <2>3, <2>5
    <3>3. /\ r \in ResultType
          /\ r.writes => r.to \in Actors /\ r.pack \in Request
          /\ Forwarded(Queues(popped), popped.chain, pack, r)
      BY <2>1, <2>2, <3>1, <3>2, ForwardFacts
    <3> QED
      BY <1>1, <1>3, <2>2, <3>3 DEF Handled
  <2> QED
    BY <2>4, <2>5
<1> QED
  BY <1>2, <1>3

-----------------------------------------------------------------------------
(* Type correctness.  A coroutine of the proxy that is suspended in a      *)
(* write has set the fields of its frame that it will use.                 *)

FrameSet(f) ==
  /\ f.at \in {"reply", "self"} => f.call \in CallIds
  /\ f.at \in {"reply", "self", "request"} => f.who \in Actors
  /\ f.at \in {"self", "request"} => f.pack \in Request

FramesRight == \A a \in Actors : FrameSet(coro[a])

Typed == TypeOK /\ FramesRight

\* A pack is what its type says.
UpPack   == {Connect} \cup Request \cup Response
DownPack == {Connack} \cup Request \cup Response

LEMMA PackKinds ==
  /\ \A p \in UpPack \cup DownPack : p.type = "REQUEST" => p \in Request
  /\ \A p \in UpPack \cup DownPack : p.type = "RESPONSE" => p \in Response
  /\ \A p \in UpPack : p.type = "CONNECT" => p = Connect
  /\ \A p \in DownPack : p.type = "CONNACK" => p = Connack
  /\ \A p \in Msg : p.type = "CLIENT" => p \in ClientMsg
  /\ \A p \in Msg : p.type # "CLIENT" => p \in Request /\ p.type = "REQUEST"
  BY DEF UpPack, DownPack, Connect, Connack, Request, Response, Msg, ClientMsg

LEMMA MapsTyped ==
  ASSUME ProxyTypeOK
  PROVE  /\ Maps \in MapsType
         /\ Maps.info = actor_info /\ Maps.chain = call_chain
  BY DEF ProxyTypeOK, Maps, MapsType

LEMMA IdleFrame ==
  ASSUME NEW at \in {"accept", "read", "connack", "closed"}
  PROVE  Idle(at) \in Frame /\ FrameSet(Idle(at)) /\ Idle(at).at = at
  BY DEF Idle, Frame, FrameSet

\* The coroutines and the queue of completions of a step that ends in a
\* write, or in waiting for the next pack.
LEMMA AwaitTyped ==
  ASSUME Typed, NEW a \in Actors, runq # <<>>,
         \/ AwaitPack(a)
         \/ \E f \in Frame : FrameSet(f) /\ AwaitWrite(a, f)
  PROVE  coro' \in [Actors -> Frame] /\ runq' \in Seq(Actors) /\ FramesRight'
<1>1. /\ coro \in [Actors -> Frame] /\ runq \in Seq(Actors)
      /\ \A b \in Actors : FrameSet(coro[b])
  BY DEF Typed, TypeOK, ProxyTypeOK, FramesRight
<1>2. Tail(runq) \in Seq(Actors) /\ Append(Tail(runq), a) \in Seq(Actors)
  BY <1>1, TailFacts, AppendFacts
<1>3. PICK f \in Frame : /\ FrameSet(f) /\ coro' = [coro EXCEPT ![a] = f]
                         /\ runq' \in {Tail(runq), Append(Tail(runq), a)}
  <2>1. Idle("read") \in Frame /\ FrameSet(Idle("read"))
    BY IdleFrame
  <2> QED
    BY <2>1 DEF AwaitPack, AwaitWrite
<1>4. \A b \in Actors : FrameSet(coro'[b])
  BY <1>1, <1>3
<1> QED
  BY <1>1, <1>2, <1>3, <1>4 DEF FramesRight, FrameSet

LEMMA TransmitTyped ==
  ASSUME Typed, NEW a \in Actors, NEW p \in DownPack, Transmit(a, p)
  PROVE  down' \in [Actors -> Seq(DownPack)]
<1>1. down \in [Actors -> Seq(DownPack)]
  BY DEF Typed, TypeOK, ProxyTypeOK, DownPack
<1>2. Append(down[a], p) \in Seq(DownPack)
  BY <1>1, AppendFacts
<1> QED
  BY <1>1, <1>2 DEF Transmit

\* What Suspend does to the state, given a typed result.
LEMMA SuspendTyped ==
  ASSUME Typed, NEW a \in Actors, runq # <<>>, NEW r \in ResultType,
         r.writes => r.to \in Actors /\ r.pack \in Request,
         NEW call \in CallIds \cup {NoCall}, NEW at \in {"request", "self"},
         at = "self" => call \in CallIds,
         Suspend(a, r, at, call)
  PROVE  /\ actor_info' \in [Actors -> Info]
         /\ call_chain' \in [CallIds -> Seq(Actors)]
         /\ coro' \in [Actors -> Frame] /\ runq' \in Seq(Actors)
         /\ FramesRight'
         /\ down' \in [Actors -> Seq(DownPack)]
<1>1. /\ r.maps \in MapsType /\ r.writes \in BOOLEAN
      /\ actor_info' = r.maps.info /\ call_chain' = r.maps.chain
  BY DEF ResultType, Suspend
<1>2. CASE r.writes
  <2> DEFINE f == [at |-> at, call |-> call, who |-> r.to, pack |-> r.pack,
                   ok |-> link[r.to] = "open"]
  <2>1. Transmit(r.to, r.pack) /\ AwaitWrite(a, f)
    BY <1>2 DEF Suspend
  <2>2. f \in Frame /\ FrameSet(f)
    BY <1>2 DEF Frame, FrameSet
  <2>3. r.pack \in DownPack
    BY <1>2 DEF DownPack
  <2> HIDE DEF f
  <2> QED
    BY <1>1, <1>2, <2>1, <2>2, <2>3, MapsFields, AwaitTyped, TransmitTyped
<1>3. CASE ~r.writes
  <2>1. AwaitPack(a) /\ down' = down
    BY <1>3 DEF Suspend
  <2>2. down \in [Actors -> Seq(DownPack)]
    BY DEF Typed, TypeOK, ProxyTypeOK, DownPack
  <2> QED
    BY <1>1, <2>1, <2>2, MapsFields, AwaitTyped
<1> QED
  BY <1>1, <1>2, <1>3

\* The stuff of which the lemmas about each step of the proxy are made.
LEMMA TypedParts ==
  ASSUME Typed
  PROVE  /\ actor_info \in [Actors -> Info]
         /\ actor_info_map \in [Nodes -> Seq(Actors)]
         /\ call_chain \in [CallIds -> Seq(Actors)]
         /\ coro \in [Actors -> Frame]
         /\ runq \in Seq(Actors)
         /\ link \in [Actors -> {"none", "open", "cut"}]
         /\ up \in [Actors -> Seq(UpPack)]
         /\ down \in [Actors -> Seq(DownPack)]
         /\ ctx \in [Actors -> Ctx]
         /\ Maps \in MapsType /\ Maps.info = actor_info /\ Maps.chain = call_chain
         /\ \A a \in Actors : FrameSet(coro[a])
<1>1. ProxyTypeOK
  BY DEF Typed, TypeOK
<1> QED
  BY <1>1, MapsTyped DEF Typed, TypeOK, ProxyTypeOK, FramesRight, UpPack, DownPack

LEMMA TailTyped ==
  ASSUME NEW S, NEW f \in [Actors -> Seq(S)], NEW a \in Actors, f[a] # <<>>
  PROVE  [f EXCEPT ![a] = Tail(@)] \in [Actors -> Seq(S)]
<1>1. Tail(f[a]) \in Seq(S)
  BY TailFacts
<1> QED
  BY <1>1

LEMMA AppendTyped ==
  ASSUME NEW S, NEW f \in [Actors -> Seq(S)], NEW a \in Actors, NEW x \in S
  PROVE  [f EXCEPT ![a] = Append(@, x)] \in [Actors -> Seq(S)]
<1>1. Append(f[a], x) \in Seq(S)
  BY AppendFacts
<1> QED
  BY <1>1

\* A step that reads a pack: it is the first of its connection.
LEMMA ReadsFacts ==
  ASSUME Typed, NEW a \in Actors, NEW type, Reads(a, type)
  PROVE  /\ runq # <<>> /\ coro[a].at = "read" /\ up[a] # <<>>
         /\ Head(up[a]) \in UpPack /\ Head(up[a]).type = type
         /\ up' = [up EXCEPT ![a] = Tail(@)]
         /\ up' \in [Actors -> Seq(UpPack)]
<1>1. up \in [Actors -> Seq(UpPack)] /\ up[a] # <<>>
  BY TypedParts DEF Reads
<1>2. Head(up[a]) \in UpPack
  BY <1>1, TailFacts
<1> QED
  BY <1>1, <1>2, TailTyped DEF Reads, Resumes

LEMMA TypedProxy ==
  ASSUME Typed, UNCHANGED <<ctx, clients, crashes>>,
         actor_info' \in [Actors -> Info],
         actor_info_map' \in [Nodes -> Seq(Actors)],
         call_chain' \in [CallIds -> Seq(Actors)],
         coro' \in [Actors -> Frame], runq' \in Seq(Actors), FramesRight',
         link' \in [Actors -> {"none", "open", "cut"}],
         up' \in [Actors -> Seq(UpPack)], down' \in [Actors -> Seq(DownPack)]
  PROVE  Typed'
  BY DEF Typed, TypeOK, ProxyTypeOK, UpPack, DownPack

\* The chain of a call with its last process taken off.
LEMMA PoppedFacts ==
  ASSUME NEW S, NEW s \in Seq(S), s # <<>>
  PROVE  /\ Popped(s) \in Seq(S) /\ Len(Popped(s)) = Len(s) - 1
         /\ DOMAIN s = 1 .. Len(s) /\ Len(s) \in Nat /\ Len(s) >= 1
         /\ \A i \in 1 .. Len(s) - 1 : Popped(s)[i] = s[i]
         /\ Back(s) \in S
         /\ Back(s) = s[Len(s)]
<1>1. Len(s) \in Nat /\ Len(s) >= 1 /\ DOMAIN s = 1 .. Len(s)
  BY TailFacts
<1>2. Back(s) = s[Len(s)] /\ Back(s) \in S
  BY <1>1 DEF Back
<1>3. \A i \in 1 .. Len(s) - 1 : s[i] \in S
  BY <1>1
<1>4. Popped(s) \in Seq(S) /\ Len(Popped(s)) = Len(s) - 1
  BY <1>1, <1>3, SubSeqProperties DEF Popped
<1>5. \A i \in 1 .. Len(s) - 1 : Popped(s)[i] = s[i]
  BY <1>1, <1>3, SubSeqProperties DEF Popped
<1> QED
  BY <1>1, <1>2, <1>4, <1>5

LEMMA BackFacts ==
  ASSUME NEW S, NEW s \in Seq(S), s # <<>>
  PROVE  \E i \in DOMAIN s : Back(s) = s[i]
<1>1. Len(s) \in DOMAIN s
  BY PoppedFacts
<1> QED
  BY <1>1 DEF Back

LEMMA StartedFacts ==
  ASSUME NEW S, NEW s \in Seq(S), NEW x \in S
  PROVE  /\ Started(s, x) \in Seq(S) /\ Started(s, x) # <<>>
         /\ s # <<>> => Started(s, x) = s
         /\ s = <<>> => Started(s, x) = <<x>>
  BY DEF Started

\* The maps on which ReadRequest calls HandleRequest.
Queued(pack) ==
  WithQueue(WithChain(Maps, pack.call, Started(call_chain[pack.call], pack.pid)),
            pack.pid, Append(actor_info[pack.pid].msg_queue, pack))

LEMMA QueuedFacts ==
  ASSUME Typed, NEW pack \in Request
  PROVE  /\ Queued(pack) \in MapsType
         /\ Queued(pack) =
              [[Maps EXCEPT !.chain[pack.call] = Started(@, pack.pid)]
                 EXCEPT !.info[pack.pid].msg_queue = Append(@, pack)]
         /\ Queues(Queued(pack)) =
              [Queues(Maps) EXCEPT ![pack.pid] = Append(@, pack)]
         /\ Queued(pack).chain =
              [call_chain EXCEPT ![pack.call] = Started(@, pack.pid)]
<1> DEFINE s == Started(call_chain[pack.call], pack.pid)
           first == WithChain(Maps, pack.call, s)
           q == Append(actor_info[pack.pid].msg_queue, pack)
<1>1. /\ Maps \in MapsType /\ Maps.info = actor_info /\ Maps.chain = call_chain
      /\ call_chain \in [CallIds -> Seq(Actors)]
  BY TypedParts
<1>2. pack.pid \in Actors /\ pack.call \in CallIds
  BY RequestFields
<1>3. s \in Seq(Actors)
  BY <1>1, <1>2, StartedFacts
<1>4. actor_info[pack.pid].msg_queue = Queues(Maps)[pack.pid]
  BY <1>1, <1>2, MapsFields
<1>5. q \in Seq(Request)
  BY <1>1, <1>2, <1>4, MapsFields, AppendFacts
<1>6. first = [Maps EXCEPT !.chain[pack.call] = Started(@, pack.pid)]
  BY <1>1, <1>2 DEF WithChain, MapsType
<1> HIDE DEF s
<1>7. /\ first \in MapsType /\ Queues(first) = Queues(Maps)
      /\ first.chain = [call_chain EXCEPT ![pack.call] = s]
  BY <1>1, <1>2, <1>3, ChainFacts
<1>8. first.info = actor_info
  BY <1>1 DEF WithChain, MapsType
<1> HIDE DEF first
<1>9. WithQueue(first, pack.pid, q) =
        [first EXCEPT !.info[pack.pid].msg_queue = Append(@, pack)]
  BY <1>2, <1>7, <1>8 DEF WithQueue, MapsType
<1> HIDE DEF q
<1>10. /\ WithQueue(first, pack.pid, q) \in MapsType
       /\ Queues(WithQueue(first, pack.pid, q)) =
            [Queues(first) EXCEPT ![pack.pid] = q]
       /\ WithQueue(first, pack.pid, q).chain = first.chain
  BY <1>2, <1>5, <1>7, QueueFacts
<1>11. Queued(pack) = WithQueue(first, pack.pid, q)
  BY DEF Queued, first, s, q
<1>12. [Queues(Maps) EXCEPT ![pack.pid] = q] =
         [Queues(Maps) EXCEPT ![pack.pid] = Append(@, pack)]
  BY <1>1, <1>2, <1>4, MapsFields DEF q
<1>13. [call_chain EXCEPT ![pack.call] = s] =
         [call_chain EXCEPT ![pack.call] = Started(@, pack.pid)]
  BY <1>1, <1>2 DEF s
<1> QED
  BY <1>6, <1>7, <1>9, <1>10, <1>11, <1>12, <1>13

LEMMA RequestWrittenFacts ==
  ASSUME NEW m \in MapsType, NEW f \in Frame, f.who \in Actors,
         f.pack \in Request
  PROVE  /\ RequestWritten(m, f) \in MapsType
         /\ Queues(RequestWritten(m, f)) = Queues(m)
         /\ RequestWritten(m, f).chain = m.chain
<1> DEFINE first == UpdateActorInfo(m, f.pack.pid, NoCall, FALSE)
           both == UpdateActorInfo(first, f.who, NoCall, FALSE)
<1>1. /\ f.pack.pid \in Actors /\ FALSE \in BOOLEAN
      /\ NoCall \in CallIds \cup {NoCall}
  BY RequestFields
<1>2. first \in MapsType /\ Queues(first) = Queues(m) /\ first.chain = m.chain
  BY <1>1, UpdateFacts
<1> HIDE DEF first
<1>3. both \in MapsType /\ Queues(both) = Queues(first) /\ both.chain = first.chain
  BY <1>1, <1>2, UpdateFacts
<1>4. RequestWritten(m, f) = IF f.ok THEN m ELSE both
  BY DEF RequestWritten, both, first
<1> HIDE DEF both
<1> QED
  BY <1>2, <1>3, <1>4

\* The caller at the end of the chain, as ResumeCaller frees it.
CallerFreed(m, call) == UpdateActorInfo(m, Back(m.chain[call]), call, FALSE)

LEMMA CallerFreedFacts ==
  ASSUME NEW m \in MapsType, NEW call \in CallIds, m.chain[call] # <<>>
  PROVE  /\ Back(m.chain[call]) \in Actors
         /\ CallerFreed(m, call) \in MapsType
         /\ Queues(CallerFreed(m, call)) = Queues(m)
         /\ CallerFreed(m, call).chain = m.chain
<1>1. m.chain[call] \in Seq(Actors)
  BY MapsFields
<1>2. Back(m.chain[call]) \in Actors
  BY <1>1, PoppedFacts
<1> QED
  BY <1>2, UpdateFacts DEF CallerFreed

LEMMA ResumeTyped ==
  ASSUME Typed, NEW a \in Actors, runq # <<>>, NEW m \in MapsType,
         NEW call \in CallIds, m.chain[call] # <<>>, ResumeCaller(a, m, call)
  PROVE  /\ actor_info' \in [Actors -> Info]
         /\ call_chain' \in [CallIds -> Seq(Actors)]
         /\ coro' \in [Actors -> Frame] /\ runq' \in Seq(Actors)
         /\ FramesRight'
         /\ down' \in [Actors -> Seq(DownPack)]
<1> DEFINE r == HandleRequest(CallerFreed(m, call), Back(m.chain[call]))
<1>1. Suspend(a, r, "request", NoCall)
  BY DEF ResumeCaller, CallerFreed
<1>2. r \in ResultType /\ (r.writes => r.to \in Actors /\ r.pack \in Request)
  BY TypedParts, CallerFreedFacts, HandleFacts
<1> HIDE DEF r
<1> QED
  BY <1>1, <1>2, SuspendTyped

LEMMA TypedReads ==
  ASSUME Typed, NEW a \in Actors,
         ReadConnect(a) \/ ReadRequest(a) \/ ReadResponse(a) \/ ReadEof(a),
         UNCHANGED <<ctx, clients, crashes>>
  PROVE  Typed'
<1> USE TypedParts
<1>1. CASE ReadConnect(a)
  <2> DEFINE i == [call_id |-> NoCall, is_waiting |-> FALSE, msg_queue |-> <<>>]
  <2>1. Reads(a, "CONNECT")
    BY <1>1 DEF ReadConnect
  <2>2. i \in Info
    BY DEF Info
  <2>3. actor_info' \in [Actors -> Info]
    BY <1>1, <2>2 DEF ReadConnect
  <2>4. NodeOf[a] \in Nodes
    BY ConstantsAssumption
  <2>5. actor_info_map' \in [Nodes -> Seq(Actors)]
    BY <1>1, <2>4, AppendTyped DEF ReadConnect
  <2>6. Idle("connack") \in Frame /\ FrameSet(Idle("connack"))
    BY IdleFrame
  <2>7. AwaitWrite(a, Idle("connack")) /\ Transmit(a, Connack)
    BY <1>1 DEF ReadConnect
  <2>8. Connack \in DownPack
    BY DEF DownPack
  <2>9. down' \in [Actors -> Seq(DownPack)]
    BY <2>7, <2>8, TransmitTyped
  <2>10. coro' \in [Actors -> Frame] /\ runq' \in Seq(Actors) /\ FramesRight'
    BY <2>1, <2>6, <2>7, ReadsFacts, AwaitTyped
  <2>11. UNCHANGED <<call_chain, link>>
    BY <1>1 DEF ReadConnect
  <2>12. up' \in [Actors -> Seq(UpPack)]
    BY <2>1, ReadsFacts
  <2> QED
    BY <2>3, <2>5, <2>9, <2>10, <2>11, <2>12, TypedProxy
<1>2. CASE ReadRequest(a)
  <2> DEFINE pack == Head(up[a])
             r == HandleRequest(Queued(pack), pack.pid)
  <2>1. Reads(a, "REQUEST")
    BY <1>2 DEF ReadRequest
  <2>2. pack \in Request /\ pack.pid \in Actors
    BY <2>1, ReadsFacts, PackKinds, RequestFields
  <2>3. Suspend(a, r, "request", NoCall)
    BY <1>2, <2>2, QueuedFacts DEF ReadRequest
  <2>4. r \in ResultType /\ (r.writes => r.to \in Actors /\ r.pack \in Request)
    BY <2>2, QueuedFacts, HandleFacts
  <2> HIDE DEF r
  <2>5. /\ actor_info' \in [Actors -> Info]
        /\ call_chain' \in [CallIds -> Seq(Actors)]
        /\ coro' \in [Actors -> Frame] /\ runq' \in Seq(Actors)
        /\ FramesRight'
        /\ down' \in [Actors -> Seq(DownPack)]
    BY <2>1, <2>3, <2>4, ReadsFacts, SuspendTyped
  <2>6. UNCHANGED <<actor_info_map, link>> /\ up' \in [Actors -> Seq(UpPack)]
    BY <1>2, <2>1, ReadsFacts DEF ReadRequest
  <2> QED
    BY <2>5, <2>6, TypedProxy
<1>3. CASE ReadResponse(a)
  <2> DEFINE pack == Head(up[a])
             chain == call_chain[pack.call]
             f == [at |-> "reply", call |-> pack.call, who |-> Back(chain),
                   pack |-> NoRequest, ok |-> TRUE]
  <2>1. Reads(a, "RESPONSE")
    BY <1>3 DEF ReadResponse
  <2>2. pack \in Response /\ pack.call \in CallIds
    BY <2>1, ReadsFacts, PackKinds DEF Response
  <2>3. /\ Len(chain) >= 2
        /\ call_chain' = [call_chain EXCEPT ![pack.call] = Popped(@)]
        /\ Transmit(Back(Popped(chain)), pack)
        /\ AwaitWrite(a, f)
        /\ UNCHANGED <<actor_info, actor_info_map, link>>
    BY <1>3 DEF ReadResponse
  <2>4. chain \in Seq(Actors) /\ chain # <<>>
    BY <2>2, <2>3
  <2>5. /\ Popped(chain) \in Seq(Actors) /\ Len(Popped(chain)) = Len(chain) - 1
        /\ Back(chain) \in Actors
    BY <2>4, PoppedFacts
  <2>6. Popped(chain) # <<>>
    BY <2>3, <2>4, <2>5
  <2>7. Back(Popped(chain)) \in Actors
    BY <2>5, <2>6, PoppedFacts
  <2>8. call_chain' \in [CallIds -> Seq(Actors)]
    BY <2>2, <2>3, <2>5
  <2>9. pack \in DownPack
    BY <2>2 DEF DownPack
  <2>10. down' \in [Actors -> Seq(DownPack)]
    BY <2>3, <2>7, <2>9, TransmitTyped
  <2>11. f \in Frame /\ FrameSet(f)
    BY <2>2, <2>5 DEF Frame, FrameSet
  <2> HIDE DEF f
  <2>12. coro' \in [Actors -> Frame] /\ runq' \in Seq(Actors) /\ FramesRight'
    BY <2>1, <2>3, <2>11, ReadsFacts, AwaitTyped
  <2>13. up' \in [Actors -> Seq(UpPack)]
    BY <2>1, ReadsFacts
  <2> QED
    BY <2>3, <2>8, <2>10, <2>12, <2>13, TypedProxy
<1>4. CASE ReadEof(a)
  <2>1. runq # <<>> /\ coro' = [coro EXCEPT ![a] = Idle("closed")] /\ runq' = Tail(runq)
    BY <1>4 DEF ReadEof, Resumes
  <2>2. Idle("closed") \in Frame /\ FrameSet(Idle("closed"))
    BY IdleFrame
  <2>3. coro' \in [Actors -> Frame] /\ \A b \in Actors : FrameSet(coro'[b])
    BY <2>1, <2>2
  <2>4. FramesRight'
    BY <2>3 DEF FramesRight, FrameSet
  <2>5. runq' \in Seq(Actors)
    BY <2>1, TailFacts
  <2> QED
    BY <1>4, <2>3, <2>4, <2>5, TypedProxy DEF ReadEof
<1> QED
  BY <1>1, <1>2, <1>3, <1>4

\* No chain becomes empty in HandleRequest.
LEMMA HandleKeeps ==
  ASSUME Typed, NEW m \in MapsType, NEW a \in Actors, NEW call \in CallIds,
         m.chain[call] # <<>>, NEW r, r = HandleRequest(m, a)
  PROVE  r.maps.chain[call] # <<>>
<1>1. Handled(m, a, r)
  BY TypedParts, HandleFacts
<1>2. ASSUME NEW queues, NEW p, Forwarded(queues, m.chain, p, r)
      PROVE  r.maps.chain[call] # <<>>
  <2>1. PICK to \in Actors :
          r.maps.chain = [m.chain EXCEPT ![p.call] = Append(@, to)]
    BY <1>2 DEF Forwarded
  <2> DEFINE s == m.chain[call]
  <2>2. s \in Seq(Actors) /\ m.chain \in [CallIds -> Seq(Actors)]
    BY MapsFields
  <2>3. Append(s, to) # <<>>
    <3> HIDE DEF s
    <3> QED
      BY <2>2, AppendFacts
  <2> QED
    BY <2>1, <2>2, <2>3
<1> QED
  BY <1>1, <1>2 DEF Handled

LEMMA TypedWritten ==
  ASSUME Typed, NEW a \in Actors,
         ConnackWritten(a) \/ RequestDone(a) \/ ReplyWritten(a) \/ SelfDone(a),
         UNCHANGED <<ctx, clients, crashes>>
  PROVE  Typed'
<1> USE TypedParts
<1>0. runq # <<>> /\ up' = up /\ link' = link /\ actor_info_map' = actor_info_map
  BY DEF ConnackWritten, RequestDone, ReplyWritten, SelfDone, Resumes
<1>1. CASE ConnackWritten(a)
  <2>1. coro' \in [Actors -> Frame] /\ runq' \in Seq(Actors) /\ FramesRight'
    BY <1>0, <1>1, AwaitTyped DEF ConnackWritten
  <2> QED
    BY <1>0, <1>1, <2>1, TypedProxy DEF ConnackWritten
<1>2. CASE RequestDone(a)
  <2>1. coro' \in [Actors -> Frame] /\ runq' \in Seq(Actors) /\ FramesRight'
    BY <1>0, <1>2, AwaitTyped DEF RequestDone
  <2>2. coro[a] \in Frame /\ coro[a].who \in Actors /\ coro[a].pack \in Request
    BY <1>2 DEF RequestDone, Resumes, FrameSet
  <2>3. RequestWritten(Maps, coro[a]) \in MapsType
    BY <2>2, RequestWrittenFacts
  <2>4. /\ actor_info' = RequestWritten(Maps, coro[a]).info
        /\ call_chain' = RequestWritten(Maps, coro[a]).chain
    BY <1>2 DEF RequestDone
  <2>5. actor_info' \in [Actors -> Info] /\ call_chain' \in [CallIds -> Seq(Actors)]
    BY <2>3, <2>4, MapsFields
  <2>6. down' \in [Actors -> Seq(DownPack)]
    BY <1>2 DEF RequestDone
  <2> QED
    BY <1>0, <2>1, <2>5, <2>6, TypedProxy
<1>3. CASE ReplyWritten(a)
  <2> DEFINE call == coro[a].call
             m == UpdateActorInfo(Maps, coro[a].who, NoCall, FALSE)
             r == HandleRequest(m, coro[a].who)
  <2>1. call \in CallIds /\ coro[a].who \in Actors /\ call_chain[call] # <<>>
    BY <1>3 DEF ReplyWritten, Resumes, FrameSet
  <2>2. m \in MapsType /\ m.chain = call_chain
    BY <2>1, UpdateFacts
  <2>3. /\ r \in ResultType /\ (r.writes => r.to \in Actors /\ r.pack \in Request)
    BY <2>1, <2>2, HandleFacts
  <2>4. IF r.writes THEN Suspend(a, r, "self", call) ELSE ResumeCaller(a, r.maps, call)
    BY <1>3 DEF ReplyWritten
  <2>6. r.maps.chain[call] # <<>>
    BY <2>1, <2>2, HandleKeeps
  <2> HIDE DEF m, r
  <2>5. r.maps \in MapsType
    BY <2>3 DEF ResultType
  <2>7. CASE r.writes
    BY <1>0, <2>1, <2>3, <2>4, <2>7, SuspendTyped, TypedProxy
  <2>8. CASE ~r.writes
    BY <1>0, <2>1, <2>4, <2>5, <2>6, <2>8, ResumeTyped, TypedProxy
  <2> QED
    BY <2>7, <2>8
<1>4. CASE SelfDone(a)
  <2> DEFINE m == RequestWritten(Maps, coro[a])
  <2>1. /\ coro[a] \in Frame /\ coro[a].call \in CallIds
        /\ coro[a].who \in Actors /\ coro[a].pack \in Request
        /\ call_chain[coro[a].call] # <<>>
        /\ ResumeCaller(a, m, coro[a].call)
    BY <1>4 DEF SelfDone, Resumes, FrameSet
  <2>2. m \in MapsType /\ m.chain = call_chain
    BY <2>1, RequestWrittenFacts
  <2> HIDE DEF m
  <2> QED
    BY <1>0, <2>1, <2>2, ResumeTyped, TypedProxy
<1> QED
  BY <1>1, <1>2, <1>3, <1>4

LEMMA TypedProxyStep ==
  ASSUME Typed, NEW a \in Actors, Proxies(a)
  PROVE  Typed'
<1> USE TypedParts
<1>0. UNCHANGED <<ctx, clients, crashes>>
  BY DEF Proxies
<1>1. CASE Accept(a)
  <2>1. Idle("read") \in Frame /\ FrameSet(Idle("read"))
    BY IdleFrame
  <2>2. coro' \in [Actors -> Frame] /\ \A b \in Actors : FrameSet(coro'[b])
    BY <1>1, <2>1 DEF Accept
  <2>3. FramesRight'
    BY <2>2 DEF FramesRight, FrameSet
  <2> QED
    BY <1>0, <1>1, <2>2, <2>3, TypedProxy DEF Accept
<1>2. CASE Arrive(a)
  <2>1. runq' \in Seq(Actors)
    BY <1>2, AppendFacts DEF Arrive
  <2>2. FramesRight'
    BY <1>2 DEF Arrive, FramesRight, FrameSet
  <2> QED
    BY <1>0, <1>2, <2>1, <2>2, TypedProxy DEF Arrive
<1> QED
  BY <1>0, <1>1, <1>2, TypedReads, TypedWritten DEF Proxies, ProxyStep

\* The steps of the actors leave the proxy's maps and coroutines alone.
LEMMA TypedActor ==
  ASSUME Typed, NEW a \in Actors, NEW x \in Ctx,
         ctx' = [ctx EXCEPT ![a] = x],
         UNCHANGED <<actor_info, actor_info_map, call_chain, coro, runq>>,
         link' \in [Actors -> {"none", "open", "cut"}],
         up' \in [Actors -> Seq(UpPack)], down' \in [Actors -> Seq(DownPack)],
         clients' \in 0 .. MaxClients, crashes' \in 0 .. MaxCrashes
  PROVE  Typed'
<1>1. ctx' \in [Actors -> Ctx]
  BY TypedParts
<1>2. FramesRight'
  BY DEF Typed, FramesRight, FrameSet
<1> QED
  BY <1>1, <1>2 DEF Typed, TypeOK, ProxyTypeOK, UpPack, DownPack

LEMMA CtxFields ==
  ASSUME NEW x \in Ctx
  PROVE  /\ x.inbox \in Seq(Msg) /\ x.job \in Msg \cup {NoMsg}
         /\ x.call_id \in CallIds \cup {NoCall} /\ x.seq \in 0 .. SeqSize - 1
         /\ x.sends \in 0 .. MaxSends /\ x.pending \in Reqs \cup {NoReq}
  BY DEF Ctx

LEMMA TypedConnects ==
  ASSUME Typed, NEW a \in Actors,
         ActorConnect(a) \/ ReceiveConnack(a) \/ ReceiveRequest(a)
           \/ ReceiveResponse(a)
  PROVE  Typed'
<1> USE TypedParts
<1>0. /\ UNCHANGED <<actor_info, actor_info_map, call_chain, coro, runq>>
      /\ UNCHANGED <<clients, crashes>>
      /\ clients' \in 0 .. MaxClients /\ crashes' \in 0 .. MaxCrashes
  BY DEF ActorConnect, ReceiveConnack, ReceiveRequest, ReceiveResponse, Receives,
         Typed, TypeOK
<1>1. ctx[a] \in Ctx
  OBVIOUS
<1>2. CASE ActorConnect(a)
  <2> DEFINE x == [ctx[a] EXCEPT !.phase = "connecting"]
  <2>1. x \in Ctx /\ ctx' = [ctx EXCEPT ![a] = x]
    BY <1>1, <1>2 DEF ActorConnect, Ctx
  <2>2. <<Connect>> \in Seq(UpPack)
    BY DEF UpPack
  <2>3. /\ link' \in [Actors -> {"none", "open", "cut"}]
        /\ up' \in [Actors -> Seq(UpPack)] /\ down' \in [Actors -> Seq(DownPack)]
    BY <1>2, <2>2 DEF ActorConnect
  <2> HIDE DEF x
  <2> QED
    BY <1>0, <2>1, <2>3, TypedActor
<1>3. CASE ReceiveConnack(a)
  <2> DEFINE x == [ctx[a] EXCEPT !.phase = "up"]
  <2>1. x \in Ctx /\ ctx' = [ctx EXCEPT ![a] = x]
    BY <1>1, <1>3 DEF ReceiveConnack, Ctx
  <2>2. down' \in [Actors -> Seq(DownPack)]
    BY <1>3, TailTyped DEF ReceiveConnack
  <2> HIDE DEF x
  <2> QED
    BY <1>0, <1>3, <2>1, <2>2, TypedActor DEF ReceiveConnack
<1>4. CASE ReceiveRequest(a)
  <2> DEFINE s == Append(ctx[a].inbox, Head(down[a]))
             x == [ctx[a] EXCEPT !.call_id = NoCall, !.inbox = s]
  <2>1. down[a] # <<>> /\ Head(down[a]).type = "REQUEST"
    BY <1>4 DEF ReceiveRequest, Receives, IsNext
  <2>2. Head(down[a]) \in DownPack
    BY <2>1, TailFacts
  <2>3. Head(down[a]) \in Msg
    BY <2>1, <2>2, PackKinds DEF Msg
  <2>4. s \in Seq(Msg)
    BY <1>1, <2>3, CtxFields, AppendFacts
  <2>5. ctx' = [ctx EXCEPT ![a] = x]
    BY <1>4 DEF ReceiveRequest, Ctx
  <2> HIDE DEF s
  <2>6. x \in Ctx
    BY <1>1, <2>4 DEF Ctx
  <2>7. down' \in [Actors -> Seq(DownPack)]
    BY <1>4, <2>1, TailTyped DEF ReceiveRequest, Receives
  <2> HIDE DEF x
  <2> QED
    BY <1>0, <1>4, <2>5, <2>6, <2>7, TypedActor DEF ReceiveRequest, Receives
<1>5. CASE ReceiveResponse(a)
  <2> DEFINE x == [ctx[a] EXCEPT !.pending = NoReq]
  <2>1. x \in Ctx /\ ctx' = [ctx EXCEPT ![a] = x]
    BY <1>1, <1>5 DEF ReceiveResponse, Ctx
  <2>2. down' \in [Actors -> Seq(DownPack)]
    BY <1>5, TailTyped DEF ReceiveResponse, Receives
  <2> HIDE DEF x
  <2> QED
    BY <1>0, <1>5, <2>1, <2>2, TypedActor DEF ReceiveResponse, Receives
<1> QED
  BY <1>2, <1>3, <1>4, <1>5

\* The call id, the number and the pack of a request that send() writes.
NextSeq(a) ==
  IF ctx[a].call_id = NoCall THEN (ctx[a].seq + 1) % SeqSize ELSE ctx[a].seq
SentCall(a) ==
  IF ctx[a].call_id = NoCall THEN <<a, NextSeq(a)>> ELSE ctx[a].call_id
SentReq(a) == <<a, ctx[a].sends + 1>>
SentPack(a, s) ==
  [type |-> "REQUEST", pid |-> a, call |-> SentCall(a), svc |-> s,
   req |-> SentReq(a)]
\* The context of the sender afterwards, apart from how the write went.
Sent(a) ==
  [ctx[a] EXCEPT !.call_id = SentCall(a), !.seq = NextSeq(a), !.sends = @ + 1]

LEMMA SendFacts ==
  ASSUME Typed, NEW a \in Actors, NEW s \in Services, Send(a, s)
  PROVE  /\ SentPack(a, s) \in Request /\ SentReq(a) \in Reqs
         /\ SentCall(a) \in CallIds
         /\ Sent(a) \in Ctx /\ Sent(a).sends = ctx[a].sends + 1
         /\ Sent(a).phase = ctx[a].phase /\ ctx[a].phase = "up"
         /\ Sent(a).inbox = ctx[a].inbox /\ Sent(a).job = ctx[a].job
         /\ IF link[a] = "open"
            THEN /\ ctx' = [ctx EXCEPT ![a] = [Sent(a) EXCEPT !.pending = SentReq(a)]]
                 /\ up' = [up EXCEPT ![a] = Append(@, SentPack(a, s))]
            ELSE /\ ctx' = [ctx EXCEPT ![a] = [Sent(a) EXCEPT !.error = TRUE]]
                 /\ up' = up
         /\ UNCHANGED <<actor_info, actor_info_map, call_chain, coro, runq, link,
                        down, clients, crashes>>
<1>1. ctx[a] \in Ctx /\ ctx \in [Actors -> Ctx]
  BY TypedParts
<1>2. ctx[a].sends < MaxSends /\ ctx[a].phase = "up"
  BY DEF Send, Serving
<1>3. MaxSends \in Nat /\ SeqSize \in Nat /\ SeqSize > 0
  BY ConstantsAssumption
<1>4. ctx[a].sends + 1 \in 1 .. MaxSends
  BY <1>1, <1>2, <1>3, CtxFields
<1>5. NextSeq(a) \in 0 .. SeqSize - 1
  <2>1. ctx[a].seq \in 0 .. SeqSize - 1
    BY <1>1, CtxFields
  <2>2. (ctx[a].seq + 1) % SeqSize \in 0 .. SeqSize - 1
    BY <1>3, <2>1
  <2> QED
    BY <2>1, <2>2 DEF NextSeq
<1>6. SentCall(a) \in CallIds
  BY <1>1, <1>5, CtxFields DEF SentCall, CallIds
<1>7. SentReq(a) \in Reqs
  BY <1>4 DEF SentReq, Reqs
<1>8. SentPack(a, s) \in Request
  BY <1>6, <1>7 DEF SentPack, Request
<1>9. /\ Sent(a) \in Ctx /\ Sent(a).sends = ctx[a].sends + 1
      /\ Sent(a).phase = ctx[a].phase
      /\ Sent(a).inbox = ctx[a].inbox /\ Sent(a).job = ctx[a].job
  <2>1. ctx[a].sends + 1 \in 0 .. MaxSends
    BY <1>4
  <2> QED
    BY <1>1, <1>5, <1>6, <2>1 DEF Sent, Ctx
<1>10. IF link[a] = "open"
       THEN /\ ctx' = [ctx EXCEPT ![a] = [Sent(a) EXCEPT !.pending = SentReq(a)]]
            /\ up' = [up EXCEPT ![a] = Append(@, SentPack(a, s))]
       ELSE /\ ctx' = [ctx EXCEPT ![a] = [Sent(a) EXCEPT !.error = TRUE]]
            /\ up' = up
  BY <1>1 DEF Send, Sent, SentPack, SentReq, SentCall, NextSeq, Ctx
<1> QED
  BY <1>2, <1>6, <1>7, <1>8, <1>9, <1>10 DEF Send

\* The response that answers a request.
AnswerTo(job) == [type |-> "RESPONSE", call |-> job.call, req |-> job.req]

LEMMA AnswerFacts ==
  ASSUME NEW job \in Request
  PROVE  /\ AnswerTo(job) \in Response /\ AnswerTo(job).type = "RESPONSE"
         /\ AnswerTo(job).call = job.call /\ AnswerTo(job).req = job.req
  BY DEF AnswerTo, Request, Response

LEMMA FinishFacts ==
  ASSUME Typed, NEW a \in Actors, Finish(a)
  PROVE  /\ ctx[a].phase = "up" /\ ctx[a].job \in Msg
         /\ ctx' = [ctx EXCEPT ![a] = [ctx[a] EXCEPT !.job = NoMsg,
                                        !.call_id = NoCall, !.error = FALSE]]
         /\ UNCHANGED <<actor_info, actor_info_map, call_chain, coro, runq,
                        clients, crashes>>
         /\ \/ UNCHANGED <<link, up, down>>
            \/ /\ link' = [link EXCEPT ![a] = "cut"]
               /\ down' = [down EXCEPT ![a] = <<>>]
               /\ up' = up
            \/ /\ ctx[a].job \in Request
               /\ up' = [up EXCEPT ![a] = Append(@, AnswerTo(ctx[a].job))]
               /\ UNCHANGED <<link, down>>
<1>1. /\ ctx[a].phase = "up" /\ ctx[a].job # NoMsg /\ ctx \in [Actors -> Ctx]
  BY TypedParts DEF Finish, Serving
<1>2. ctx[a].job \in Msg
  BY <1>1, CtxFields
<1>3. /\ UNCHANGED <<actor_info, actor_info_map, call_chain, coro, runq,
                     clients, crashes>>
      /\ ctx' = [ctx EXCEPT ![a] = [ctx[a] EXCEPT !.job = NoMsg,
                                     !.call_id = NoCall, !.error = FALSE]]
  BY <1>1 DEF Finish
<1>4. CASE ctx[a].job.type = "CLIENT"
  <2>1. UNCHANGED <<link, up, down>>
    BY <1>4 DEF Finish
  <2> QED
    BY <1>1, <1>2, <1>3, <2>1
<1>5. CASE ctx[a].job.type # "CLIENT"
  <2>1. ctx[a].job \in Request
    BY <1>2, <1>5, PackKinds
  <2>2. CASE ctx[a].error
    <3>1. /\ link' = [link EXCEPT ![a] = "cut"]
          /\ down' = [down EXCEPT ![a] = <<>>]
          /\ up' = up
      BY <1>5, <2>2 DEF Finish
    <3> QED
      BY <1>1, <1>2, <1>3, <3>1
  <2>3. CASE ~ctx[a].error
    <3>1. /\ up' = [up EXCEPT ![a] = Append(@, AnswerTo(ctx[a].job))]
          /\ UNCHANGED <<link, down>>
      BY <1>5, <2>3 DEF Finish, AnswerTo
    <3> QED
      BY <1>1, <1>2, <1>3, <2>1, <3>1
  <2> QED
    BY <2>2, <2>3
<1> QED
  BY <1>4, <1>5

LEMMA TypedWorker ==
  ASSUME Typed, NEW a \in Actors,
         \/ SkipStale(a) \/ StartJob(a) \/ Finish(a)
         \/ \E s \in Services : SendRefused(a, s) \/ Send(a, s)
  PROVE  Typed'
<1> USE TypedParts
<1>0. /\ UNCHANGED <<actor_info, actor_info_map, call_chain, coro, runq>>
      /\ UNCHANGED <<clients, crashes>>
      /\ clients' \in 0 .. MaxClients /\ crashes' \in 0 .. MaxCrashes
  BY DEF SkipStale, StartJob, Finish, SendRefused, Send, Typed, TypeOK, proxyVars
<1>1. /\ ctx[a] \in Ctx /\ ctx[a].inbox \in Seq(Msg)
      /\ ctx[a].job \in Msg \cup {NoMsg}
  BY CtxFields
<1>2. CASE SkipStale(a)
  <2> DEFINE s == Tail(ctx[a].inbox)
             x == [ctx[a] EXCEPT !.inbox = s]
  <2>1. s \in Seq(Msg)
    BY <1>1, <1>2, TailFacts DEF SkipStale, TakesMsg
  <2>2. ctx' = [ctx EXCEPT ![a] = x]
    BY <1>2 DEF SkipStale
  <2> HIDE DEF s
  <2>3. x \in Ctx
    BY <1>1, <2>1 DEF Ctx
  <2> HIDE DEF x
  <2> QED
    BY <1>0, <1>2, <2>2, <2>3, TypedActor DEF SkipStale, proxyVars
<1>3. CASE StartJob(a)
  <2> DEFINE s == Tail(ctx[a].inbox)
             msg == Head(ctx[a].inbox)
             x == [ctx[a] EXCEPT !.inbox = s, !.job = msg, !.call_id = msg.call]
  <2>1. s \in Seq(Msg) /\ msg \in Msg
    BY <1>1, <1>3, TailFacts DEF StartJob, TakesMsg
  <2>2. ctx' = [ctx EXCEPT ![a] = x]
    BY <1>3 DEF StartJob, Ctx
  <2>3. msg.call \in CallIds \cup {NoCall}
    BY <2>1 DEF Msg, Request, ClientMsg
  <2> HIDE DEF s, msg
  <2>4. x \in Ctx
    BY <1>1, <2>1, <2>3 DEF Ctx
  <2> HIDE DEF x
  <2> QED
    BY <1>0, <1>3, <2>2, <2>4, TypedActor DEF StartJob, proxyVars
<1>4. ASSUME NEW s \in Services, SendRefused(a, s)
      PROVE  Typed'
  <2> DEFINE x == [ctx[a] EXCEPT !.error = TRUE]
  <2>1. ctx' = [ctx EXCEPT ![a] = x] /\ x \in Ctx
    BY <1>1, <1>4 DEF SendRefused, Ctx
  <2> HIDE DEF x
  <2> QED
    BY <1>0, <1>4, <2>1, TypedActor DEF SendRefused, proxyVars
<1>5. ASSUME NEW s \in Services, Send(a, s)
      PROVE  Typed'
  <2>1. CASE link[a] = "open"
    <3> DEFINE x == [Sent(a) EXCEPT !.pending = SentReq(a)]
    <3>1. ctx' = [ctx EXCEPT ![a] = x] /\ Sent(a) \in Ctx /\ SentReq(a) \in Reqs
      BY <1>5, <2>1, SendFacts
    <3>4. x \in Ctx
      BY <3>1 DEF Ctx
    <3>2. SentPack(a, s) \in UpPack /\ up' = [up EXCEPT ![a] = Append(@, SentPack(a, s))]
      BY <1>5, <2>1, SendFacts DEF UpPack
    <3>3. up' \in [Actors -> Seq(UpPack)]
      BY <3>2, AppendTyped
    <3> HIDE DEF x
    <3> QED
      BY <1>0, <1>5, <3>1, <3>3, <3>4, SendFacts, TypedActor, ZenonT(30)
  <2>2. CASE link[a] # "open"
    <3> DEFINE x == [Sent(a) EXCEPT !.error = TRUE]
    <3>1. ctx' = [ctx EXCEPT ![a] = x] /\ up' = up /\ Sent(a) \in Ctx
      BY <1>5, <2>2, SendFacts
    <3>2. x \in Ctx
      BY <3>1 DEF Ctx
    <3> HIDE DEF x
    <3> QED
      BY <1>0, <1>5, <3>1, <3>2, SendFacts, TypedActor, ZenonT(30)
  <2> QED
    BY <2>1, <2>2
<1>6. CASE Finish(a)
  <2> DEFINE x == [ctx[a] EXCEPT !.job = NoMsg, !.call_id = NoCall, !.error = FALSE]
             job == ctx[a].job
  <2>1. ctx' = [ctx EXCEPT ![a] = x]
    BY <1>6, FinishFacts
  <2>2. x \in Ctx
    BY <1>1 DEF Ctx
  <2>3. job \in Request => AnswerTo(job) \in UpPack
    BY AnswerFacts DEF UpPack
  <2>4. job \in Request =>
          [up EXCEPT ![a] = Append(@, AnswerTo(job))] \in [Actors -> Seq(UpPack)]
    BY <2>3, AppendTyped
  <2>5. <<>> \in Seq(DownPack)
    OBVIOUS
  <2>6. [down EXCEPT ![a] = <<>>] \in [Actors -> Seq(DownPack)]
    BY <2>5
  <2>7. [link EXCEPT ![a] = "cut"] \in [Actors -> {"none", "open", "cut"}]
    OBVIOUS
  <2>8. /\ link' \in [Actors -> {"none", "open", "cut"}]
        /\ up' \in [Actors -> Seq(UpPack)] /\ down' \in [Actors -> Seq(DownPack)]
    BY <1>6, <2>4, <2>6, <2>7, FinishFacts
  <2> HIDE DEF x
  <2> QED
    BY <1>0, <2>1, <2>2, <2>8, TypedActor
<1> QED
  BY <1>2, <1>3, <1>4, <1>5, <1>6

LEMMA TypedEnvironment ==
  ASSUME Typed, NEW a \in Actors,
         Crash(a) \/ \E s \in Services : ClientRequest(a, s)
  PROVE  Typed'
<1> USE TypedParts
<1>1. /\ ctx[a] \in Ctx /\ ctx[a].inbox \in Seq(Msg)
      /\ clients \in 0 .. MaxClients /\ crashes \in 0 .. MaxCrashes
      /\ MaxClients \in Nat /\ MaxCrashes \in Nat
  BY CtxFields, CallConstantsAssumption DEF Typed, TypeOK
<1>2. CASE Crash(a)
  <2> DEFINE x == [ctx[a] EXCEPT !.phase = "dead", !.inbox = <<>>, !.job = NoMsg,
                                 !.pending = NoReq, !.call_id = NoCall]
  <2>4. <<>> \in Seq(Msg) /\ NoMsg \in Msg \cup {NoMsg}
        /\ NoReq \in Reqs \cup {NoReq} /\ NoCall \in CallIds \cup {NoCall}
    OBVIOUS
  <2>1. x \in Ctx
    BY ONLY <1>1, <2>4 DEF Ctx
  <2>3. ctx' = [ctx EXCEPT ![a] = x]
    BY <1>2 DEF Crash
  <2>2. /\ link' \in [Actors -> {"none", "open", "cut"}]
        /\ down' \in [Actors -> Seq(DownPack)] /\ crashes' \in 0 .. MaxCrashes
    BY <1>1, <1>2 DEF Crash
  <2> HIDE DEF x
  <2> QED
    BY <1>1, <1>2, <2>1, <2>2, <2>3, TypedActor DEF Crash
<1>3. ASSUME NEW s \in Services, ClientRequest(a, s)
      PROVE  Typed'
  <2> DEFINE msg == [type |-> "CLIENT", call |-> NoCall, svc |-> s]
             q == Append(ctx[a].inbox, msg)
             x == [ctx[a] EXCEPT !.inbox = q]
  <2>1. msg \in Msg
    BY DEF Msg, ClientMsg
  <2>2. q \in Seq(Msg)
    BY <1>1, <2>1, AppendFacts
  <2>3. ctx' = [ctx EXCEPT ![a] = x]
    BY <1>3 DEF ClientRequest
  <2> HIDE DEF q
  <2>4. x \in Ctx
    BY <1>1, <2>2 DEF Ctx
  <2>5. clients' \in 0 .. MaxClients
    BY <1>1, <1>3 DEF ClientRequest
  <2> HIDE DEF x
  <2> QED
    BY <1>1, <1>3, <2>3, <2>4, <2>5, TypedActor DEF ClientRequest, proxyVars
<1> QED
  BY <1>2, <1>3

LEMMA TypedInit == Init => Typed
<1> SUFFICES ASSUME Init PROVE Typed
  OBVIOUS
<1>1. /\ actor_info \in [Actors -> Info] /\ actor_info_map \in [Nodes -> Seq(Actors)]
      /\ call_chain \in [CallIds -> Seq(Actors)] /\ runq \in Seq(Actors)
      /\ link \in [Actors -> {"none", "open", "cut"}]
      /\ up \in [Actors -> Seq({Connect} \cup Request \cup Response)]
      /\ down \in [Actors -> Seq({Connack} \cup Request \cup Response)]
  BY DEF Init, ProxyInit, Info
<1>2. Idle("accept") \in Frame /\ FrameSet(Idle("accept"))
  BY IdleFrame
<1>3. coro \in [Actors -> Frame] /\ FramesRight
  BY <1>2 DEF Init, ProxyInit, FramesRight
<1>4. ctx \in [Actors -> Ctx]
  BY ConstantsAssumption DEF Init, Ctx
<1>5. clients \in 0 .. MaxClients /\ crashes \in 0 .. MaxCrashes
  BY CallConstantsAssumption DEF Init
<1> QED
  BY <1>1, <1>3, <1>4, <1>5 DEF Typed, TypeOK, ProxyTypeOK

LEMMA TypedStep == Typed /\ [Next]_vars => Typed'
<1> SUFFICES ASSUME Typed, [Next]_vars PROVE Typed'
  OBVIOUS
<1>1. CASE UNCHANGED vars
  BY <1>1 DEF vars, proxyVars, Typed, TypeOK, ProxyTypeOK, FramesRight, FrameSet
<1>2. CASE Next
  BY <1>2, TypedProxyStep, TypedConnects, TypedWorker, TypedEnvironment
     DEF Next, ActorStep, ActorRuns
<1> QED
  BY <1>1, <1>2

\* Every variable of the proxy and the actors keeps its type, for any
\* processes, services and call graph; a coroutine of the proxy that resumes
\* after a write finds the fields of its frame set.
THEOREM CallSystemTypes == Spec => []TypeOK
<1>1. Typed => TypeOK
  BY DEF Typed
<1> QED
  BY TypedInit, TypedStep, <1>1, PTL DEF Spec

-----------------------------------------------------------------------------
(* The CONNACK comes first.  A process is acked when it has read its       *)
(* CONNACK or would read it next; whoever the proxy may write to is.       *)

Acked(a) ==
  \/ ctx[a].phase \in {"up", "dead"}
  \/ ctx[a].phase = "connecting" /\ down[a] # <<>> /\ Head(down[a]) = Connack

\* Chains of processes that the proxy may answer.
AckedChains(chain) ==
  \A c \in CallIds : \A i \in DOMAIN chain[c] : Acked(chain[c][i])

AckedPeers ==
  \A n \in Nodes : \A i \in DOMAIN actor_info_map[n] : Acked(actor_info_map[n][i])

\* A request comes from the process whose pid it carries, which is acked.
AckedAsk ==
  \A a \in Actors : \A i \in DOMAIN up[a] : up[a][i].type = "REQUEST" =>
    up[a][i].pid = a /\ ctx[a].phase \in {"up", "dead"}

AckInv ==
  /\ AckedPeers
  /\ AckedChains(call_chain)
  /\ AckedAsk
  /\ \A a \in Actors : ~Acked(a) => down[a] = <<>>
  /\ \A a \in Actors : ctx[a].phase = "start" => up[a] = <<>>
  /\ \A a \in Actors : ctx[a].phase = "connecting" => link[a] = "open"

\* Bytes taken from the front of a connection, or nothing.
Drained(f, g) ==
  \A a \in Actors : g[a] = f[a] \/ (f[a] # <<>> /\ g[a] = Tail(f[a]))

LEMMA DrainedElements ==
  ASSUME NEW S, NEW f \in [Actors -> Seq(S)], NEW g, Drained(f, g),
         NEW a \in Actors, NEW i \in DOMAIN g[a]
  PROVE  \E j \in DOMAIN f[a] : g[a][i] = f[a][j]
<1>1. CASE g[a] = f[a]
  BY <1>1
<1>2. CASE f[a] # <<>> /\ g[a] = Tail(f[a])
  <2>1. i \in 1 .. Len(f[a]) - 1 /\ g[a][i] = f[a][i + 1] /\ DOMAIN f[a] = 1 .. Len(f[a])
    BY <1>2, TailFacts
  <2>2. i + 1 \in DOMAIN f[a]
    BY <2>1
  <2> QED
    BY <2>1, <2>2
<1> QED
  BY <1>1, <1>2 DEF Drained

\* What the proxy sends to an acked process leaves everybody acked.
LEMMA TransmitAcked ==
  ASSUME Typed, AckInv, ctx' = ctx, NEW t \in Actors, NEW p \in DownPack,
         Transmit(t, p), Acked(t)
  PROVE  /\ \A b \in Actors : Acked(b) => Acked(b)'
         /\ \A b \in Actors : ~Acked(b)' => down'[b] = <<>>
<1>1. down \in [Actors -> Seq(DownPack)]
  BY TypedParts
<1>2. CASE link[t] # "open"
  BY <1>2 DEF Transmit, Acked, AckInv
<1>3. CASE link[t] = "open"
  <2>1. down' = [down EXCEPT ![t] = Append(@, p)]
    BY <1>3 DEF Transmit
  <2>2. /\ down'[t] # <<>>
        /\ down[t] # <<>> => Head(down'[t]) = Head(down[t])
    BY <1>1, <2>1, AppendFacts
  <2>3. \A b \in Actors \ {t} : down'[b] = down[b]
    BY <1>1, <2>1
  <2>4. ASSUME NEW b \in Actors, Acked(b) PROVE Acked(b)'
    BY <2>2, <2>3, <2>4 DEF Acked
  <2>5. ASSUME NEW b \in Actors, ~Acked(b)' PROVE down'[b] = <<>>
    <3>1. b # t /\ ~Acked(b)
      BY <2>4, <2>5
    <3> QED
      BY <2>3, <3>1 DEF AckInv
  <2> QED
    BY <2>4, <2>5
<1> QED
  BY <1>2, <1>3

\* A step of the proxy that registers nobody.
LEMMA AckProxy ==
  ASSUME Typed, AckInv, UNCHANGED <<ctx, link, actor_info_map>>, Drained(up, up'),
         call_chain' \in [CallIds -> Seq(Actors)], AckedChains(call_chain'),
         \/ down' = down
         \/ \E t \in Actors : \E p \in DownPack : Acked(t) /\ Transmit(t, p)
  PROVE  AckInv'
<1>1. /\ \A b \in Actors : Acked(b) => Acked(b)'
      /\ \A b \in Actors : ~Acked(b)' => down'[b] = <<>>
  <2>1. CASE down' = down
    BY <2>1 DEF AckInv, Acked
  <2> QED
    BY <2>1, TransmitAcked
<1>2. AckedPeers'
  BY <1>1, TypedParts DEF AckInv, AckedPeers
<1>3. AckedChains(call_chain)'
  BY <1>1 DEF AckedChains
<1>4. up \in [Actors -> Seq(UpPack)]
  BY TypedParts
<1>5. AckedAsk'
  <2>1. SUFFICES ASSUME NEW b \in Actors, NEW i \in DOMAIN up'[b],
                        up'[b][i].type = "REQUEST"
                 PROVE  up'[b][i].pid = b /\ ctx[b].phase \in {"up", "dead"}
    BY DEF AckedAsk
  <2>2. PICK j \in DOMAIN up[b] : up'[b][i] = up[b][j]
    BY <1>4, DrainedElements
  <2> QED
    BY <2>1, <2>2 DEF AckInv, AckedAsk
<1>6. \A b \in Actors : ctx'[b].phase = "start" => up'[b] = <<>>
  BY DEF AckInv, Drained
<1> QED
  BY <1>1, <1>2, <1>3, <1>5, <1>6 DEF AckInv

\* HandleRequest brings acked processes into the chains and writes to one.
LEMMA HandleAcked ==
  ASSUME Typed, AckInv, NEW m \in MapsType, AckedChains(m.chain),
         NEW a \in Actors, NEW r, r = HandleRequest(m, a)
  PROVE  /\ AckedChains(r.maps.chain)
         /\ r.writes => Acked(r.to)
<1>1. r \in ResultType /\ Handled(m, a, r)
  BY TypedParts, HandleFacts
<1>2. ASSUME NEW queues, NEW p, Forwarded(queues, m.chain, p, r)
      PROVE  AckedChains(r.maps.chain) /\ (r.writes => Acked(r.to))
  <2>1. PICK to \in Actors :
          /\ Registered(to)
          /\ r.maps.chain = [m.chain EXCEPT ![p.call] = Append(@, to)]
          /\ r.writes => r.to = to
    BY <1>2 DEF Forwarded
  <2>2. Acked(to)
    BY <2>1 DEF Registered, AckInv, AckedPeers
  <2>3. m.chain \in [CallIds -> Seq(Actors)]
    BY MapsFields
  <2>4. ASSUME NEW c \in CallIds, NEW i \in DOMAIN r.maps.chain[c]
        PROVE  Acked(r.maps.chain[c][i])
    <3>1. CASE c = p.call
      <4> DEFINE s == m.chain[c]
      <4>1. r.maps.chain[c] = Append(s, to) /\ s \in Seq(Actors)
        BY <2>1, <2>3, <3>1
      <4>2. \A j \in DOMAIN s : Acked(s[j])
        BY DEF AckedChains
      <4> HIDE DEF s
      <4>3. Append(s, to)[i] = to \/ \E j \in DOMAIN s : Append(s, to)[i] = s[j]
        BY <2>4, <4>1, AppendMembers
      <4> QED
        BY <2>2, <4>1, <4>2, <4>3
    <3>2. CASE c # p.call
      BY <2>1, <2>3, <2>4, <3>2 DEF AckedChains
    <3> QED
      BY <3>1, <3>2
  <2> QED
    BY <2>1, <2>2, <2>4 DEF AckedChains
<1>3. CASE r.maps.chain = m.chain /\ ~r.writes
  BY <1>3
<1> QED
  BY <1>1, <1>2, <1>3 DEF Handled

LEMMA AckSuspend ==
  ASSUME Typed, AckInv, NEW a \in Actors, NEW r \in ResultType, NEW at, NEW call,
         r.writes => r.to \in Actors /\ r.pack \in Request /\ Acked(r.to),
         AckedChains(r.maps.chain), Suspend(a, r, at, call),
         UNCHANGED <<ctx, link, actor_info_map>>, Drained(up, up')
  PROVE  AckInv'
<1>1. r.maps \in MapsType /\ call_chain' = r.maps.chain
  BY DEF ResultType, Suspend
<1>2. call_chain' \in [CallIds -> Seq(Actors)] /\ AckedChains(call_chain')
  BY <1>1, MapsFields
<1>3. \/ down' = down
      \/ \E t \in Actors : \E p \in DownPack : Acked(t) /\ Transmit(t, p)
  <2>1. CASE r.writes
    BY <2>1 DEF Suspend, DownPack
  <2>2. CASE ~r.writes
    BY <2>2 DEF Suspend
  <2> QED
    BY <2>1, <2>2
<1> QED
  BY <1>2, <1>3, AckProxy

LEMMA AckResume ==
  ASSUME Typed, AckInv, NEW a \in Actors, NEW m \in MapsType, NEW call \in CallIds,
         m.chain[call] # <<>>, AckedChains(m.chain), ResumeCaller(a, m, call),
         UNCHANGED <<ctx, link, actor_info_map>>, Drained(up, up')
  PROVE  AckInv'
<1> DEFINE r == HandleRequest(CallerFreed(m, call), Back(m.chain[call]))
<1>1. Suspend(a, r, "request", NoCall)
  BY DEF ResumeCaller, CallerFreed
<1>2. /\ Back(m.chain[call]) \in Actors /\ CallerFreed(m, call) \in MapsType
      /\ CallerFreed(m, call).chain = m.chain
  BY CallerFreedFacts
<1>3. r \in ResultType /\ (r.writes => r.to \in Actors /\ r.pack \in Request)
  BY <1>2, TypedParts, HandleFacts
<1>4. AckedChains(r.maps.chain) /\ (r.writes => Acked(r.to))
  BY <1>2, HandleAcked
<1> HIDE DEF r
<1> QED
  BY <1>1, <1>3, <1>4, AckSuspend

LEMMA DrainedSame ==
  ASSUME NEW f
  PROVE  Drained(f, f)
  BY DEF Drained

LEMMA DrainedTail ==
  ASSUME Typed, NEW a \in Actors, NEW type, Reads(a, type)
  PROVE  Drained(up, up')
  BY ReadsFacts, TypedParts DEF Drained

\* A process that has just connected is acked with the step that registers it.
LEMMA AckConnect ==
  ASSUME Typed, AckInv, NEW a \in Actors, ReadConnect(a), ctx' = ctx
  PROVE  AckInv'
<1>1. /\ Reads(a, "CONNECT") /\ Transmit(a, Connack)
      /\ actor_info_map' = [actor_info_map EXCEPT ![NodeOf[a]] = Append(@, a)]
      /\ UNCHANGED <<call_chain, link>>
  BY DEF ReadConnect
<1>2. up[a] # <<>> /\ Drained(up, up') /\ up \in [Actors -> Seq(UpPack)]
  BY <1>1, ReadsFacts, DrainedTail, TypedParts
<1>3. ctx[a] \in Ctx /\ down \in [Actors -> Seq(DownPack)] /\ Connack \in DownPack
  BY TypedParts DEF DownPack
<1>4. /\ \A b \in Actors : Acked(b) => Acked(b)'
      /\ \A b \in Actors : ~Acked(b)' => down'[b] = <<>>
      /\ Acked(a)'
  <2>1. CASE Acked(a)
    BY <1>1, <1>3, <2>1, TransmitAcked
  <2>2. CASE ~Acked(a)
    <3>1. ctx[a].phase = "connecting" /\ link[a] = "open" /\ down[a] = <<>>
      BY <1>2, <1>3, <2>2 DEF AckInv, Acked, Ctx
    <3>2. down' = [down EXCEPT ![a] = <<Connack>>]
      BY <1>1, <1>3, <3>1 DEF Transmit
    <3>3. Acked(a)'
      BY <1>3, <3>1, <3>2 DEF Acked
    <3>4. \A b \in Actors \ {a} : down'[b] = down[b]
      BY <1>3, <3>2
    <3> QED
      BY <3>3, <3>4 DEF AckInv, Acked
  <2> QED
    BY <2>1, <2>2
<1>5. AckedPeers'
  <2>1. actor_info_map \in [Nodes -> Seq(Actors)] /\ NodeOf[a] \in Nodes
    BY TypedParts, ConstantsAssumption
  <2>2. SUFFICES ASSUME NEW n \in Nodes, NEW i \in DOMAIN actor_info_map'[n]
                 PROVE  \E b \in Actors : actor_info_map'[n][i] = b /\ Acked(b)'
    BY DEF AckedPeers
  <2> DEFINE s == actor_info_map[n]
  <2>3. s \in Seq(Actors)
    BY <2>1
  <2>4. \A j \in DOMAIN s : s[j] \in Actors /\ Acked(s[j])
    BY <2>3 DEF AckInv, AckedPeers
  <2>5. CASE n = NodeOf[a]
    <3>1. actor_info_map'[n] = Append(s, a)
      BY <1>1, <2>1, <2>5
    <3> HIDE DEF s
    <3>2. actor_info_map'[n][i] = a \/ \E j \in DOMAIN s : actor_info_map'[n][i] = s[j]
      BY <2>2, <2>3, <3>1, AppendMembers
    <3> QED
      BY <1>4, <2>4, <3>2
  <2>6. CASE n # NodeOf[a]
    <3>1. actor_info_map'[n] = s
      BY <1>1, <2>1, <2>6
    <3> HIDE DEF s
    <3> QED
      BY <1>4, <2>2, <2>4, <3>1
  <2> QED
    BY <2>5, <2>6
<1>6. AckedChains(call_chain)'
  BY <1>1, <1>4, TypedParts DEF AckInv, AckedChains
<1>7. AckedAsk'
  <2>1. SUFFICES ASSUME NEW b \in Actors, NEW i \in DOMAIN up'[b],
                        up'[b][i].type = "REQUEST"
                 PROVE  up'[b][i].pid = b /\ ctx[b].phase \in {"up", "dead"}
    BY DEF AckedAsk
  <2>2. PICK j \in DOMAIN up[b] : up'[b][i] = up[b][j]
    BY <1>2, DrainedElements
  <2> QED
    BY <2>1, <2>2 DEF AckInv, AckedAsk
<1>8. \A b \in Actors : ctx'[b].phase = "start" => up'[b] = <<>>
  BY <1>2 DEF AckInv, Drained
<1> QED
  BY <1>1, <1>4, <1>5, <1>6, <1>7, <1>8 DEF AckInv

LEMMA AckProxies ==
  ASSUME Typed, AckInv, NEW a \in Actors, Proxies(a)
  PROVE  AckInv'
<1> USE TypedParts
<1>0. ctx' = ctx
  BY DEF Proxies
<1>1. CASE Accept(a) \/ Arrive(a) \/ ConnackWritten(a) \/ ReadEof(a)
  <2>1. UNCHANGED <<ctx, link, actor_info_map, call_chain, up, down>>
    BY <1>0, <1>1 DEF Accept, Arrive, ConnackWritten, ReadEof
  <2>2. AckedChains(call_chain') /\ Drained(up, up')
    BY <2>1, DrainedSame DEF AckInv
  <2> QED
    BY <2>1, <2>2, AckProxy
<1>2. CASE RequestDone(a)
  <2>1. coro[a] \in Frame /\ coro[a].who \in Actors /\ coro[a].pack \in Request
    BY <1>2 DEF RequestDone, Resumes, FrameSet
  <2>2. RequestWritten(Maps, coro[a]).chain = call_chain
    BY <2>1, RequestWrittenFacts
  <2>3. UNCHANGED <<link, actor_info_map, call_chain, up, down>>
    BY <1>2, <2>2 DEF RequestDone
  <2>4. AckedChains(call_chain') /\ Drained(up, up')
    BY <2>3, DrainedSame DEF AckInv
  <2> QED
    BY <1>0, <2>3, <2>4, AckProxy
<1>3. CASE ReadRequest(a)
  <2> DEFINE pack == Head(up[a])
             m == Queued(pack)
             r == HandleRequest(m, pack.pid)
  <2>1. Reads(a, "REQUEST") /\ UNCHANGED <<actor_info_map, link>>
    BY <1>3 DEF ReadRequest
  <2>2. pack \in Request /\ pack.pid \in Actors /\ pack.call \in CallIds
    BY <2>1, ReadsFacts, PackKinds, RequestFields
  <2>3. Suspend(a, r, "request", NoCall)
    BY <1>3, <2>2, QueuedFacts DEF ReadRequest
  <2>4. /\ m \in MapsType
        /\ m.chain = [call_chain EXCEPT ![pack.call] = Started(@, pack.pid)]
    BY <2>2, QueuedFacts
  <2>5. pack.pid = a /\ ctx[a].phase \in {"up", "dead"}
    <3>1. up[a] # <<>> /\ up[a] \in Seq(UpPack) /\ pack.type = "REQUEST"
      BY <2>1, ReadsFacts
    <3>2. pack = up[a][1] /\ 1 \in DOMAIN up[a]
      BY <3>1, TailFacts
    <3> QED
      BY <3>1, <3>2 DEF AckInv, AckedAsk
  <2>6. AckedChains(m.chain)
    <3>1. SUFFICES ASSUME NEW c \in CallIds, NEW i \in DOMAIN m.chain[c]
                   PROVE  Acked(m.chain[c][i])
      BY DEF AckedChains
    <3>2. CASE m.chain[c] = call_chain[c]
      BY <3>1, <3>2 DEF AckInv, AckedChains
    <3>3. CASE m.chain[c] # call_chain[c]
      <4> DEFINE s == call_chain[c]
      <4>1. m.chain[c] = Started(s, a) /\ s \in Seq(Actors)
        BY <2>4, <2>5, <3>3
      <4> HIDE DEF s, m
      <4>2. Started(s, a) = s \/ Started(s, a) = <<a>>
        BY DEF Started
      <4>3. m.chain[c] = <<a>>
        BY <3>3, <4>1, <4>2 DEF s
      <4>4. m.chain[c][i] = a
        BY <3>1, <4>3
      <4> QED
        BY <2>5, <4>4 DEF Acked
    <3> QED
      BY <3>2, <3>3
  <2>7. r \in ResultType /\ (r.writes => r.to \in Actors /\ r.pack \in Request)
    BY <2>2, <2>4, HandleFacts
  <2> HIDE DEF m
  <2>8. AckedChains(r.maps.chain) /\ (r.writes => Acked(r.to))
    BY <2>2, <2>4, <2>6, HandleAcked
  <2> HIDE DEF r
  <2> QED
    BY <1>0, <2>1, <2>3, <2>7, <2>8, DrainedTail, AckSuspend
<1>4. CASE ReadResponse(a)
  <2> DEFINE pack == Head(up[a])
             chain == call_chain[pack.call]
  <2>1. /\ Reads(a, "RESPONSE") /\ UNCHANGED <<actor_info_map, link>>
        /\ Len(chain) >= 2
        /\ call_chain' = [call_chain EXCEPT ![pack.call] = Popped(@)]
        /\ Transmit(Back(Popped(chain)), pack)
    BY <1>4 DEF ReadResponse
  <2>2. pack \in Response /\ pack.call \in CallIds /\ pack \in DownPack
    BY <2>1, ReadsFacts, PackKinds DEF Response, DownPack
  <2>3. chain \in Seq(Actors) /\ chain # <<>>
    BY <2>1, <2>2
  <2>4. /\ Popped(chain) \in Seq(Actors) /\ Len(Popped(chain)) = Len(chain) - 1
        /\ DOMAIN chain = 1 .. Len(chain) /\ Len(chain) \in Nat
        /\ \A i \in 1 .. Len(chain) - 1 : Popped(chain)[i] = chain[i]
    BY <2>3, PoppedFacts
  <2>10. \A i \in DOMAIN chain : Acked(chain[i])
    BY <2>2 DEF AckInv, AckedChains
  <2> DEFINE p == Popped(chain)
  <2>5. p # <<>> /\ DOMAIN p = 1 .. Len(chain) - 1
    <3> HIDE DEF p
    <3>1. p \in Seq(Actors) /\ Len(p) = Len(chain) - 1 /\ Len(chain) >= 2
      BY <2>1, <2>4 DEF p
    <3> HIDE DEF chain
    <3> QED
      BY <2>4, <3>1
  <2>6. \A i \in DOMAIN p : Acked(p[i])
    <3> HIDE DEF chain
    <3>1. \A i \in DOMAIN p : i \in DOMAIN chain /\ p[i] = chain[i]
      BY ONLY <2>4, <2>5
    <3> QED
      BY ONLY <2>10, <3>1
  <2>7. Back(p) \in Actors /\ Acked(Back(p))
    <3> HIDE DEF p
    <3>1. p \in Seq(Actors)
      BY <2>4 DEF p
    <3>2. Back(p) \in Actors /\ \E i \in DOMAIN p : Back(p) = p[i]
      BY <2>5, <3>1, PoppedFacts, BackFacts
    <3> QED
      BY <2>6, <3>2
  <2>8. call_chain' \in [CallIds -> Seq(Actors)]
    BY <2>1, <2>2, <2>4
  <2>9. AckedChains(call_chain')
    BY <2>1, <2>2, <2>6 DEF AckInv, AckedChains
  <2> QED
    BY <1>0, <2>1, <2>2, <2>7, <2>8, <2>9, DrainedTail, AckProxy
<1>5. CASE ReplyWritten(a)
  <2> DEFINE call == coro[a].call
             m == UpdateActorInfo(Maps, coro[a].who, NoCall, FALSE)
             r == HandleRequest(m, coro[a].who)
  <2>1. call \in CallIds /\ coro[a].who \in Actors /\ call_chain[call] # <<>>
    BY <1>5 DEF ReplyWritten, Resumes, FrameSet
  <2>2. m \in MapsType /\ m.chain = call_chain
    BY <2>1, UpdateFacts
  <2>3. /\ r \in ResultType /\ (r.writes => r.to \in Actors /\ r.pack \in Request)
        /\ AckedChains(r.maps.chain) /\ (r.writes => Acked(r.to))
    BY <2>1, <2>2, HandleFacts, HandleAcked DEF AckInv
  <2>4. /\ IF r.writes THEN Suspend(a, r, "self", call)
           ELSE ResumeCaller(a, r.maps, call)
        /\ UNCHANGED <<actor_info_map, link, up>>
    BY <1>5 DEF ReplyWritten
  <2>5. r.maps.chain[call] # <<>>
    BY <2>1, <2>2, HandleKeeps
  <2> HIDE DEF m, r
  <2>6. r.maps \in MapsType
    BY <2>3 DEF ResultType
  <2>7. Drained(up, up')
    BY <2>4, DrainedSame
  <2>8. CASE r.writes
    BY <1>0, <2>3, <2>4, <2>7, <2>8, AckSuspend
  <2>9. CASE ~r.writes
    BY <1>0, <2>1, <2>3, <2>4, <2>5, <2>6, <2>7, <2>9, AckResume
  <2> QED
    BY <2>8, <2>9
<1>6. CASE SelfDone(a)
  <2> DEFINE m == RequestWritten(Maps, coro[a])
  <2>1. /\ coro[a] \in Frame /\ coro[a].call \in CallIds
        /\ coro[a].who \in Actors /\ coro[a].pack \in Request
        /\ call_chain[coro[a].call] # <<>>
        /\ ResumeCaller(a, m, coro[a].call)
        /\ UNCHANGED <<actor_info_map, link, up>>
    BY <1>6 DEF SelfDone, Resumes, FrameSet
  <2>2. m \in MapsType /\ m.chain = call_chain
    BY <2>1, RequestWrittenFacts
  <2>3. Drained(up, up') /\ AckedChains(m.chain)
    BY <2>1, <2>2, DrainedSame DEF AckInv
  <2> HIDE DEF m
  <2> QED
    BY <1>0, <2>1, <2>2, <2>3, AckResume
<1> QED
  BY <1>0, <1>1, <1>2, <1>3, <1>4, <1>5, <1>6, AckConnect DEF Proxies, ProxyStep

\* A step of the process a itself: it runs and its requests carry its pid,
\* it connects, or it does nothing that matters here.
LEMMA AckOwn ==
  ASSUME Typed, AckInv, NEW a \in Actors,
         UNCHANGED <<actor_info_map, call_chain>>,
         \A b \in Actors \ {a} : /\ ctx'[b] = ctx[b] /\ down'[b] = down[b]
                                 /\ up'[b] = up[b] /\ link'[b] = link[b],
         \/ /\ ctx'[a].phase \in {"up", "dead"}
            /\ \A i \in DOMAIN up'[a] : up'[a][i].type = "REQUEST" => up'[a][i].pid = a
         \/ /\ ctx[a].phase = "start" /\ ctx'[a].phase = "connecting"
            /\ link'[a] = "open" /\ up'[a] = <<Connect>> /\ down'[a] = down[a]
         \/ /\ ctx'[a].phase = ctx[a].phase /\ link'[a] = link[a]
            /\ up'[a] = up[a] /\ down'[a] = down[a]
  PROVE  AckInv'
<1>1. \A b \in Actors : Acked(b) => Acked(b)'
  BY DEF Acked
<1>2. ASSUME NEW b \in Actors, ~Acked(b)'
      PROVE  down'[b] = <<>>
  <2>1. ~Acked(b)
    BY <1>1, <1>2
  <2>2. down'[b] = down[b]
    BY <1>2 DEF Acked
  <2> QED
    BY <2>1, <2>2 DEF AckInv
<1>3. AckedPeers'
  BY <1>1, TypedParts DEF AckInv, AckedPeers
<1>4. AckedChains(call_chain)'
  BY <1>1, TypedParts DEF AckInv, AckedChains
<1>5. AckedAsk'
  <2>1. \A i \in DOMAIN <<Connect>> : <<Connect>>[i].type # "REQUEST"
    BY DEF Connect
  <2> QED
    BY <2>1 DEF AckInv, AckedAsk
<1>6. \A b \in Actors : ctx'[b].phase = "start" => up'[b] = <<>>
  BY DEF AckInv
<1>7. \A b \in Actors : ctx'[b].phase = "connecting" => link'[b] = "open"
  BY DEF AckInv
<1> QED
  BY <1>2, <1>3, <1>4, <1>5, <1>6, <1>7 DEF AckInv

LEMMA AckActor ==
  ASSUME Typed, AckInv, NEW a \in Actors,
         \/ ActorStep(a)
         \/ Crash(a)
         \/ \E s \in Services : ClientRequest(a, s)
  PROVE  AckInv'
<1> USE TypedParts
<1>0. UNCHANGED <<actor_info_map, call_chain>>
  BY DEF ActorStep, ActorRuns, ActorConnect, ReceiveConnack, ReceiveRequest,
         ReceiveResponse, Receives, SkipStale, StartJob, SendRefused, Send, Finish,
         Crash, ClientRequest, proxyVars
<1>1. \A i \in DOMAIN up[a] : up[a][i].type = "REQUEST" => up[a][i].pid = a
  BY DEF AckInv, AckedAsk
<1>2. CASE ActorConnect(a)
  <2>1. \A b \in Actors \ {a} : /\ ctx'[b] = ctx[b] /\ down'[b] = down[b]
                                /\ up'[b] = up[b] /\ link'[b] = link[b]
    BY <1>2 DEF ActorConnect
  <2>2. /\ ctx[a].phase = "start" /\ ctx'[a].phase = "connecting"
        /\ link'[a] = "open" /\ up'[a] = <<Connect>> /\ down'[a] = down[a]
    BY <1>2 DEF ActorConnect, Ctx
  <2> QED
    BY <1>0, <2>1, <2>2, AckOwn
<1>3. CASE ReceiveConnack(a) \/ ReceiveRequest(a) \/ ReceiveResponse(a)
  <2>1. \A b \in Actors \ {a} : /\ ctx'[b] = ctx[b] /\ down'[b] = down[b]
                                /\ up'[b] = up[b] /\ link'[b] = link[b]
    BY <1>3 DEF ReceiveConnack, ReceiveRequest, ReceiveResponse, Receives
  <2>2. ctx'[a].phase = "up" /\ up' = up
    BY <1>3 DEF ReceiveConnack, ReceiveRequest, ReceiveResponse, Receives, Ctx
  <2> QED
    BY <1>0, <1>1, <2>1, <2>2, AckOwn
<1>4. CASE SkipStale(a) \/ StartJob(a) \/ \E s \in Services : SendRefused(a, s)
             \/ ClientRequest(a, s)
  <2>1. \A b \in Actors \ {a} : /\ ctx'[b] = ctx[b] /\ down'[b] = down[b]
                                /\ up'[b] = up[b] /\ link'[b] = link[b]
    BY <1>4 DEF SkipStale, StartJob, SendRefused, ClientRequest, proxyVars
  <2>2. link'[a] = link[a] /\ up'[a] = up[a] /\ down'[a] = down[a]
    BY <1>4 DEF SkipStale, StartJob, SendRefused, ClientRequest, proxyVars
  <2>3. ctx'[a].phase = ctx[a].phase
    <3>1. CASE SkipStale(a)
      BY <3>1 DEF SkipStale, Ctx
    <3>2. CASE StartJob(a)
      BY <3>2 DEF StartJob, Ctx
    <3>3. CASE \E s \in Services : SendRefused(a, s)
      BY <3>3 DEF SendRefused, Ctx
    <3>4. CASE \E s \in Services : ClientRequest(a, s)
      BY <3>4 DEF ClientRequest, Ctx
    <3> QED
      BY <1>4, <3>1, <3>2, <3>3, <3>4
  <2> QED
    BY <1>0, <2>1, <2>2, <2>3, AckOwn
<1>5. ASSUME NEW s \in Services, Send(a, s)
      PROVE  AckInv'
  <2> DEFINE p == SentPack(a, s)
  <2>4. down' = down /\ link' = link
    BY <1>5, SendFacts
  <2>3. PICK x : ctx' = [ctx EXCEPT ![a] = x] /\ x.phase = "up"
    <3>1. Sent(a) \in Ctx /\ Sent(a).phase = "up"
      BY <1>5, SendFacts
    <3>2. /\ [Sent(a) EXCEPT !.pending = SentReq(a)].phase = "up"
          /\ [Sent(a) EXCEPT !.error = TRUE].phase = "up"
      BY <3>1 DEF Ctx
    <3>3. \/ ctx' = [ctx EXCEPT ![a] = [Sent(a) EXCEPT !.pending = SentReq(a)]]
          \/ ctx' = [ctx EXCEPT ![a] = [Sent(a) EXCEPT !.error = TRUE]]
      BY <1>5, SendFacts
    <3> QED
      BY <3>2, <3>3
  <2>5. up' = up \/ up' = [up EXCEPT ![a] = Append(@, p)]
    BY <1>5, SendFacts
  <2>1. /\ \A b \in Actors \ {a} : /\ ctx'[b] = ctx[b] /\ down'[b] = down[b]
                                   /\ up'[b] = up[b] /\ link'[b] = link[b]
        /\ ctx'[a].phase = "up"
    <3> HIDE DEF p
    <3> QED
      BY <2>3, <2>4, <2>5
  <2>2. \A i \in DOMAIN up'[a] : up'[a][i].type = "REQUEST" => up'[a][i].pid = a
    <3>1. CASE up' = up
      BY <1>1, <3>1
    <3>2. CASE up' = [up EXCEPT ![a] = Append(@, p)]
      <4>1. p.pid = a /\ p \in UpPack
        BY <1>5, SendFacts DEF SentPack, UpPack
      <4> HIDE DEF p
      <4> DEFINE q == up[a]
      <4>2. q \in Seq(UpPack) /\ up'[a] = Append(q, p)
        BY <3>2
      <4>3. \A i \in DOMAIN q : q[i].type = "REQUEST" => q[i].pid = a
        BY <1>1
      <4> HIDE DEF q
      <4>4. \A i \in DOMAIN up'[a] :
              up'[a][i] = p \/ \E j \in DOMAIN q : up'[a][i] = q[j]
        BY <4>1, <4>2, AppendMembers
      <4> QED
        BY <4>1, <4>3, <4>4
    <3> QED
      BY <1>5, <3>1, <3>2, SendFacts
  <2> QED
    BY <1>0, <2>1, <2>2, AckOwn
<1>6. CASE Finish(a)
  <2>1. \A b \in Actors \ {a} : /\ ctx'[b] = ctx[b] /\ down'[b] = down[b]
                                /\ up'[b] = up[b] /\ link'[b] = link[b]
    <3> DEFINE x == [ctx[a] EXCEPT !.job = NoMsg, !.call_id = NoCall, !.error = FALSE]
               p == AnswerTo(ctx[a].job)
    <3>1. /\ ctx' = [ctx EXCEPT ![a] = x]
          /\ link' = link \/ link' = [link EXCEPT ![a] = "cut"]
          /\ down' = down \/ down' = [down EXCEPT ![a] = <<>>]
          /\ up' = up \/ up' = [up EXCEPT ![a] = Append(@, p)]
      BY <1>6, FinishFacts
    <3> HIDE DEF x, p
    <3> QED
      BY <3>1
  <2>3. ctx'[a].phase = "up"
    <3>1. [ctx[a] EXCEPT !.job = NoMsg, !.call_id = NoCall, !.error = FALSE].phase
            = ctx[a].phase
      BY DEF Ctx
    <3> QED
      BY <1>6, <3>1, FinishFacts, ZenonT(30)
  <2>2. \A i \in DOMAIN up'[a] : up'[a][i].type = "REQUEST" => up'[a][i].pid = a
    <3> DEFINE p == AnswerTo(ctx[a].job)
               q == up[a]
    <3>1. CASE up' = up
      BY <1>1, <3>1
    <3>2. CASE ctx[a].job \in Request /\ up' = [up EXCEPT ![a] = Append(@, p)]
      <4>1. p.type = "RESPONSE" /\ p \in UpPack
        BY <3>2, AnswerFacts DEF UpPack
      <4>2. q \in Seq(UpPack) /\ up'[a] = Append(q, p)
        BY <3>2
      <4>3. \A i \in DOMAIN q : q[i].type = "REQUEST" => q[i].pid = a
        BY <1>1
      <4> HIDE DEF p, q
      <4>4. \A i \in DOMAIN up'[a] :
              up'[a][i] = p \/ \E j \in DOMAIN q : up'[a][i] = q[j]
        BY <4>1, <4>2, AppendMembers
      <4> QED
        BY <4>1, <4>3, <4>4
    <3> QED
      BY <1>6, <3>1, <3>2, FinishFacts
  <2> QED
    BY <1>0, <2>1, <2>2, <2>3, AckOwn
<1>7. CASE Crash(a)
  <2>1. \A b \in Actors \ {a} : /\ ctx'[b] = ctx[b] /\ down'[b] = down[b]
                                /\ up'[b] = up[b] /\ link'[b] = link[b]
    BY <1>7 DEF Crash
  <2>2. ctx'[a].phase = "dead" /\ up' = up
    BY <1>7 DEF Crash, Ctx
  <2> QED
    BY <1>0, <1>1, <2>1, <2>2, AckOwn
<1> QED
  BY <1>2, <1>3, <1>4, <1>5, <1>6, <1>7 DEF ActorStep, ActorRuns

LEMMA AckInit == Init => AckInv
<1> SUFFICES ASSUME Init PROVE AckInv
  OBVIOUS
<1>1. AckedPeers /\ AckedChains(call_chain) /\ AckedAsk
  BY DEF Init, ProxyInit, AckedPeers, AckedChains, AckedAsk
<1> QED
  BY <1>1 DEF AckInv, Init, ProxyInit

LEMMA AckStep == Typed /\ AckInv /\ [Next]_vars => AckInv'
<1> SUFFICES ASSUME Typed, AckInv, [Next]_vars PROVE AckInv'
  OBVIOUS
<1>1. CASE UNCHANGED vars
  BY <1>1, DrainedSame, AckProxy, TypedParts DEF vars, proxyVars, AckInv
<1>2. CASE Next
  BY <1>2, AckProxies, AckActor DEF Next
<1> QED
  BY <1>1, <1>2

\* The first pack an actor process reads is the CONNACK, whatever requests
\* the proxy forwards to it between its registration and that write.
THEOREM ConnackComesFirst == Spec => []AckFirst
<1>1. AckInv => AckFirst
  BY DEF AckInv, Acked, AckFirst, Connack
<1> QED
  BY TypedInit, TypedStep, AckInit, AckStep, <1>1, PTL DEF Spec

=============================================================================
