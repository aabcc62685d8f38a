----------------------------- MODULE PackProofs -----------------------------
(***************************************************************************)
(* Where the packs of a request are, and how long the chain of its call    *)
(* is: a request is in one place, and back() is never taken of an empty    *)
(* chain, whatever the proxy's other coroutines did to it in between.      *)
(***************************************************************************)
EXTENDS CallSystemProofs

-----------------------------------------------------------------------------
(* Packs in lines.  A line is what a process, or the proxy for it, has in  *)
(* one place.  The lemmas of this section are about any lines and chains.  *)

LineNames == {"up", "queue", "down", "inbox", "job"} \X Actors

Thing     == UpPack \cup DownPack \cup Msg
LinesType == [LineNames -> Seq(Thing)]
Chains    == [CallIds -> Seq(Actors)]

Named(p) == p.type \in {"REQUEST", "RESPONSE"}

\* A request that has been forwarded and whose response has not come back.
OnWay(l, p) ==
  \/ l[1] = "up" /\ p.type = "RESPONSE"
  \/ l[1] \in {"down", "inbox", "job"} /\ p.type = "REQUEST"

\* No two packs of the lines are of the same request.
Once(L) ==
  \A l, k \in LineNames : \A i \in DOMAIN L[l], j \in DOMAIN L[k] :
    (Named(L[l][i]) /\ Named(L[k][j]) /\ L[l][i].req = L[k][j].req)
      => l = k /\ i = j

Absent(L, r) ==
  \A l \in LineNames : \A i \in DOMAIN L[l] : Named(L[l][i]) => L[l][i].req # r

\* Whose requests the packs are has sent as many: sends.
Issued(L, sends) ==
  \A l \in LineNames : \A i \in DOMAIN L[l] : Named(L[l][i]) =>
    L[l][i].req[2] <= sends[L[l][i].req[1]]

\* The requests of a call that are on the way.
Away(L, c) ==
  {r \in Reqs : \E l \in LineNames : \E i \in DOMAIN L[l] :
     OnWay(l, L[l][i]) /\ L[l][i].call = c /\ L[l][i].req = r}

\* The chain of a call is longer than the requests of it that are on the way,
\* and the packs that the proxy keeps belong to calls that have a chain.
Fits(L, chain) ==
  /\ \A c \in CallIds :
       /\ IsFiniteSet(Away(L, c))
       /\ Away(L, c) # {} => Cardinality(Away(L, c)) + 1 <= Len(chain[c])
  /\ \A a \in Actors : \A i \in DOMAIN L[<<"queue", a>>] :
       Named(L[<<"queue", a>>][i]) => chain[L[<<"queue", a>>][i].call] # <<>>

Good(L, chain, sends) == Once(L) /\ Issued(L, sends) /\ Fits(L, chain)

\* The chain has room for one more request on the way.
Room(L, chain, c) == Cardinality(Away(L, c)) + 2 <= Len(chain[c])

\* K holds nothing that L does not hold, each pack in its line and order.
Keeps(L, K) ==
  \A l \in LineNames : \E d \in Nat : \A i \in DOMAIN K[l] :
    Named(K[l][i]) => i + d \in DOMAIN L[l] /\ K[l][i] = L[l][i + d]

TakenFrom(L, K, l) ==
  /\ L[l] # <<>> /\ K[l] = Tail(L[l])
  /\ \A k \in LineNames \ {l} : K[k] = L[k]

PutInto(L, K, l, p) ==
  /\ K[l] = Append(L[l], p)
  /\ \A k \in LineNames \ {l} : K[k] = L[k]

LEMMA LinesFacts ==
  ASSUME NEW L \in LinesType, NEW l \in LineNames
  PROVE  L[l] \in Seq(Thing) /\ DOMAIN L[l] \subseteq Nat \ {0}
  BY DEF LinesType

LEMMA NamedFacts ==
  ASSUME NEW p \in Thing, Named(p)
  PROVE  p.req \in Reqs /\ p.call \in CallIds
  BY DEF Thing, Named, UpPack, DownPack, Msg, ClientMsg, Request, Response, Connect,
         Connack

LEMMA KeepsGood ==
  ASSUME NEW L \in LinesType, NEW K \in LinesType, Keeps(L, K),
         NEW chain \in Chains, NEW sends, Good(L, chain, sends)
  PROVE  /\ Good(K, chain, sends)
         /\ \A c \in CallIds : Away(K, c) \subseteq Away(L, c)
         /\ \A r \in Reqs : Absent(L, r) => Absent(K, r)
<1>1. ASSUME NEW l \in LineNames, NEW i \in DOMAIN K[l], Named(K[l][i])
      PROVE  \E j \in DOMAIN L[l] : K[l][i] = L[l][j]
  BY <1>1 DEF Keeps
<1>2. Once(K)
  <2>1. SUFFICES ASSUME NEW l \in LineNames, NEW k \in LineNames,
                        NEW i \in DOMAIN K[l], NEW j \in DOMAIN K[k],
                        Named(K[l][i]), Named(K[k][j]), K[l][i].req = K[k][j].req
                 PROVE  l = k /\ i = j
    BY DEF Once
  <2>2. PICK d \in Nat : \A n \in DOMAIN K[l] :
          Named(K[l][n]) => n + d \in DOMAIN L[l] /\ K[l][n] = L[l][n + d]
    BY DEF Keeps
  <2>3. PICK e \in Nat : \A n \in DOMAIN K[k] :
          Named(K[k][n]) => n + e \in DOMAIN L[k] /\ K[k][n] = L[k][n + e]
    BY DEF Keeps
  <2>4. l = k /\ i + d = j + e
    BY <2>1, <2>2, <2>3 DEF Good, Once
  <2>5. i + d = j + d
    <3>1. j + d \in DOMAIN L[k] /\ K[k][j] = L[k][j + d]
      BY <2>1, <2>2, <2>4
    <3> QED
      BY <2>1, <2>2, <2>4, <3>1 DEF Good, Once
  <2>6. i \in Nat /\ j \in Nat
    BY LinesFacts
  <2> QED
    BY <2>4, <2>5, <2>6
<1>3. Issued(K, sends)
  BY <1>1 DEF Good, Issued
<1>4. ASSUME NEW c \in CallIds
      PROVE  Away(K, c) \subseteq Away(L, c)
  <2>1. \A l \in LineNames : \A i \in DOMAIN K[l] : OnWay(l, K[l][i]) => Named(K[l][i])
    BY DEF OnWay, Named
  <2> QED
    BY <1>1, <2>1 DEF Away
<1>5. Fits(K, chain)
  <2>1. ASSUME NEW c \in CallIds
        PROVE  /\ IsFiniteSet(Away(K, c))
               /\ Away(K, c) # {} => Cardinality(Away(K, c)) + 1 <= Len(chain[c])
    <3>1. IsFiniteSet(Away(L, c))
      BY DEF Good, Fits
    <3>2. /\ IsFiniteSet(Away(K, c))
          /\ Cardinality(Away(K, c)) <= Cardinality(Away(L, c))
          /\ Cardinality(Away(K, c)) \in Nat /\ Cardinality(Away(L, c)) \in Nat
      BY <1>4, <3>1, FS_Subset, FS_CardinalityType
    <3>3. Away(K, c) # {} =>
            Away(L, c) # {} /\ Cardinality(Away(L, c)) + 1 <= Len(chain[c])
      BY <1>4 DEF Good, Fits
    <3>4. Len(chain[c]) \in Nat
      BY DEF Chains
    <3> QED
      BY <3>2, <3>3, <3>4
  <2>2. ASSUME NEW a \in Actors, NEW i \in DOMAIN K[<<"queue", a>>],
               Named(K[<<"queue", a>>][i])
        PROVE  chain[K[<<"queue", a>>][i].call] # <<>>
    <3>1. <<"queue", a>> \in LineNames
      BY DEF LineNames
    <3>2. PICK j \in DOMAIN L[<<"queue", a>>] :
            K[<<"queue", a>>][i] = L[<<"queue", a>>][j]
      BY <1>1, <2>2, <3>1
    <3> QED
      BY <2>2, <3>2 DEF Good, Fits
  <2> QED
    BY <2>1, <2>2 DEF Fits
<1>6. \A r \in Reqs : Absent(L, r) => Absent(K, r)
  BY <1>1 DEF Absent
<1> QED
  BY <1>2, <1>3, <1>4, <1>5, <1>6 DEF Good

LEMMA TakenKeeps ==
  ASSUME NEW L \in LinesType, NEW K \in LinesType, NEW l \in LineNames,
         TakenFrom(L, K, l)
  PROVE  /\ Keeps(L, K)
         /\ \A i \in DOMAIN K[l] : i + 1 \in DOMAIN L[l] /\ K[l][i] = L[l][i + 1]
<1>1. L[l] \in Seq(Thing) /\ L[l] # <<>> /\ K[l] = Tail(L[l])
  BY LinesFacts DEF TakenFrom
<1>2. \A i \in DOMAIN K[l] : i + 1 \in DOMAIN L[l] /\ K[l][i] = L[l][i + 1]
  <2>1. /\ DOMAIN L[l] = 1 .. Len(L[l]) /\ DOMAIN K[l] = 1 .. Len(L[l]) - 1
        /\ \A i \in 1 .. Len(L[l]) - 1 : K[l][i] = L[l][i + 1]
        /\ Len(L[l]) \in Nat
    BY <1>1, TailFacts
  <2> QED
    BY <2>1
<1>3. ASSUME NEW k \in LineNames
      PROVE  \E d \in Nat : \A i \in DOMAIN K[k] :
               Named(K[k][i]) => i + d \in DOMAIN L[k] /\ K[k][i] = L[k][i + d]
  <2>1. CASE k = l
    BY <1>2, <2>1
  <2>2. CASE k # l
    <3>1. K[k] = L[k] /\ DOMAIN K[k] \subseteq Nat
      BY <2>2, LinesFacts DEF TakenFrom
    <3>2. \A i \in DOMAIN K[k] : i + 0 \in DOMAIN L[k] /\ K[k][i] = L[k][i + 0]
      BY <3>1
    <3> QED
      BY <3>2
  <2> QED
    BY <2>1, <2>2
<1> QED
  BY <1>2, <1>3 DEF Keeps

\* The pack that is taken is nowhere else, and makes room in its chain.
LEMMA TakenGone ==
  ASSUME NEW L \in LinesType, NEW K \in LinesType, NEW l \in LineNames,
         TakenFrom(L, K, l), Once(L), Named(Head(L[l]))
  PROVE  Absent(K, Head(L[l]).req)
<1>1. /\ Head(L[l]) = L[l][1] /\ 1 \in DOMAIN L[l]
      /\ L[l] \in Seq(Thing) /\ L[l] # <<>>
  BY LinesFacts, TailFacts DEF TakenFrom
<1>2. SUFFICES ASSUME NEW k \in LineNames, NEW i \in DOMAIN K[k], Named(K[k][i]),
                      K[k][i].req = L[l][1].req
               PROVE  FALSE
  BY <1>1 DEF Absent
<1>3. CASE k = l
  <2>1. i + 1 \in DOMAIN L[l] /\ K[k][i] = L[l][i + 1]
    BY <1>3, TakenKeeps
  <2>2. i + 1 = 1
    BY <1>1, <1>2, <2>1 DEF Once
  <2>3. i \in Nat \ {0}
    BY LinesFacts
  <2> QED
    BY <2>2, <2>3
<1>4. CASE k # l
  BY <1>1, <1>2, <1>4 DEF Once, TakenFrom
<1> QED
  BY <1>3, <1>4

LEMMA TakenRoom ==
  ASSUME NEW L \in LinesType, NEW K \in LinesType, NEW l \in LineNames,
         TakenFrom(L, K, l), NEW chain \in Chains, NEW sends,
         Good(L, chain, sends), OnWay(l, Head(L[l]))
  PROVE  Room(K, chain, Head(L[l]).call)
<1> DEFINE h == Head(L[l])
           c == h.call
           r == h.req
<1>1. h = L[l][1] /\ 1 \in DOMAIN L[l] /\ h \in Thing
  BY LinesFacts, TailFacts DEF TakenFrom
<1>2. Named(h)
  BY DEF OnWay, Named
<1>3. c \in CallIds /\ r \in Reqs
  BY <1>1, <1>2, NamedFacts
<1>4. r \in Away(L, c)
  BY <1>1, <1>3 DEF Away
<1>5. Absent(K, r)
  BY <1>2, TakenGone DEF Good
<1>6. Away(K, c) \subseteq Away(L, c) \ {r}
  <2>1. Away(K, c) \subseteq Away(L, c)
    BY <1>3, TakenKeeps, KeepsGood
  <2>2. r \notin Away(K, c)
    BY <1>5 DEF Away, Absent, OnWay, Named
  <2> QED
    BY <2>1, <2>2
<1>7. IsFiniteSet(Away(L, c)) /\ Cardinality(Away(L, c)) + 1 <= Len(chain[c])
  BY <1>3, <1>4 DEF Good, Fits
<1> HIDE DEF c, r
<1>8. /\ IsFiniteSet(Away(L, c) \ {r})
      /\ Cardinality(Away(L, c) \ {r}) = Cardinality(Away(L, c)) - 1
  BY <1>4, <1>7, FS_RemoveElement
<1>9. Cardinality(Away(K, c)) <= Cardinality(Away(L, c) \ {r}) /\ IsFiniteSet(Away(K, c))
  BY <1>6, <1>8, FS_Subset
<1>10. Len(chain[c]) \in Nat /\ Cardinality(Away(K, c)) \in Nat
       /\ Cardinality(Away(L, c)) \in Nat
  BY <1>3, <1>7, <1>9, FS_CardinalityType DEF Chains
<1>11. Cardinality(Away(K, c)) + 2 <= Len(chain[c])
  BY <1>7, <1>8, <1>9, <1>10
<1> QED
  BY <1>11 DEF Room, c

LEMMA PutElements ==
  ASSUME NEW L \in LinesType, NEW K \in LinesType, NEW l \in LineNames,
         NEW p \in Thing, PutInto(L, K, l, p)
  PROVE  \A k \in LineNames : \A i \in DOMAIN K[k] :
           \/ k = l /\ i = Len(L[l]) + 1 /\ K[k][i] = p
           \/ i \in DOMAIN L[k] /\ K[k][i] = L[k][i]
<1>1. SUFFICES ASSUME NEW k \in LineNames, NEW i \in DOMAIN K[k]
               PROVE  \/ k = l /\ i = Len(L[l]) + 1 /\ K[k][i] = p
                      \/ i \in DOMAIN L[k] /\ K[k][i] = L[k][i]
  OBVIOUS
<1>2. CASE k # l
  BY <1>2 DEF PutInto
<1>3. CASE k = l
  <2> DEFINE s == L[l]
  <2>1. s \in Seq(Thing) /\ K[k] = Append(s, p)
    BY <1>3, LinesFacts DEF PutInto
  <2> HIDE DEF s
  <2>2. /\ DOMAIN Append(s, p) = 1 .. Len(s) + 1 /\ DOMAIN s = 1 .. Len(s)
        /\ \A j \in 1 .. Len(s) : Append(s, p)[j] = s[j]
        /\ Append(s, p)[Len(s) + 1] = p /\ Len(s) \in Nat
    BY <2>1, AppendFacts
  <2>3. \/ i = Len(s) + 1 /\ K[k][i] = p
        \/ i \in DOMAIN s /\ K[k][i] = s[i]
    BY <1>1, <2>1, <2>2
  <2> QED
    BY <1>3, <2>3 DEF s
<1> QED
  BY <1>2, <1>3

\* A pack that is in no line may be put into one; if it is on the way then,
\* the chain of its call needs room.
LEMMA PutGood ==
  ASSUME NEW L \in LinesType, NEW K \in LinesType, NEW l \in LineNames,
         NEW p \in Thing, PutInto(L, K, l, p), Named(p), Absent(L, p.req),
         NEW chain \in Chains, NEW sends, Good(L, chain, sends),
         p.req[2] <= sends[p.req[1]],
         OnWay(l, p) => Room(L, chain, p.call),
         l[1] = "queue" => chain[p.call] # <<>>
  PROVE  Good(K, chain, sends)
<1>1. \A k \in LineNames : \A i \in DOMAIN K[k] :
        \/ k = l /\ i = Len(L[l]) + 1 /\ K[k][i] = p
        \/ i \in DOMAIN L[k] /\ K[k][i] = L[k][i]
  BY PutElements
<1>2. Once(K)
  <2>1. SUFFICES ASSUME NEW k \in LineNames, NEW n \in LineNames,
                        NEW i \in DOMAIN K[k], NEW j \in DOMAIN K[n],
                        Named(K[k][i]), Named(K[n][j]), K[k][i].req = K[n][j].req
                 PROVE  k = n /\ i = j
    BY DEF Once
  <2>2. CASE K[k][i] = p /\ k = l /\ i = Len(L[l]) + 1
    <3>1. ~(j \in DOMAIN L[n] /\ K[n][j] = L[n][j])
      BY <2>1, <2>2 DEF Absent
    <3> QED
      BY <1>1, <2>2, <3>1
  <2>3. CASE i \in DOMAIN L[k] /\ K[k][i] = L[k][i]
    <3>1. j \in DOMAIN L[n] /\ K[n][j] = L[n][j]
      BY <1>1, <2>1, <2>3 DEF Absent
    <3> QED
      BY <2>1, <2>3, <3>1 DEF Good, Once
  <2> QED
    BY <1>1, <2>2, <2>3
<1>3. Issued(K, sends)
  BY <1>1 DEF Good, Issued
<1>4. ASSUME NEW c \in CallIds
      PROVE  /\ IsFiniteSet(Away(K, c))
             /\ Away(K, c) # {} => Cardinality(Away(K, c)) + 1 <= Len(chain[c])
  <2>1. IsFiniteSet(Away(L, c))
        /\ (Away(L, c) # {} => Cardinality(Away(L, c)) + 1 <= Len(chain[c]))
    BY DEF Good, Fits
  <2>2. Len(chain[c]) \in Nat
    BY DEF Chains
  <2>3. CASE OnWay(l, p) /\ p.call = c
    <3> DEFINE r == p.req
    <3>1. Away(K, c) \subseteq Away(L, c) \cup {r}
      BY <1>1 DEF Away
    <3> HIDE DEF r
    <3>2. /\ IsFiniteSet(Away(L, c) \cup {r})
          /\ Cardinality(Away(L, c) \cup {r}) <= Cardinality(Away(L, c)) + 1
          /\ Cardinality(Away(L, c)) \in Nat
      <4> DEFINE A == Away(L, c)
      <4>1. IsFiniteSet(A)
        BY <2>1
      <4> HIDE DEF A
      <4>2. /\ IsFiniteSet(A \cup {r})
            /\ Cardinality(A \cup {r}) =
                 IF r \in A THEN Cardinality(A) ELSE Cardinality(A) + 1
        BY ONLY <4>1, FS_AddElement
      <4>3. Cardinality(A) \in Nat
        BY ONLY <4>1, FS_CardinalityType
      <4>4. Cardinality(A \cup {r}) <= Cardinality(A) + 1
        BY ONLY <4>2, <4>3
      <4> QED
        BY <4>2, <4>3, <4>4 DEF A
    <3>3. /\ IsFiniteSet(Away(K, c))
          /\ Cardinality(Away(K, c)) <= Cardinality(Away(L, c) \cup {r})
      BY <3>1, <3>2, FS_Subset
    <3>4. Cardinality(Away(K, c)) \in Nat /\ Cardinality(Away(L, c) \cup {r}) \in Nat
      BY <3>2, <3>3, FS_CardinalityType
    <3>5. Cardinality(Away(L, c)) + 2 <= Len(chain[c])
      BY <2>3 DEF Room
    <3> QED
      BY <2>2, <3>2, <3>3, <3>4, <3>5
  <2>4. CASE ~(OnWay(l, p) /\ p.call = c)
    <3>1. Away(K, c) \subseteq Away(L, c)
      BY <1>1, <2>4 DEF Away
    <3>2. /\ IsFiniteSet(Away(K, c))
          /\ Cardinality(Away(K, c)) <= Cardinality(Away(L, c))
          /\ Cardinality(Away(K, c)) \in Nat /\ Cardinality(Away(L, c)) \in Nat
      BY <2>1, <3>1, FS_Subset, FS_CardinalityType
    <3> QED
      BY <2>1, <2>2, <3>1, <3>2
  <2> QED
    BY <2>3, <2>4
<1>5. ASSUME NEW a \in Actors, NEW i \in DOMAIN K[<<"queue", a>>],
             Named(K[<<"queue", a>>][i])
      PROVE  chain[K[<<"queue", a>>][i].call] # <<>>
  <2>1. <<"queue", a>> \in LineNames
    BY DEF LineNames
  <2>2. CASE <<"queue", a>> = l /\ K[<<"queue", a>>][i] = p
    BY <2>2
  <2>3. CASE i \in DOMAIN L[<<"queue", a>>]
             /\ K[<<"queue", a>>][i] = L[<<"queue", a>>][i]
    BY <1>5, <2>3 DEF Good, Fits
  <2> QED
    BY <1>1, <2>1, <2>2, <2>3
<1> QED
  BY <1>2, <1>3, <1>4, <1>5 DEF Good, Fits

\* Chains that grow, ...
LEMMA LongerGood ==
  ASSUME NEW L \in LinesType, NEW chain \in Chains, NEW sends,
         Good(L, chain, sends), NEW longer \in Chains,
         \A c \in CallIds : Len(longer[c]) >= Len(chain[c])
  PROVE  Good(L, longer, sends)
<1>1. \A c \in CallIds : Len(longer[c]) \in Nat /\ Len(chain[c]) \in Nat
  BY DEF Chains
<1>2. ASSUME NEW c \in CallIds
      PROVE  /\ IsFiniteSet(Away(L, c))
             /\ Away(L, c) # {} => Cardinality(Away(L, c)) + 1 <= Len(longer[c])
  <2>1. /\ IsFiniteSet(Away(L, c)) /\ Cardinality(Away(L, c)) \in Nat
        /\ Away(L, c) # {} => Cardinality(Away(L, c)) + 1 <= Len(chain[c])
    BY FS_CardinalityType DEF Good, Fits
  <2> QED
    BY <1>1, <2>1
<1>3. ASSUME NEW a \in Actors, NEW i \in DOMAIN L[<<"queue", a>>],
             Named(L[<<"queue", a>>][i])
      PROVE  longer[L[<<"queue", a>>][i].call] # <<>>
  <2> DEFINE c == L[<<"queue", a>>][i].call
  <2>1. <<"queue", a>> \in LineNames /\ L[<<"queue", a>>] \in Seq(Thing)
    BY LinesFacts DEF LineNames
  <2>2. c \in CallIds
    BY <1>3, <2>1, NamedFacts
  <2>3. chain[c] # <<>>
    BY <1>3 DEF Good, Fits
  <2> HIDE DEF c
  <2>4. chain[c] \in Seq(Actors) /\ longer[c] \in Seq(Actors)
    BY <2>2 DEF Chains
  <2>5. Len(longer[c]) > 0
    BY <2>2, <2>3, <2>4
  <2> QED
    BY <2>4, <2>5 DEF c
<1> QED
  BY <1>2, <1>3 DEF Good, Fits

\* ... by one process for a request that is forwarded ...
LEMMA GrownRoom ==
  ASSUME NEW L \in LinesType, NEW chain \in Chains, NEW sends,
         Good(L, chain, sends), NEW c \in CallIds, chain[c] # <<>>,
         NEW to \in Actors, NEW longer,
         longer = [chain EXCEPT ![c] = Append(@, to)]
  PROVE  /\ longer \in Chains /\ Good(L, longer, sends)
         /\ Room(L, longer, c) /\ longer[c] # <<>>
<1>1. chain[c] \in Seq(Actors) /\ chain \in [CallIds -> Seq(Actors)]
  BY DEF Chains
<1>2. /\ Append(chain[c], to) \in Seq(Actors) /\ Append(chain[c], to) # <<>>
      /\ Len(Append(chain[c], to)) = Len(chain[c]) + 1 /\ Len(chain[c]) >= 1
      /\ Len(chain[c]) \in Nat
  BY <1>1, AppendFacts, TailFacts
<1>3. longer \in Chains /\ longer[c] = Append(chain[c], to)
  BY <1>1, <1>2 DEF Chains
<1>4. \A d \in CallIds : Len(longer[d]) >= Len(chain[d])
  <2>1. \A d \in CallIds : Len(chain[d]) \in Nat
    BY <1>1
  <2> QED
    BY <1>1, <1>2, <2>1
<1>5. Good(L, longer, sends)
  BY <1>3, <1>4, LongerGood
<1>6. Room(L, longer, c)
  <2>1. /\ IsFiniteSet(Away(L, c))
        /\ Away(L, c) # {} => Cardinality(Away(L, c)) + 1 <= Len(chain[c])
    BY DEF Good, Fits
  <2>2. Cardinality(Away(L, c)) \in Nat /\ (Away(L, c) = {} => Cardinality(Away(L, c)) = 0)
    BY <2>1, FS_CardinalityType, FS_EmptySet
  <2> QED
    BY <1>2, <1>3, <2>1, <2>2 DEF Room
<1> QED
  BY <1>2, <1>3, <1>5, <1>6

\* ... and shrink when a response comes back.
Shortened(chain, c) == [chain EXCEPT ![c] = Popped(@)]

LEMMA PoppedGood ==
  ASSUME NEW L \in LinesType, NEW chain \in Chains, NEW sends,
         Good(L, chain, sends), NEW c \in CallIds, Room(L, chain, c),
         NEW shorter, shorter = Shortened(chain, c)
  PROVE  /\ shorter \in Chains /\ Good(L, shorter, sends) /\ Len(chain[c]) >= 2
         /\ \A d \in CallIds : chain[d] # <<>> => shorter[d] # <<>>
<1>1. /\ chain[c] \in Seq(Actors) /\ chain \in [CallIds -> Seq(Actors)]
      /\ Len(chain[c]) \in Nat
  BY DEF Chains
<1>2. /\ IsFiniteSet(Away(L, c)) /\ Cardinality(Away(L, c)) \in Nat
      /\ Cardinality(Away(L, c)) + 2 <= Len(chain[c])
  BY FS_CardinalityType DEF Good, Fits, Room
<1>3. Len(chain[c]) >= 2 /\ chain[c] # <<>>
  BY <1>1, <1>2
<1>4. Popped(chain[c]) \in Seq(Actors) /\ Len(Popped(chain[c])) = Len(chain[c]) - 1
  BY <1>1, <1>3, PoppedFacts
<1>5. /\ shorter \in Chains /\ shorter[c] = Popped(chain[c])
      /\ \A d \in CallIds \ {c} : shorter[d] = chain[d]
  BY <1>1, <1>4 DEF Chains, Shortened
<1>6. shorter[c] # <<>>
  <2> DEFINE s == Popped(chain[c])
  <2>1. s \in Seq(Actors) /\ Len(s) >= 1
    BY <1>1, <1>3, <1>4
  <2> HIDE DEF s
  <2>2. s # <<>>
    BY <2>1
  <2> QED
    BY <1>5, <2>2 DEF s
<1>7. Cardinality(Away(L, c)) + 1 <= Len(shorter[c])
  BY <1>1, <1>2, <1>4, <1>5
<1>8. Fits(L, shorter)
  <2>1. ASSUME NEW d \in CallIds
        PROVE  /\ IsFiniteSet(Away(L, d))
               /\ Away(L, d) # {} => Cardinality(Away(L, d)) + 1 <= Len(shorter[d])
    BY <1>5, <1>7 DEF Good, Fits
  <2>2. ASSUME NEW a \in Actors, NEW i \in DOMAIN L[<<"queue", a>>],
               Named(L[<<"queue", a>>][i])
        PROVE  shorter[L[<<"queue", a>>][i].call] # <<>>
    <3>1. <<"queue", a>> \in LineNames /\ L[<<"queue", a>>] \in Seq(Thing)
      BY LinesFacts DEF LineNames
    <3>2. L[<<"queue", a>>][i].call \in CallIds
      BY <2>2, <3>1, NamedFacts
    <3>3. chain[L[<<"queue", a>>][i].call] # <<>>
      BY <2>2 DEF Good, Fits
    <3> QED
      BY <1>5, <1>6, <3>2, <3>3
  <2> QED
    BY <2>1, <2>2 DEF Fits
<1> QED
  BY <1>3, <1>5, <1>6, <1>8 DEF Good

LEMMA MoreSendsGood ==
  ASSUME NEW L \in LinesType, NEW chain \in Chains, NEW sends \in [Actors -> Nat],
         Good(L, chain, sends), NEW more \in [Actors -> Nat],
         \A a \in Actors : sends[a] <= more[a]
  PROVE  Good(L, chain, more)
<1>1. ASSUME NEW l \in LineNames, NEW i \in DOMAIN L[l], Named(L[l][i])
      PROVE  L[l][i].req[2] <= more[L[l][i].req[1]]
  <2> DEFINE r == L[l][i].req
  <2>1. r \in Reqs /\ r[2] <= sends[r[1]]
    BY <1>1, LinesFacts, NamedFacts DEF Good, Issued
  <2> HIDE DEF r
  <2>2. r[1] \in Actors /\ r[2] \in Nat
    BY <2>1, ConstantsAssumption DEF Reqs
  <2>3. r[2] <= more[r[1]]
    BY <2>1, <2>2
  <2> QED
    BY <2>3 DEF r
<1> QED
  BY <1>1 DEF Good, Issued

\* Only the line l changes.
OneLine(L, K, l) == \A k \in LineNames \ {l} : K[k] = L[k]

LEMMA UnnamedKeeps ==
  ASSUME NEW L \in LinesType, NEW K \in LinesType, NEW l \in LineNames,
         OneLine(L, K, l),
         \A i \in DOMAIN K[l] : Named(K[l][i]) => i \in DOMAIN L[l] /\ K[l][i] = L[l][i]
  PROVE  Keeps(L, K)
<1>1. SUFFICES ASSUME NEW k \in LineNames
               PROVE  \E d \in Nat : \A i \in DOMAIN K[k] :
                        Named(K[k][i]) => i + d \in DOMAIN L[k] /\ K[k][i] = L[k][i + d]
  BY DEF Keeps
<1>2. DOMAIN K[k] \subseteq Nat
  BY LinesFacts
<1>3. \A i \in DOMAIN K[k] :
        Named(K[k][i]) => i + 0 \in DOMAIN L[k] /\ K[k][i] = L[k][i + 0]
  <2>1. CASE k = l
    BY <1>2, <2>1
  <2>2. CASE k # l
    BY <1>2, <2>2 DEF OneLine
  <2> QED
    BY <2>1, <2>2
<1> QED
  BY <1>3

LEMMA PutUnnamedKeeps ==
  ASSUME NEW L \in LinesType, NEW K \in LinesType, NEW l \in LineNames,
         NEW p \in Thing, PutInto(L, K, l, p), ~Named(p)
  PROVE  Keeps(L, K)
<1>1. \A i \in DOMAIN K[l] : Named(K[l][i]) => i \in DOMAIN L[l] /\ K[l][i] = L[l][i]
  BY PutElements
<1> QED
  BY <1>1, UnnamedKeeps DEF PutInto, OneLine

-----------------------------------------------------------------------------
(* The lines of the system.                                                *)

LinesOf(u, q, d, i, j) ==
  [l \in LineNames |-> CASE l[1] = "up"    -> u[l[2]]
                         [] l[1] = "queue" -> q[l[2]]
                         [] l[1] = "down"  -> d[l[2]]
                         [] l[1] = "inbox" -> i[l[2]]
                         [] l[1] = "job"   -> j[l[2]]]

PerActor == [Actors -> Seq(Thing)]

LEMMA LineKinds ==
  ASSUME NEW l \in LineNames
  PROVE  \E a \in Actors : l \in {<<"up", a>>, <<"queue", a>>, <<"down", a>>,
                                  <<"inbox", a>>, <<"job", a>>}
  BY DEF LineNames

LEMMA LinesTyped ==
  ASSUME NEW u \in PerActor, NEW q \in PerActor, NEW d \in PerActor,
         NEW i \in PerActor, NEW j \in PerActor
  PROVE  LinesOf(u, q, d, i, j) \in LinesType
<1> DEFINE Body(l) == CASE l[1] = "up"    -> u[l[2]]
                        [] l[1] = "queue" -> q[l[2]]
                        [] l[1] = "down"  -> d[l[2]]
                        [] l[1] = "inbox" -> i[l[2]]
                        [] l[1] = "job"   -> j[l[2]]
<1>1. ASSUME NEW l \in LineNames
      PROVE  Body(l) \in Seq(Thing)
  <2>1. PICK a \in Actors : l \in {<<"up", a>>, <<"queue", a>>, <<"down", a>>,
                                   <<"inbox", a>>, <<"job", a>>}
    BY LineKinds
  <2>2. /\ u[a] \in Seq(Thing) /\ q[a] \in Seq(Thing) /\ d[a] \in Seq(Thing)
        /\ i[a] \in Seq(Thing) /\ j[a] \in Seq(Thing)
    BY DEF PerActor
  <2>3. Body(l) \in {u[a], q[a], d[a], i[a], j[a]}
    BY <2>1
  <2> HIDE DEF Body
  <2> QED
    BY <2>2, <2>3
<1>2. LinesOf(u, q, d, i, j) = [l \in LineNames |-> Body(l)]
  BY DEF LinesOf
<1> HIDE DEF Body
<1> QED
  BY <1>1, <1>2 DEF LinesType

\* How the lines of one kind, f, change to g: only that of process a, or this
\* one loses its first pack, or gets one more.
OnlyAt(f, g, a)   == \A b \in Actors \ {a} : g[b] = f[b]
LosesAt(f, g, a)  == OnlyAt(f, g, a) /\ f[a] # <<>> /\ g[a] = Tail(f[a])
GetsAt(f, g, a, p) == OnlyAt(f, g, a) /\ g[a] = Append(f[a], p)

LEMMA LineOnly ==
  ASSUME NEW u, NEW q, NEW d, NEW i, NEW j, NEW f, NEW a \in Actors
  PROVE  /\ OnlyAt(u, f, a) => OneLine(LinesOf(u, q, d, i, j), LinesOf(f, q, d, i, j), <<"up", a>>)
         /\ OnlyAt(q, f, a) => OneLine(LinesOf(u, q, d, i, j), LinesOf(u, f, d, i, j), <<"queue", a>>)
         /\ OnlyAt(d, f, a) => OneLine(LinesOf(u, q, d, i, j), LinesOf(u, q, f, i, j), <<"down", a>>)
         /\ OnlyAt(i, f, a) => OneLine(LinesOf(u, q, d, i, j), LinesOf(u, q, d, f, j), <<"inbox", a>>)
         /\ OnlyAt(j, f, a) => OneLine(LinesOf(u, q, d, i, j), LinesOf(u, q, d, i, f), <<"job", a>>)
<1>1. ASSUME OnlyAt(u, f, a), NEW k \in LineNames \ {<<"up", a>>}
      PROVE  LinesOf(f, q, d, i, j)[k] = LinesOf(u, q, d, i, j)[k]
  <2>1. /\ k[1] \in {"up", "queue", "down", "inbox", "job"} /\ k[2] \in Actors
        /\ k = <<k[1], k[2]>>
    BY DEF LineNames
  <2>2. k[1] = "up" => f[k[2]] = u[k[2]]
    BY <1>1, <2>1 DEF OnlyAt
  <2> QED
    BY <2>1, <2>2 DEF LinesOf
<1>2. ASSUME OnlyAt(q, f, a), NEW k \in LineNames \ {<<"queue", a>>}
      PROVE  LinesOf(u, f, d, i, j)[k] = LinesOf(u, q, d, i, j)[k]
  <2>1. /\ k[1] \in {"up", "queue", "down", "inbox", "job"} /\ k[2] \in Actors
        /\ k = <<k[1], k[2]>>
    BY DEF LineNames
  <2>2. k[1] = "queue" => f[k[2]] = q[k[2]]
    BY <1>2, <2>1 DEF OnlyAt
  <2> QED
    BY <2>1, <2>2 DEF LinesOf
<1>3. ASSUME OnlyAt(d, f, a), NEW k \in LineNames \ {<<"down", a>>}
      PROVE  LinesOf(u, q, f, i, j)[k] = LinesOf(u, q, d, i, j)[k]
  <2>1. /\ k[1] \in {"up", "queue", "down", "inbox", "job"} /\ k[2] \in Actors
        /\ k = <<k[1], k[2]>>
    BY DEF LineNames
  <2>2. k[1] = "down" => f[k[2]] = d[k[2]]
    BY <1>3, <2>1 DEF OnlyAt
  <2> QED
    BY <2>1, <2>2 DEF LinesOf
<1>4. ASSUME OnlyAt(i, f, a), NEW k \in LineNames \ {<<"inbox", a>>}
      PROVE  LinesOf(u, q, d, f, j)[k] = LinesOf(u, q, d, i, j)[k]
  <2>1. /\ k[1] \in {"up", "queue", "down", "inbox", "job"} /\ k[2] \in Actors
        /\ k = <<k[1], k[2]>>
    BY DEF LineNames
  <2>2. k[1] = "inbox" => f[k[2]] = i[k[2]]
    BY <1>4, <2>1 DEF OnlyAt
  <2> QED
    BY <2>1, <2>2 DEF LinesOf
<1>5. ASSUME OnlyAt(j, f, a), NEW k \in LineNames \ {<<"job", a>>}
      PROVE  LinesOf(u, q, d, i, f)[k] = LinesOf(u, q, d, i, j)[k]
  <2>1. /\ k[1] \in {"up", "queue", "down", "inbox", "job"} /\ k[2] \in Actors
        /\ k = <<k[1], k[2]>>
    BY DEF LineNames
  <2>2. k[1] = "job" => f[k[2]] = j[k[2]]
    BY <1>5, <2>1 DEF OnlyAt
  <2> QED
    BY <2>1, <2>2 DEF LinesOf
<1> QED
  BY <1>1, <1>2, <1>3, <1>4, <1>5 DEF OneLine

LEMMA LineTaken ==
  ASSUME NEW u, NEW q, NEW d, NEW i, NEW j, NEW f, NEW a \in Actors
  PROVE  /\ LosesAt(u, f, a) =>
              TakenFrom(LinesOf(u, q, d, i, j), LinesOf(f, q, d, i, j), <<"up", a>>)
         /\ LosesAt(q, f, a) =>
              TakenFrom(LinesOf(u, q, d, i, j), LinesOf(u, f, d, i, j), <<"queue", a>>)
         /\ LosesAt(d, f, a) =>
              TakenFrom(LinesOf(u, q, d, i, j), LinesOf(u, q, f, i, j), <<"down", a>>)
         /\ LosesAt(i, f, a) =>
              TakenFrom(LinesOf(u, q, d, i, j), LinesOf(u, q, d, f, j), <<"inbox", a>>)
         /\ LosesAt(j, f, a) =>
              TakenFrom(LinesOf(u, q, d, i, j), LinesOf(u, q, d, i, f), <<"job", a>>)
<1>1. ASSUME LosesAt(u, f, a)
      PROVE  TakenFrom(LinesOf(u, q, d, i, j), LinesOf(f, q, d, i, j), <<"up", a>>)
  <2>1. OneLine(LinesOf(u, q, d, i, j), LinesOf(f, q, d, i, j), <<"up", a>>)
    BY <1>1, LineOnly DEF LosesAt
  <2>2. LinesOf(u, q, d, i, j)[<<"up", a>>] = u[a]
    BY DEF LinesOf, LineNames
  <2>3. LinesOf(f, q, d, i, j)[<<"up", a>>] = f[a]
    BY DEF LinesOf, LineNames
  <2> QED
    BY <1>1, <2>1, <2>2, <2>3 DEF LosesAt, TakenFrom, OneLine
<1>2. ASSUME LosesAt(q, f, a)
      PROVE  TakenFrom(LinesOf(u, q, d, i, j), LinesOf(u, f, d, i, j), <<"queue", a>>)
  <2>1. OneLine(LinesOf(u, q, d, i, j), LinesOf(u, f, d, i, j), <<"queue", a>>)
    BY <1>2, LineOnly DEF LosesAt
  <2>2. LinesOf(u, q, d, i, j)[<<"queue", a>>] = q[a]
    BY DEF LinesOf, LineNames
  <2>3. LinesOf(u, f, d, i, j)[<<"queue", a>>] = f[a]
    BY DEF LinesOf, LineNames
  <2> QED
    BY <1>2, <2>1, <2>2, <2>3 DEF LosesAt, TakenFrom, OneLine
<1>3. ASSUME LosesAt(d, f, a)
      PROVE  TakenFrom(LinesOf(u, q, d, i, j), LinesOf(u, q, f, i, j), <<"down", a>>)
  <2>1. OneLine(LinesOf(u, q, d, i, j), LinesOf(u, q, f, i, j), <<"down", a>>)
    BY <1>3, LineOnly DEF LosesAt
  <2>2. LinesOf(u, q, d, i, j)[<<"down", a>>] = d[a]
    BY DEF LinesOf, LineNames
  <2>3. LinesOf(u, q, f, i, j)[<<"down", a>>] = f[a]
    BY DEF LinesOf, LineNames
  <2> QED
    BY <1>3, <2>1, <2>2, <2>3 DEF LosesAt, TakenFrom, OneLine
<1>4. ASSUME LosesAt(i, f, a)
      PROVE  TakenFrom(LinesOf(u, q, d, i, j), LinesOf(u, q, d, f, j), <<"inbox", a>>)
  <2>1. OneLine(LinesOf(u, q, d, i, j), LinesOf(u, q, d, f, j), <<"inbox", a>>)
    BY <1>4, LineOnly DEF LosesAt
  <2>2. LinesOf(u, q, d, i, j)[<<"inbox", a>>] = i[a]
    BY DEF LinesOf, LineNames
  <2>3. LinesOf(u, q, d, f, j)[<<"inbox", a>>] = f[a]
    BY DEF LinesOf, LineNames
  <2> QED
    BY <1>4, <2>1, <2>2, <2>3 DEF LosesAt, TakenFrom, OneLine
<1>5. ASSUME LosesAt(j, f, a)
      PROVE  TakenFrom(LinesOf(u, q, d, i, j), LinesOf(u, q, d, i, f), <<"job", a>>)
  <2>1. OneLine(LinesOf(u, q, d, i, j), LinesOf(u, q, d, i, f), <<"job", a>>)
    BY <1>5, LineOnly DEF LosesAt
  <2>2. LinesOf(u, q, d, i, j)[<<"job", a>>] = j[a]
    BY DEF LinesOf, LineNames
  <2>3. LinesOf(u, q, d, i, f)[<<"job", a>>] = f[a]
    BY DEF LinesOf, LineNames
  <2> QED
    BY <1>5, <2>1, <2>2, <2>3 DEF LosesAt, TakenFrom, OneLine
<1> QED
  BY <1>1, <1>2, <1>3, <1>4, <1>5

LEMMA LinePut ==
  ASSUME NEW u, NEW q, NEW d, NEW i, NEW j, NEW f, NEW a \in Actors, NEW p
  PROVE  /\ GetsAt(u, f, a, p) =>
              PutInto(LinesOf(u, q, d, i, j), LinesOf(f, q, d, i, j), <<"up", a>>, p)
         /\ GetsAt(q, f, a, p) =>
              PutInto(LinesOf(u, q, d, i, j), LinesOf(u, f, d, i, j), <<"queue", a>>, p)
         /\ GetsAt(d, f, a, p) =>
              PutInto(LinesOf(u, q, d, i, j), LinesOf(u, q, f, i, j), <<"down", a>>, p)
         /\ GetsAt(i, f, a, p) =>
              PutInto(LinesOf(u, q, d, i, j), LinesOf(u, q, d, f, j), <<"inbox", a>>, p)
         /\ GetsAt(j, f, a, p) =>
              PutInto(LinesOf(u, q, d, i, j), LinesOf(u, q, d, i, f), <<"job", a>>, p)
<1>1. ASSUME GetsAt(u, f, a, p)
      PROVE  PutInto(LinesOf(u, q, d, i, j), LinesOf(f, q, d, i, j), <<"up", a>>, p)
  <2>1. OneLine(LinesOf(u, q, d, i, j), LinesOf(f, q, d, i, j), <<"up", a>>)
    BY <1>1, LineOnly DEF GetsAt
  <2>2. LinesOf(u, q, d, i, j)[<<"up", a>>] = u[a]
    BY DEF LinesOf, LineNames
  <2>3. LinesOf(f, q, d, i, j)[<<"up", a>>] = f[a]
    BY DEF LinesOf, LineNames
  <2> QED
    BY <1>1, <2>1, <2>2, <2>3 DEF GetsAt, PutInto, OneLine
<1>2. ASSUME GetsAt(q, f, a, p)
      PROVE  PutInto(LinesOf(u, q, d, i, j), LinesOf(u, f, d, i, j), <<"queue", a>>, p)
  <2>1. OneLine(LinesOf(u, q, d, i, j), LinesOf(u, f, d, i, j), <<"queue", a>>)
    BY <1>2, LineOnly DEF GetsAt
  <2>2. LinesOf(u, q, d, i, j)[<<"queue", a>>] = q[a]
    BY DEF LinesOf, LineNames
  <2>3. LinesOf(u, f, d, i, j)[<<"queue", a>>] = f[a]
    BY DEF LinesOf, LineNames
  <2> QED
    BY <1>2, <2>1, <2>2, <2>3 DEF GetsAt, PutInto, OneLine
<1>3. ASSUME GetsAt(d, f, a, p)
      PROVE  PutInto(LinesOf(u, q, d, i, j), LinesOf(u, q, f, i, j), <<"down", a>>, p)
  <2>1. OneLine(LinesOf(u, q, d, i, j), LinesOf(u, q, f, i, j), <<"down", a>>)
    BY <1>3, LineOnly DEF GetsAt
  <2>2. LinesOf(u, q, d, i, j)[<<"down", a>>] = d[a]
    BY DEF LinesOf, LineNames
  <2>3. LinesOf(u, q, f, i, j)[<<"down", a>>] = f[a]
    BY DEF LinesOf, LineNames
  <2> QED
    BY <1>3, <2>1, <2>2, <2>3 DEF GetsAt, PutInto, OneLine
<1>4. ASSUME GetsAt(i, f, a, p)
      PROVE  PutInto(LinesOf(u, q, d, i, j), LinesOf(u, q, d, f, j), <<"inbox", a>>, p)
  <2>1. OneLine(LinesOf(u, q, d, i, j), LinesOf(u, q, d, f, j), <<"inbox", a>>)
    BY <1>4, LineOnly DEF GetsAt
  <2>2. LinesOf(u, q, d, i, j)[<<"inbox", a>>] = i[a]
    BY DEF LinesOf, LineNames
  <2>3. LinesOf(u, q, d, f, j)[<<"inbox", a>>] = f[a]
    BY DEF LinesOf, LineNames
  <2> QED
    BY <1>4, <2>1, <2>2, <2>3 DEF GetsAt, PutInto, OneLine
<1>5. ASSUME GetsAt(j, f, a, p)
      PROVE  PutInto(LinesOf(u, q, d, i, j), LinesOf(u, q, d, i, f), <<"job", a>>, p)
  <2>1. OneLine(LinesOf(u, q, d, i, j), LinesOf(u, q, d, i, f), <<"job", a>>)
    BY <1>5, LineOnly DEF GetsAt
  <2>2. LinesOf(u, q, d, i, j)[<<"job", a>>] = j[a]
    BY DEF LinesOf, LineNames
  <2>3. LinesOf(u, q, d, i, f)[<<"job", a>>] = f[a]
    BY DEF LinesOf, LineNames
  <2> QED
    BY <1>5, <2>1, <2>2, <2>3 DEF GetsAt, PutInto, OneLine
<1> QED
  BY <1>1, <1>2, <1>3, <1>4, <1>5

\* The lines of what a process has in its context.
JobLine(job) == IF job = NoMsg THEN <<>> ELSE <<job>>
InboxesOf(c) == [a \in Actors |-> c[a].inbox]
JobsOf(c)    == [a \in Actors |-> JobLine(c[a].job)]
SendsOf(c)   == [a \in Actors |-> c[a].sends]

AllLines(u, q, d, c) == LinesOf(u, q, d, InboxesOf(c), JobsOf(c))

LEMMA PerActorTyped ==
  /\ [Actors -> Seq(UpPack)] \subseteq PerActor
  /\ [Actors -> Seq(DownPack)] \subseteq PerActor
  /\ [Actors -> Seq(Request)] \subseteq PerActor
<1>1. UpPack \subseteq Thing /\ DownPack \subseteq Thing /\ Request \subseteq Thing
  BY DEF Thing, UpPack
<1>2. ASSUME NEW S \in SUBSET Thing
      PROVE  [Actors -> Seq(S)] \subseteq PerActor
  <2>1. Seq(S) \subseteq Seq(Thing)
    OBVIOUS
  <2> QED
    BY <2>1 DEF PerActor
<1> QED
  BY <1>1, <1>2

LEMMA JobLineFacts ==
  ASSUME NEW job \in Msg \cup {NoMsg}
  PROVE  /\ JobLine(job) \in Seq(Thing)
         /\ job = NoMsg => JobLine(job) = <<>>
         /\ job # NoMsg => /\ JobLine(job) # <<>> /\ JobLine(job) = <<job>>
                           /\ Head(JobLine(job)) = job
                           /\ Tail(JobLine(job)) = <<>>
                           /\ JobLine(job) = Append(<<>>, job)
<1>1. ASSUME NEW x \in Thing
      PROVE  /\ <<x>> \in Seq(Thing) /\ <<x>> # <<>> /\ Head(<<x>>) = x
             /\ Tail(<<x>>) = <<>> /\ <<x>> = Append(<<>>, x)
  OBVIOUS
<1>2. <<>> \in Seq(Thing)
  OBVIOUS
<1>3. job # NoMsg => job \in Thing
  BY DEF Thing
<1> QED
  BY <1>1, <1>2, <1>3 DEF JobLine

LEMMA CtxLines ==
  ASSUME NEW c \in [Actors -> Ctx]
  PROVE  /\ InboxesOf(c) \in PerActor /\ JobsOf(c) \in PerActor
         /\ SendsOf(c) \in [Actors -> Nat]
<1>1. \A a \in Actors : c[a].inbox \in Seq(Msg) /\ c[a].job \in Msg \cup {NoMsg}
                        /\ c[a].sends \in 0 .. MaxSends
  BY CtxFields
<1>2. Seq(Msg) \subseteq Seq(Thing)
  BY DEF Thing
<1>3. InboxesOf(c) \in PerActor
  BY <1>1, <1>2 DEF InboxesOf, PerActor
<1>4. JobsOf(c) \in PerActor
  BY <1>1, JobLineFacts DEF JobsOf, PerActor
<1>5. SendsOf(c) \in [Actors -> Nat]
  BY <1>1, ConstantsAssumption DEF SendsOf
<1> QED
  BY <1>3, <1>4, <1>5

LEMMA AllLinesTyped ==
  ASSUME NEW u \in PerActor, NEW q \in PerActor, NEW d \in PerActor,
         NEW c \in [Actors -> Ctx]
  PROVE  AllLines(u, q, d, c) \in LinesType
  BY CtxLines, LinesTyped DEF AllLines

LEMMA MapsLines ==
  ASSUME NEW m \in MapsType
  PROVE  Queues(m) \in PerActor /\ m.chain \in Chains
  BY MapsFields, PerActorTyped DEF Chains

\* What every step does with packs: it takes the first of a line or clears
\* the line, ...
LEMMA TakenGood ==
  ASSUME NEW L \in LinesType, NEW K \in LinesType, NEW l \in LineNames,
         TakenFrom(L, K, l), NEW chain \in Chains, NEW sends, Good(L, chain, sends)
  PROVE  /\ Good(K, chain, sends)
         /\ Head(L[l]) \in Thing
         /\ Named(Head(L[l])) => /\ Absent(K, Head(L[l]).req)
                                 /\ Head(L[l]).req[2] <= sends[Head(L[l]).req[1]]
                                 /\ l[1] = "queue" => chain[Head(L[l]).call] # <<>>
         /\ OnWay(l, Head(L[l])) => Room(K, chain, Head(L[l]).call)
<1>1. Good(K, chain, sends)
  BY TakenKeeps, KeepsGood
<1>2. L[l] \in Seq(Thing) /\ L[l] # <<>>
  BY LinesFacts DEF TakenFrom
<1>3. Head(L[l]) = L[l][1] /\ 1 \in DOMAIN L[l] /\ Head(L[l]) \in Thing
  BY <1>2, TailFacts
<1>4. ASSUME Named(Head(L[l]))
      PROVE  /\ Absent(K, Head(L[l]).req)
             /\ Head(L[l]).req[2] <= sends[Head(L[l]).req[1]]
             /\ l[1] = "queue" => chain[Head(L[l]).call] # <<>>
  <2>1. Absent(K, Head(L[l]).req)
    BY <1>4, TakenGone DEF Good
  <2>2. Head(L[l]).req[2] <= sends[Head(L[l]).req[1]]
    BY <1>3, <1>4 DEF Good, Issued
  <2>3. l[1] = "queue" => chain[Head(L[l]).call] # <<>>
    <3>1. l[1] = "queue" => l = <<"queue", l[2]>> /\ l[2] \in Actors
      BY DEF LineNames
    <3> QED
      BY <1>3, <1>4, <3>1 DEF Good, Fits
  <2> QED
    BY <2>1, <2>2, <2>3
<1>5. OnWay(l, Head(L[l])) => Room(K, chain, Head(L[l]).call)
  BY TakenRoom
<1> QED
  BY <1>1, <1>3, <1>4, <1>5

LEMMA ClearedGood ==
  ASSUME NEW L \in LinesType, NEW K \in LinesType, NEW l \in LineNames,
         OneLine(L, K, l),
         \A i \in DOMAIN K[l] : ~Named(K[l][i]),
         NEW chain \in Chains, NEW sends, Good(L, chain, sends)
  PROVE  Good(K, chain, sends)
  BY UnnamedKeeps, KeepsGood

\* ... and puts one at the end of a line.
LEMMA PutUnnamedGood ==
  ASSUME NEW L \in LinesType, NEW K \in LinesType, NEW l \in LineNames,
         NEW p \in Thing, PutInto(L, K, l, p), ~Named(p),
         NEW chain \in Chains, NEW sends, Good(L, chain, sends)
  PROVE  Good(K, chain, sends)
  BY PutUnnamedKeeps, KeepsGood

-----------------------------------------------------------------------------
(* The proxy's steps.                                                      *)

\* HandleRequest and the write that may follow it (e is what the connections
\* then hold) keep the packs and the chains right.
LEMMA HandleGood ==
  ASSUME Typed, NEW m \in MapsType, NEW a \in Actors,
         NEW r, r = HandleRequest(m, a),
         NEW u \in PerActor, NEW d \in PerActor, NEW i \in PerActor,
         NEW j \in PerActor, NEW e \in PerActor,
         e = d \/ (r.writes /\ GetsAt(d, e, r.to, r.pack)),
         NEW sends, Good(LinesOf(u, Queues(m), d, i, j), m.chain, sends)
  PROVE  Good(LinesOf(u, Queues(r.maps), e, i, j), r.maps.chain, sends)
<1> DEFINE L == LinesOf(u, Queues(m), d, i, j)
           l == <<"queue", a>>
           p == Head(Queues(m)[a])
           popped == [Queues(m) EXCEPT ![a] = Tail(@)]
           K == LinesOf(u, popped, d, i, j)
<1>1. r \in ResultType /\ Handled(m, a, r)
  BY TypedParts, HandleFacts
<1>2. r.maps \in MapsType
  BY <1>1 DEF ResultType
<1>3. /\ Queues(m) \in PerActor /\ m.chain \in Chains
      /\ Queues(r.maps) \in PerActor /\ r.maps.chain \in Chains
  BY <1>2, MapsLines
<1>4. l \in LineNames /\ l[1] = "queue"
  BY DEF LineNames
<1>5. L[l] = Queues(m)[a]
  BY DEF LinesOf, LineNames
<1>6. CASE r.maps = m /\ ~r.writes
  BY <1>6
<1>7. ASSUME Queues(m)[a] # <<>>
      PROVE  /\ popped \in PerActor /\ L \in LinesType /\ K \in LinesType
             /\ Good(K, m.chain, sends)
             /\ p \in Request /\ Absent(K, p.req) /\ p.req[2] <= sends[p.req[1]]
             /\ Named(p) /\ m.chain[p.call] # <<>>
  <2>1. popped \in PerActor
    BY <1>3, <1>7, TailTyped DEF PerActor
  <2>2. LosesAt(Queues(m), popped, a)
    BY <1>3, <1>7 DEF LosesAt, OnlyAt, PerActor
  <2>3. Queues(m)[a] \in Seq(Request)
    BY MapsFields
  <2>4. p \in Request
    BY <1>7, <2>3, TailFacts
  <2>5. Named(p)
    BY <2>4, RequestFields DEF Named
  <2> HIDE DEF popped
  <2>6. L \in LinesType /\ K \in LinesType
    BY <1>3, <2>1, LinesTyped
  <2>7. TakenFrom(L, K, l)
    BY <2>2, LineTaken
  <2>8. p = Head(L[l])
    BY <1>5
  <2>9. Good(L, m.chain, sends)
    OBVIOUS
  <2> HIDE DEF L, K, l, p
  <2>10. /\ Good(K, m.chain, sends) /\ Absent(K, Head(L[l]).req)
         /\ Head(L[l]).req[2] <= sends[Head(L[l]).req[1]]
         /\ m.chain[Head(L[l]).call] # <<>>
    BY <1>3, <1>4, <2>5, <2>6, <2>7, <2>8, <2>9, TakenGood
  <2> QED
    BY <2>1, <2>4, <2>5, <2>6, <2>8, <2>10
<1>8. CASE /\ Queues(m)[a] # <<>> /\ ~r.writes
           /\ Queues(r.maps) = popped /\ r.maps.chain = m.chain
  BY <1>7, <1>8
<1>9. CASE Queues(m)[a] # <<>> /\ Forwarded(popped, m.chain, p, r)
  <2>1. PICK to \in Actors :
          /\ r.maps.chain = [m.chain EXCEPT ![p.call] = Append(@, to)]
          /\ \/ /\ ~r.writes
                /\ Queues(r.maps) = [popped EXCEPT ![to] = Append(@, p)]
             \/ /\ r.writes /\ r.to = to /\ r.pack = p
                /\ Queues(r.maps) = popped
    BY <1>9 DEF Forwarded
  <2>2. /\ popped \in PerActor /\ K \in LinesType /\ Good(K, m.chain, sends)
        /\ p \in Request /\ Absent(K, p.req) /\ p.req[2] <= sends[p.req[1]]
        /\ Named(p) /\ m.chain[p.call] # <<>>
    BY <1>7, <1>9
  <2> DEFINE longer == r.maps.chain
             q == Queues(r.maps)
  <2> HIDE DEF popped, p, K, L, l
  <2>3. p.call \in CallIds /\ p \in Thing
    BY <2>2, RequestFields DEF Thing, UpPack
  <2>4. Good(K, longer, sends) /\ Room(K, longer, p.call) /\ longer[p.call] # <<>>
    <3>1. longer = [m.chain EXCEPT ![p.call] = Append(@, to)]
      BY <2>1
    <3> HIDE DEF longer
    <3> QED
      BY <1>3, <2>2, <2>3, <3>1, GrownRoom, ZenonT(30)
  <2>5. CASE ~r.writes
    <3>1. e = d
      BY <2>5
    <3>2. GetsAt(popped, q, to, p)
      BY <2>1, <2>2, <2>5 DEF GetsAt, OnlyAt, PerActor
    <3> DEFINE M == LinesOf(u, q, d, i, j)
               k == <<"queue", to>>
    <3>3. PutInto(K, M, k, p)
      <4> HIDE DEF q
      <4> QED
        BY <3>2, LinePut DEF K
    <3>4. M \in LinesType
      BY <1>3, LinesTyped
    <3>5. k \in LineNames /\ ~OnWay(k, p)
      BY DEF LineNames, OnWay
    <3> HIDE DEF M, k, q, longer
    <3>6. Good(M, longer, sends)
      BY <1>3, <2>2, <2>3, <2>4, <3>3, <3>4, <3>5, PutGood DEF longer
    <3> QED
      BY <3>1, <3>6 DEF M, q, longer
  <2>6. CASE r.writes /\ e = d
    BY <2>1, <2>4, <2>6 DEF K
  <2>7. CASE r.writes /\ GetsAt(d, e, r.to, r.pack)
    <3>1. GetsAt(d, e, to, p) /\ q = popped
      BY <2>1, <2>7
    <3> DEFINE M == LinesOf(u, popped, e, i, j)
               k == <<"down", to>>
    <3>3. PutInto(K, M, k, p)
      BY <3>1, LinePut DEF K
    <3>4. M \in LinesType
      BY <2>2, LinesTyped
    <3>5. k \in LineNames /\ k[1] # "queue"
      BY DEF LineNames
    <3> HIDE DEF M, k, longer
    <3>6. Good(M, longer, sends)
      BY <1>3, <2>2, <2>3, <2>4, <3>3, <3>4, <3>5, PutGood DEF longer
    <3> QED
      BY <3>1, <3>6 DEF M, q, longer
  <2> QED
    BY <2>5, <2>6, <2>7
<1> QED
  BY <1>1, <1>6, <1>8, <1>9 DEF Handled

\* The packs and the chains are right, and a coroutine that will take the end
\* of a chain when its write is over has a chain to take it from.
PacksGood == Good(AllLines(up, Queues(Maps), down, ctx), call_chain, SendsOf(ctx))

ChainsLeft ==
  \A a \in Actors : coro[a].at \in {"reply", "self"} => call_chain[coro[a].call] # <<>>

PacksInv == PacksGood /\ ChainsLeft

LEMMA StateLines ==
  ASSUME Typed
  PROVE  /\ up \in PerActor /\ Queues(Maps) \in PerActor /\ down \in PerActor
         /\ call_chain \in Chains /\ Maps.chain = call_chain
         /\ InboxesOf(ctx) \in PerActor /\ JobsOf(ctx) \in PerActor
         /\ SendsOf(ctx) \in [Actors -> Nat]
         /\ AllLines(up, Queues(Maps), down, ctx) \in LinesType
  BY TypedParts, PerActorTyped, MapsLines, CtxLines, AllLinesTyped

LEMMA MapsQueues ==
  ASSUME NEW m \in MapsType
  PROVE  /\ actor_info' = m.info => Queues(Maps)' = Queues(m)
         /\ actor_info' = actor_info => Queues(Maps)' = Queues(Maps)
  BY DEF Maps, Queues

\* A step that empties no chain leaves every coroutine its chain.
LEMMA ChainsStay ==
  ASSUME Typed, ChainsLeft, NEW a \in Actors,
         \A c \in CallIds : call_chain[c] # <<>> => call_chain'[c] # <<>>,
         \/ AwaitPack(a)
         \/ \E f : /\ AwaitWrite(a, f)
                   /\ f.at \in {"reply", "self"} => call_chain'[f.call] # <<>>
         \/ coro' = coro
         \/ \E at \in {"read", "closed"} : coro' = [coro EXCEPT ![a] = Idle(at)]
  PROVE  ChainsLeft'
<1>1. coro \in [Actors -> Frame] /\ \A b \in Actors : FrameSet(coro[b])
  BY TypedParts
<1>2. \A b \in Actors : coro[b].at \in {"reply", "self"} => call_chain'[coro[b].call] # <<>>
  BY <1>1 DEF ChainsLeft, FrameSet
<1>3. CASE coro' = coro
  BY <1>2, <1>3 DEF ChainsLeft
<1>4. ASSUME NEW f, coro' = [coro EXCEPT ![a] = f],
             f.at \in {"reply", "self"} => call_chain'[f.call] # <<>>
      PROVE  ChainsLeft'
  <2>1. \A b \in Actors : coro'[b] = IF b = a THEN f ELSE coro[b]
    BY <1>1, <1>4
  <2> QED
    BY <1>2, <1>4, <2>1 DEF ChainsLeft
<1>5. ASSUME NEW at \in {"read", "closed"}, coro' = [coro EXCEPT ![a] = Idle(at)]
      PROVE  ChainsLeft'
  <2>1. Idle(at).at \notin {"reply", "self"}
    BY <1>5 DEF Idle
  <2> QED
    BY <1>4, <1>5, <2>1
<1> QED
  BY <1>3, <1>4, <1>5 DEF AwaitPack, AwaitWrite

LEMMA SuspendPacks ==
  ASSUME Typed, ChainsLeft, NEW a \in Actors, NEW m \in MapsType,
         \A c \in CallIds : call_chain[c] # <<>> => m.chain[c] # <<>>,
         NEW b \in Actors, NEW r, r = HandleRequest(m, b),
         NEW at \in {"request", "self"}, NEW call \in CallIds \cup {NoCall},
         at = "self" => call \in CallIds /\ m.chain[call] # <<>>,
         runq # <<>>, Suspend(a, r, at, call),
         NEW u \in PerActor,
         Good(AllLines(u, Queues(m), down, ctx), m.chain, SendsOf(ctx))
  PROVE  /\ Good(AllLines(u, Queues(Maps)', down', ctx), call_chain', SendsOf(ctx))
         /\ ChainsLeft'
<1>1. /\ r \in ResultType
      /\ r.writes => r.to \in Actors /\ r.pack \in Request
  BY TypedParts, HandleFacts
<1>2. r.maps \in MapsType /\ r.writes \in BOOLEAN
  BY <1>1 DEF ResultType
<1>3. actor_info' = r.maps.info /\ call_chain' = r.maps.chain
  BY DEF Suspend
<1>4. Queues(Maps)' = Queues(r.maps)
  BY <1>2, <1>3, MapsQueues
<1>5. down \in [Actors -> Seq(DownPack)] /\ down \in PerActor
      /\ InboxesOf(ctx) \in PerActor /\ JobsOf(ctx) \in PerActor
  BY TypedParts, StateLines
<1>6. /\ down' = down \/ (r.writes /\ GetsAt(down, down', r.to, r.pack))
      /\ down' \in PerActor
  <2>1. CASE down' = down
    BY <1>5, <2>1
  <2>2. CASE r.writes /\ down' = [down EXCEPT ![r.to] = Append(@, r.pack)]
    <3>1. GetsAt(down, down', r.to, r.pack)
      BY <1>1, <1>5, <2>2 DEF GetsAt, OnlyAt
    <3>2. r.pack \in DownPack
      BY <1>1, <2>2 DEF DownPack
    <3>3. down' \in [Actors -> Seq(DownPack)]
      BY <1>1, <1>5, <2>2, <3>2, AppendTyped
    <3> QED
      BY <2>2, <3>1, <3>3, PerActorTyped
  <2> QED
    BY <2>1, <2>2 DEF Suspend, Transmit
<1>7. Good(LinesOf(u, Queues(r.maps), down', InboxesOf(ctx), JobsOf(ctx)),
           r.maps.chain, SendsOf(ctx))
  BY <1>5, <1>6, HandleGood DEF AllLines
<1>8. \A c \in CallIds : m.chain[c] # <<>> => call_chain'[c] # <<>>
  BY <1>3, HandleKeeps
<1>9. \/ AwaitPack(a)
      \/ \E f : /\ AwaitWrite(a, f)
                /\ f.at \in {"reply", "self"} => call_chain'[f.call] # <<>>
  <2> DEFINE f == [at |-> at, call |-> call, who |-> r.to, pack |-> r.pack,
                   ok |-> link[r.to] = "open"]
  <2>1. AwaitPack(a) \/ AwaitWrite(a, f)
    BY DEF Suspend
  <2>2. f.at \in {"reply", "self"} => call_chain'[f.call] # <<>>
    BY <1>8
  <2> HIDE DEF f
  <2> QED
    BY <2>1, <2>2
<1>10. ChainsLeft'
  <2>1. \A c \in CallIds : call_chain[c] # <<>> => call_chain'[c] # <<>>
    BY <1>8
  <2> QED
    BY <1>9, <2>1, ChainsStay
<1> QED
  BY <1>3, <1>4, <1>7, <1>10 DEF AllLines

LEMMA ResumePacks ==
  ASSUME Typed, ChainsLeft, NEW a \in Actors, NEW m \in MapsType,
         \A c \in CallIds : call_chain[c] # <<>> => m.chain[c] # <<>>,
         NEW call \in CallIds, m.chain[call] # <<>>,
         runq # <<>>, ResumeCaller(a, m, call),
         NEW u \in PerActor,
         Good(AllLines(u, Queues(m), down, ctx), m.chain, SendsOf(ctx))
  PROVE  /\ Good(AllLines(u, Queues(Maps)', down', ctx), call_chain', SendsOf(ctx))
         /\ ChainsLeft'
<1> DEFINE n == CallerFreed(m, call)
           b == Back(m.chain[call])
           r == HandleRequest(n, b)
<1>1. Suspend(a, r, "request", NoCall)
  BY DEF ResumeCaller, CallerFreed
<1>2. n \in MapsType /\ b \in Actors /\ Queues(n) = Queues(m) /\ n.chain = m.chain
  BY CallerFreedFacts
<1>3. NoCall \in CallIds \cup {NoCall}
  OBVIOUS
<1> HIDE DEF n, b
<1> QED
  BY <1>1, <1>2, <1>3, SuspendPacks

\* The proxy takes the first pack of a connection.
LEMMA ReadTaken ==
  ASSUME Typed, PacksGood, NEW a \in Actors, NEW type, Reads(a, type)
  PROVE  /\ up' \in PerActor
         /\ AllLines(up', Queues(Maps), down, ctx) \in LinesType
         /\ Good(AllLines(up', Queues(Maps), down, ctx), call_chain, SendsOf(ctx))
         /\ type \in {"REQUEST", "RESPONSE"} =>
              /\ Absent(AllLines(up', Queues(Maps), down, ctx), Head(up[a]).req)
              /\ Head(up[a]).req[2] <= SendsOf(ctx)[Head(up[a]).req[1]]
         /\ type = "RESPONSE" =>
              Room(AllLines(up', Queues(Maps), down, ctx), call_chain, Head(up[a]).call)
<1> DEFINE L == AllLines(up, Queues(Maps), down, ctx)
           K == AllLines(up', Queues(Maps), down, ctx)
           l == <<"up", a>>
<1>1. /\ up[a] # <<>> /\ Head(up[a]).type = type
      /\ up' = [up EXCEPT ![a] = Tail(@)] /\ up' \in PerActor
  BY ReadsFacts, PerActorTyped
<1>2. L \in LinesType /\ K \in LinesType /\ call_chain \in Chains
  BY <1>1, StateLines, TypedParts, AllLinesTyped
<1>3. LosesAt(up, up', a)
  BY <1>1, StateLines DEF LosesAt, OnlyAt, PerActor
<1>4. TakenFrom(L, K, l)
  BY <1>3, LineTaken DEF AllLines
<1>5. l \in LineNames /\ L[l] = up[a]
  BY DEF LineNames, AllLines, LinesOf
<1>6. type = "RESPONSE" => OnWay(l, Head(up[a]))
  BY <1>1 DEF OnWay
<1>7. type \in {"REQUEST", "RESPONSE"} => Named(Head(up[a]))
  BY <1>1 DEF Named
<1>8. Good(L, call_chain, SendsOf(ctx))
  BY DEF PacksGood
<1> HIDE DEF L, K, l
<1>9. /\ Good(K, call_chain, SendsOf(ctx))
      /\ Named(Head(L[l])) => /\ Absent(K, Head(L[l]).req)
                              /\ Head(L[l]).req[2] <= SendsOf(ctx)[Head(L[l]).req[1]]
      /\ OnWay(l, Head(L[l])) => Room(K, call_chain, Head(L[l]).call)
  BY <1>2, <1>4, <1>5, <1>8, TakenGood
<1> QED
  BY <1>1, <1>2, <1>5, <1>6, <1>7, <1>9 DEF K

\* What a Transmit does to the lines.
LEMMA TransmitLines ==
  ASSUME Typed, NEW t \in Actors, NEW p \in DownPack, Transmit(t, p)
  PROVE  down' \in PerActor /\ (down' = down \/ GetsAt(down, down', t, p))
<1>1. down \in [Actors -> Seq(DownPack)] /\ down' \in [Actors -> Seq(DownPack)]
  BY TypedParts, TransmitTyped
<1>2. down' = down \/ GetsAt(down, down', t, p)
  BY <1>1 DEF Transmit, GetsAt, OnlyAt
<1> QED
  BY <1>1, <1>2, PerActorTyped

LEMMA PacksConnect ==
  ASSUME Typed, PacksInv, NEW a \in Actors, ReadConnect(a), ctx' = ctx
  PROVE  PacksInv'
<1> DEFINE K == AllLines(up', Queues(Maps), down, ctx)
           M == AllLines(up', Queues(Maps)', down, ctx)
           N == AllLines(up', Queues(Maps)', down', ctx)
           l == <<"queue", a>>
           k == <<"down", a>>
<1>1. Reads(a, "CONNECT") /\ Transmit(a, Connack) /\ call_chain' = call_chain
  BY DEF ReadConnect
<1>2. /\ up' \in PerActor /\ K \in LinesType /\ Good(K, call_chain, SendsOf(ctx))
      /\ call_chain \in Chains
  BY <1>1, ReadTaken, StateLines DEF PacksInv
<1>3. /\ OnlyAt(Queues(Maps), Queues(Maps)', a) /\ Queues(Maps)'[a] = <<>>
      /\ Queues(Maps)' \in PerActor
  <2> DEFINE i == [call_id |-> NoCall, is_waiting |-> FALSE, msg_queue |-> <<>>]
  <2>1. actor_info' = [actor_info EXCEPT ![a] = i] /\ actor_info \in [Actors -> Info]
    BY TypedParts DEF ReadConnect
  <2>2. i.msg_queue = <<>>
    OBVIOUS
  <2> HIDE DEF i
  <2>3. \A b \in Actors : actor_info'[b].msg_queue =
                            IF b = a THEN <<>> ELSE actor_info[b].msg_queue
    BY <2>1, <2>2
  <2>4. OnlyAt(Queues(Maps), Queues(Maps)', a) /\ Queues(Maps)'[a] = <<>>
    BY <2>3 DEF OnlyAt, Queues, Maps
  <2>5. \A b \in Actors : Queues(Maps)'[b] \in Seq(Thing)
    <3> DEFINE f == Queues(Maps)
               g == Queues(Maps)'
    <3>1. f \in PerActor
      BY StateLines
    <3>2. OnlyAt(f, g, a) /\ g[a] = <<>>
      BY <2>4
    <3> HIDE DEF f, g
    <3>3. <<>> \in Seq(Thing)
      OBVIOUS
    <3>4. \A b \in Actors : f[b] \in Seq(Thing)
      BY <3>1 DEF PerActor
    <3>5. \A b \in Actors : b = a \/ g[b] = f[b]
      BY <3>2 DEF OnlyAt
    <3>6. \A b \in Actors : g[b] \in Seq(Thing)
      BY <3>2, <3>3, <3>4, <3>5
    <3> QED
      BY <3>6 DEF g
  <2>6. Queues(Maps)' \in PerActor
    BY <2>5 DEF Queues, PerActor
  <2> QED
    BY <2>4, <2>6
<1>4. M \in LinesType /\ OneLine(K, M, l) /\ M[l] = <<>>
  <2>1. M \in LinesType
    BY <1>2, <1>3, StateLines, TypedParts, AllLinesTyped
  <2>2. OneLine(K, M, l)
    BY <1>3, LineOnly DEF AllLines
  <2>3. M[l] = <<>>
    BY <1>3 DEF AllLines, LinesOf, LineNames
  <2> QED
    BY <2>1, <2>2, <2>3
<1>5. Connack \in DownPack /\ Connack \in Thing /\ ~Named(Connack)
  BY DEF DownPack, Thing, Connack, Named
<1>6. down' \in PerActor /\ (down' = down \/ GetsAt(down, down', a, Connack))
  BY <1>1, <1>5, TransmitLines
<1>7. N \in LinesType /\ (N = M \/ PutInto(M, N, k, Connack))
  <2>1. N \in LinesType
    BY <1>2, <1>3, <1>6, TypedParts, AllLinesTyped
  <2>2. GetsAt(down, down', a, Connack) => PutInto(M, N, k, Connack)
    BY LinePut DEF AllLines
  <2> QED
    BY <1>6, <2>1, <2>2
<1>8. l \in LineNames /\ k \in LineNames
  BY DEF LineNames
<1>9. ChainsLeft'
  <2>1. AwaitWrite(a, Idle("connack")) /\ Idle("connack").at = "connack"
    BY DEF ReadConnect, Idle
  <2> QED
    BY <1>1, <2>1, ChainsStay DEF PacksInv
<1> HIDE DEF K, M, N, l, k
<1>10. Good(M, call_chain, SendsOf(ctx))
  BY <1>2, <1>4, <1>8, ClearedGood
<1>11. Good(N, call_chain, SendsOf(ctx))
  BY <1>2, <1>4, <1>5, <1>7, <1>8, <1>10, PutUnnamedGood
<1> QED
  BY <1>1, <1>9, <1>11 DEF N, PacksInv, PacksGood

LEMMA PacksRequest ==
  ASSUME Typed, PacksInv, NEW a \in Actors, ReadRequest(a), ctx' = ctx
  PROVE  PacksInv'
<1> DEFINE pack == Head(up[a])
           m == Queued(pack)
           K == AllLines(up', Queues(Maps), down, ctx)
           M == AllLines(up', Queues(m), down, ctx)
           l == <<"queue", pack.pid>>
<1>1. Reads(a, "REQUEST")
  BY DEF ReadRequest
<1>2. pack \in Request /\ runq # <<>>
  BY <1>1, ReadsFacts, PackKinds
<1>3. /\ pack.pid \in Actors /\ pack.call \in CallIds /\ pack \in Thing
      /\ Named(pack)
  BY <1>2, RequestFields DEF Thing, UpPack, Named
<1>4. /\ up' \in PerActor /\ K \in LinesType /\ Good(K, call_chain, SendsOf(ctx))
      /\ Absent(K, pack.req) /\ pack.req[2] <= SendsOf(ctx)[pack.req[1]]
      /\ call_chain \in Chains /\ down \in PerActor
  BY <1>1, ReadTaken, StateLines DEF PacksInv
<1>5. /\ m \in MapsType
      /\ Queues(m) = [Queues(Maps) EXCEPT ![pack.pid] = Append(@, pack)]
      /\ m.chain = [call_chain EXCEPT ![pack.call] = Started(@, pack.pid)]
  BY <1>2, QueuedFacts
<1>6. Suspend(a, HandleRequest(m, pack.pid), "request", NoCall)
  BY <1>2, QueuedFacts DEF ReadRequest
<1>7. Queues(Maps) \in PerActor
  BY StateLines
<1> HIDE DEF m, pack
<1>8. GetsAt(Queues(Maps), Queues(m), pack.pid, pack)
  BY <1>3, <1>5, <1>7 DEF GetsAt, OnlyAt, PerActor
<1>9. PutInto(K, M, l, pack)
  <2> DEFINE q == Queues(m)
  <2>1. GetsAt(Queues(Maps), q, pack.pid, pack)
    BY <1>8
  <2> HIDE DEF q
  <2>2. PutInto(K, AllLines(up', q, down, ctx), l, pack)
    BY <1>3, <2>1, LinePut DEF AllLines
  <2> QED
    BY <2>2 DEF q
<1>10. M \in LinesType /\ m.chain \in Chains
  BY <1>4, <1>5, MapsLines, TypedParts, AllLinesTyped
<1>11. /\ m.chain[pack.call] # <<>>
       /\ \A c \in CallIds : /\ Len(m.chain[c]) >= Len(call_chain[c])
                             /\ call_chain[c] # <<>> => m.chain[c] # <<>>
  <2> DEFINE s == call_chain[pack.call]
  <2>1. s \in Seq(Actors) /\ call_chain \in [CallIds -> Seq(Actors)]
    BY <1>3, TypedParts
  <2>2. /\ Started(s, pack.pid) # <<>> /\ Started(s, pack.pid) \in Seq(Actors)
        /\ s # <<>> => Started(s, pack.pid) = s
    <3> HIDE DEF s
    <3> QED
      BY <1>3, <2>1, StartedFacts, ZenonT(30)
  <2>3. Len(Started(s, pack.pid)) >= Len(s)
    <3> HIDE DEF s
    <3>1. CASE s = <<>>
      BY <2>2, <3>1
    <3>2. CASE s # <<>>
      BY <2>1, <2>2, <3>2
    <3> QED
      BY <3>1, <3>2
  <2>4. \A c \in CallIds : m.chain[c] = IF c = pack.call THEN Started(s, pack.pid)
                                        ELSE call_chain[c]
    BY <1>5, <2>1
  <2>5. \A c \in CallIds : Len(call_chain[c]) \in Nat
    BY <2>1
  <2> QED
    BY <1>3, <2>2, <2>3, <2>4, <2>5
<1>12. l \in LineNames /\ ~OnWay(l, pack)
  BY <1>3 DEF LineNames, OnWay
<1>13. Good(M, m.chain, SendsOf(ctx))
  <2> DEFINE chain == m.chain
  <2>1. chain \in Chains /\ chain[pack.call] # <<>>
        /\ \A c \in CallIds : Len(chain[c]) >= Len(call_chain[c])
    BY <1>10, <1>11
  <2> HIDE DEF chain, K, M, l
  <2>2. Good(K, chain, SendsOf(ctx))
    BY <1>4, <2>1, LongerGood
  <2>3. Good(M, chain, SendsOf(ctx))
    BY <1>3, <1>4, <1>9, <1>10, <1>12, <2>1, <2>2, PutGood
  <2> QED
    BY <2>3 DEF chain
<1>14. ChainsLeft /\ NoCall \in CallIds \cup {NoCall}
  BY DEF PacksInv
<1> HIDE DEF K, l
<1>15. /\ Good(AllLines(up', Queues(Maps)', down', ctx), call_chain', SendsOf(ctx))
       /\ ChainsLeft'
  BY <1>2, <1>3, <1>4, <1>5, <1>6, <1>11, <1>13, <1>14, SuspendPacks
<1> QED
  BY <1>15 DEF PacksInv, PacksGood

\* The response that is taken leaves room for the responder to leave the
\* chain, which is what keeps back() defined.
LEMMA PacksResponse ==
  ASSUME Typed, PacksInv, NEW a \in Actors, ReadResponse(a), ctx' = ctx
  PROVE  PacksInv'
<1> DEFINE pack == Head(up[a])
           c == pack.call
           chain == call_chain[c]
           to == Back(Popped(chain))
           K == AllLines(up', Queues(Maps), down, ctx)
           M == AllLines(up', Queues(Maps), down', ctx)
           l == <<"down", to>>
           f == [at |-> "reply", call |-> c, who |-> Back(chain),
                 pack |-> NoRequest, ok |-> TRUE]
<1>1. /\ Reads(a, "RESPONSE") /\ Len(chain) >= 2
      /\ call_chain' = [call_chain EXCEPT ![c] = Popped(@)]
      /\ Transmit(to, pack) /\ AwaitWrite(a, f)
      /\ actor_info' = actor_info
  BY DEF ReadResponse
<1>2. pack \in Response
  BY <1>1, ReadsFacts, PackKinds
<1>3. /\ c \in CallIds /\ pack \in Thing /\ pack \in DownPack
      /\ Named(pack)
  BY <1>2 DEF Response, Thing, DownPack, UpPack, Named
<1>4. /\ up' \in PerActor /\ K \in LinesType /\ Good(K, call_chain, SendsOf(ctx))
      /\ Absent(K, pack.req) /\ pack.req[2] <= SendsOf(ctx)[pack.req[1]]
      /\ Room(K, call_chain, c)
      /\ call_chain \in Chains /\ Queues(Maps) \in PerActor
  BY <1>1, ReadTaken, StateLines DEF PacksInv
<1>5. /\ call_chain' \in Chains /\ Good(K, call_chain', SendsOf(ctx))
      /\ \A e \in CallIds : call_chain[e] # <<>> => call_chain'[e] # <<>>
  <2> DEFINE shorter == call_chain'
  <2>1. shorter = Shortened(call_chain, c) /\ c \in CallIds
    BY <1>1, <1>3 DEF Shortened
  <2> HIDE DEF K, c, shorter
  <2>2. /\ shorter \in Chains /\ Good(K, shorter, SendsOf(ctx))
        /\ \A e \in CallIds : call_chain[e] # <<>> => shorter[e] # <<>>
    BY <1>4, <2>1, PoppedGood
  <2> QED
    BY <2>2 DEF shorter
<1>6. to \in Actors /\ chain # <<>>
  <2>1. chain \in Seq(Actors) /\ Len(chain) >= 2
    BY <1>1, <1>3, TypedParts
  <2> HIDE DEF chain
  <2>2. chain # <<>>
    BY <2>1
  <2>3. Popped(chain) \in Seq(Actors) /\ Len(Popped(chain)) = Len(chain) - 1
    BY <2>1, <2>2, PoppedFacts
  <2>4. Popped(chain) # <<>>
    BY <2>1, <2>3
  <2> QED
    BY <2>2, <2>3, <2>4, PoppedFacts
<1>7. call_chain'[c] # <<>>
  BY <1>3, <1>5, <1>6
<1> HIDE DEF c, pack, to
<1>8. down' \in PerActor /\ (down' = down \/ GetsAt(down, down', to, pack))
  BY <1>1, <1>3, <1>6, TransmitLines
<1>9. M \in LinesType /\ (M = K \/ PutInto(K, M, l, pack))
  <2>1. M \in LinesType
    BY <1>4, <1>8, TypedParts, AllLinesTyped
  <2>2. GetsAt(down, down', to, pack) => PutInto(K, M, l, pack)
    BY <1>6, LinePut DEF AllLines
  <2> QED
    BY <1>8, <2>1, <2>2
<1>10. l \in LineNames /\ ~OnWay(l, pack) /\ l[1] # "queue"
  BY <1>2, <1>6 DEF LineNames, OnWay, Response
<1>11. Good(M, call_chain', SendsOf(ctx))
  <2> DEFINE shorter == call_chain'
  <2>1. shorter \in Chains /\ Good(K, shorter, SendsOf(ctx))
    BY <1>5
  <2> HIDE DEF shorter, K, M, l
  <2>2. Good(M, shorter, SendsOf(ctx))
    BY <1>3, <1>4, <1>9, <1>10, <2>1, PutGood
  <2> QED
    BY <2>2 DEF shorter
<1>12. ChainsLeft'
  <2>1. f.at \in {"reply", "self"} => call_chain'[f.call] # <<>>
    BY <1>7
  <2>2. AwaitWrite(a, f) /\ ChainsLeft
    BY <1>1 DEF PacksInv
  <2> HIDE DEF f
  <2> QED
    BY <1>5, <2>1, <2>2, ChainsStay
<1>13. Queues(Maps)' = Queues(Maps)
  BY <1>1, MapsQueues, TypedParts
<1> QED
  BY <1>11, <1>12, <1>13 DEF PacksInv, PacksGood

LEMMA PacksReply ==
  ASSUME Typed, PacksInv, NEW a \in Actors, ReplyWritten(a), ctx' = ctx
  PROVE  PacksInv'
<1> DEFINE call == coro[a].call
           who == coro[a].who
           m == UpdateActorInfo(Maps, who, NoCall, FALSE)
           r == HandleRequest(m, who)
<1>1. /\ call \in CallIds /\ who \in Actors /\ call_chain[call] # <<>>
      /\ runq # <<>> /\ up' = up
  BY TypedParts DEF ReplyWritten, Resumes, FrameSet
<1>2. IF r.writes THEN Suspend(a, r, "self", call) ELSE ResumeCaller(a, r.maps, call)
  BY DEF ReplyWritten
<1>3. m \in MapsType /\ Queues(m) = Queues(Maps) /\ m.chain = call_chain
  <2>1. NoCall \in CallIds \cup {NoCall} /\ FALSE \in BOOLEAN
    OBVIOUS
  <2> QED
    BY <1>1, <2>1, TypedParts, UpdateFacts
<1> HIDE DEF m, call, who
<1>4. r \in ResultType
  BY <1>1, <1>3, TypedParts, HandleFacts
<1>5. r.maps \in MapsType /\ r.writes \in BOOLEAN
  BY <1>4 DEF ResultType
<1>6. \A c \in CallIds : call_chain[c] # <<>> => r.maps.chain[c] # <<>>
  BY <1>1, <1>3, HandleKeeps
<1>7. /\ Good(AllLines(up, Queues(m), down, ctx), m.chain, SendsOf(ctx))
      /\ ChainsLeft /\ up \in PerActor
  BY <1>3, StateLines DEF PacksInv, PacksGood
<1>8. Good(AllLines(up, Queues(r.maps), down, ctx), r.maps.chain, SendsOf(ctx))
  BY <1>1, <1>3, <1>7, StateLines, HandleGood DEF AllLines
<1>9. CASE r.writes
  <2>1. Suspend(a, r, "self", call)
    BY <1>2, <1>9
  <2> QED
    BY <1>1, <1>3, <1>7, <2>1, SuspendPacks DEF PacksInv, PacksGood
<1>10. CASE ~r.writes
  <2> DEFINE n == r.maps
  <2>1. ResumeCaller(a, n, call)
    BY <1>2, <1>10
  <2>2. /\ n \in MapsType /\ n.chain[call] # <<>>
        /\ \A c \in CallIds : call_chain[c] # <<>> => n.chain[c] # <<>>
        /\ Good(AllLines(up, Queues(n), down, ctx), n.chain, SendsOf(ctx))
    BY <1>1, <1>5, <1>6, <1>8
  <2> HIDE DEF n
  <2> QED
    BY <1>1, <1>7, <2>1, <2>2, ResumePacks DEF PacksInv, PacksGood
<1> QED
  BY <1>9, <1>10

LEMMA PacksSelf ==
  ASSUME Typed, PacksInv, NEW a \in Actors, SelfDone(a), ctx' = ctx
  PROVE  PacksInv'
<1> DEFINE m == RequestWritten(Maps, coro[a])
           call == coro[a].call
<1>1. /\ coro[a] \in Frame /\ call \in CallIds
      /\ coro[a].who \in Actors /\ coro[a].pack \in Request
      /\ call_chain[call] # <<>>
      /\ ResumeCaller(a, m, call)
      /\ runq # <<>> /\ up' = up
  BY TypedParts DEF SelfDone, Resumes, FrameSet
<1>2. m \in MapsType /\ Queues(m) = Queues(Maps) /\ m.chain = call_chain
  BY <1>1, TypedParts, RequestWrittenFacts
<1>3. /\ Good(AllLines(up, Queues(m), down, ctx), m.chain, SendsOf(ctx))
      /\ ChainsLeft /\ up \in PerActor
  BY <1>2, StateLines DEF PacksInv, PacksGood
<1> HIDE DEF m, call
<1> QED
  BY <1>1, <1>2, <1>3, ResumePacks DEF PacksInv, PacksGood

\* The steps of the proxy that move no pack.
LEMMA PacksStill ==
  ASSUME Typed, PacksInv, NEW a \in Actors, ctx' = ctx,
         Accept(a) \/ Arrive(a) \/ ConnackWritten(a) \/ RequestDone(a) \/ ReadEof(a)
  PROVE  PacksInv'
<1>1. UNCHANGED <<up, down>>
  BY DEF Accept, Arrive, ConnackWritten, RequestDone, ReadEof
<1>2. Queues(Maps)' = Queues(Maps) /\ call_chain' = call_chain
  <2>1. CASE RequestDone(a)
    <3> DEFINE m == RequestWritten(Maps, coro[a])
    <3>1. coro[a] \in Frame /\ coro[a].who \in Actors /\ coro[a].pack \in Request
      BY <2>1, TypedParts DEF RequestDone, Resumes, FrameSet
    <3>2. m \in MapsType /\ Queues(m) = Queues(Maps) /\ m.chain = call_chain
      BY <3>1, TypedParts, RequestWrittenFacts
    <3>3. actor_info' = m.info /\ call_chain' = m.chain
      BY <2>1 DEF RequestDone
    <3> HIDE DEF m
    <3> QED
      BY <3>2, <3>3, MapsQueues
  <2>2. CASE ~RequestDone(a)
    <3>1. actor_info' = actor_info /\ call_chain' = call_chain
      BY <2>2 DEF Accept, Arrive, ConnackWritten, ReadEof
    <3> QED
      BY <3>1, MapsQueues, TypedParts
  <2> QED
    BY <2>1, <2>2
<1>3. \/ AwaitPack(a) \/ coro' = coro
      \/ \E at \in {"read", "closed"} : coro' = [coro EXCEPT ![a] = Idle(at)]
  BY DEF Accept, Arrive, ConnackWritten, RequestDone, ReadEof
<1>4. ChainsLeft'
  BY <1>2, <1>3, ChainsStay DEF PacksInv
<1> QED
  BY <1>1, <1>2, <1>4 DEF PacksInv, PacksGood

LEMMA PacksProxy ==
  ASSUME Typed, PacksInv, NEW a \in Actors, Proxies(a)
  PROVE  PacksInv'
  BY PacksConnect, PacksRequest, PacksResponse, PacksReply, PacksSelf, PacksStill
     DEF Proxies, ProxyStep

-----------------------------------------------------------------------------
(* The actors' steps.                                                      *)

\* Of the contexts, only that of process a changes.
LEMMA CtxSet ==
  ASSUME NEW c \in [Actors -> Ctx], NEW e \in [Actors -> Ctx], NEW a \in Actors,
         OnlyAt(c, e, a)
  PROVE  /\ OnlyAt(InboxesOf(c), InboxesOf(e), a)
         /\ InboxesOf(c)[a] = c[a].inbox /\ InboxesOf(e)[a] = e[a].inbox
         /\ OnlyAt(JobsOf(c), JobsOf(e), a)
         /\ JobsOf(c)[a] = JobLine(c[a].job) /\ JobsOf(e)[a] = JobLine(e[a].job)
         /\ SendsOf(c)[a] = c[a].sends /\ SendsOf(e)[a] = e[a].sends
         /\ \A b \in Actors \ {a} : SendsOf(e)[b] = SendsOf(c)[b]
         /\ e[a].inbox = c[a].inbox => InboxesOf(e) = InboxesOf(c)
         /\ e[a].job = c[a].job => JobsOf(e) = JobsOf(c)
         /\ e[a].sends = c[a].sends => SendsOf(e) = SendsOf(c)
<1>1. \A b \in Actors \ {a} : e[b] = c[b]
  BY DEF OnlyAt
<1>2. /\ OnlyAt(InboxesOf(c), InboxesOf(e), a)
      /\ InboxesOf(c)[a] = c[a].inbox /\ InboxesOf(e)[a] = e[a].inbox
  BY <1>1 DEF OnlyAt, InboxesOf
<1>3. /\ OnlyAt(JobsOf(c), JobsOf(e), a)
      /\ JobsOf(c)[a] = JobLine(c[a].job) /\ JobsOf(e)[a] = JobLine(e[a].job)
  BY <1>1 DEF OnlyAt, JobsOf
<1>4. /\ SendsOf(c)[a] = c[a].sends /\ SendsOf(e)[a] = e[a].sends
      /\ \A b \in Actors \ {a} : SendsOf(e)[b] = SendsOf(c)[b]
  BY <1>1 DEF SendsOf
<1>5. e[a].inbox = c[a].inbox => InboxesOf(e) = InboxesOf(c)
  BY <1>1 DEF InboxesOf
<1>6. e[a].job = c[a].job => JobsOf(e) = JobsOf(c)
  BY <1>1 DEF JobsOf
<1>7. e[a].sends = c[a].sends => SendsOf(e) = SendsOf(c)
  BY <1>1 DEF SendsOf
<1> QED
  BY <1>2, <1>3, <1>4, <1>5, <1>6, <1>7

LEMMA TypedAfter ==
  ASSUME Typed'
  PROVE  /\ up' \in PerActor /\ down' \in PerActor /\ ctx' \in [Actors -> Ctx]
         /\ InboxesOf(ctx') \in PerActor /\ JobsOf(ctx') \in PerActor
         /\ SendsOf(ctx') \in [Actors -> Nat]
<1>1. /\ up' \in [Actors -> Seq(UpPack)] /\ down' \in [Actors -> Seq(DownPack)]
      /\ ctx' \in [Actors -> Ctx]
  BY DEF Typed, TypeOK, ProxyTypeOK, UpPack, DownPack
<1> QED
  BY <1>1, PerActorTyped, CtxLines

\* The actors leave the proxy's queues, chains and coroutines alone.
LEMMA PacksActor ==
  ASSUME Typed, PacksInv, UNCHANGED <<actor_info, call_chain, coro>>,
         Good(AllLines(up', Queues(Maps), down', ctx'), call_chain, SendsOf(ctx'))
  PROVE  PacksInv'
<1>1. Queues(Maps)' = Queues(Maps)
  BY MapsQueues, TypedParts
<1> QED
  BY <1>1 DEF PacksInv, PacksGood, ChainsLeft

\* A process takes the first pack of its connection.
LEMMA DownTaken ==
  ASSUME Typed, PacksInv, NEW a \in Actors, down[a] # <<>>,
         down' = [down EXCEPT ![a] = Tail(@)]
  PROVE  /\ down' \in PerActor
         /\ AllLines(up, Queues(Maps), down', ctx) \in LinesType
         /\ Good(AllLines(up, Queues(Maps), down', ctx), call_chain, SendsOf(ctx))
         /\ Head(down[a]) \in DownPack
         /\ Head(down[a]).type = "REQUEST" =>
              /\ Absent(AllLines(up, Queues(Maps), down', ctx), Head(down[a]).req)
              /\ Head(down[a]).req[2] <= SendsOf(ctx)[Head(down[a]).req[1]]
              /\ Room(AllLines(up, Queues(Maps), down', ctx), call_chain,
                      Head(down[a]).call)
<1> DEFINE L == AllLines(up, Queues(Maps), down, ctx)
           K == AllLines(up, Queues(Maps), down', ctx)
           l == <<"down", a>>
<1>1. /\ down \in [Actors -> Seq(DownPack)] /\ Head(down[a]) \in DownPack
      /\ down' \in PerActor
  BY TypedParts, TailTyped, TailFacts, PerActorTyped
<1>2. L \in LinesType /\ K \in LinesType /\ call_chain \in Chains
  BY <1>1, StateLines, TypedParts, AllLinesTyped
<1>3. LosesAt(down, down', a)
  BY <1>1 DEF LosesAt, OnlyAt
<1>4. TakenFrom(L, K, l)
  BY <1>3, LineTaken DEF AllLines
<1>5. l \in LineNames /\ L[l] = down[a]
  BY DEF LineNames, AllLines, LinesOf
<1>6. Head(down[a]).type = "REQUEST" => OnWay(l, Head(down[a])) /\ Named(Head(down[a]))
  BY DEF OnWay, Named
<1>8. Good(L, call_chain, SendsOf(ctx))
  BY DEF PacksInv, PacksGood
<1> HIDE DEF L, K, l
<1>9. /\ Good(K, call_chain, SendsOf(ctx))
      /\ Named(Head(L[l])) => /\ Absent(K, Head(L[l]).req)
                              /\ Head(L[l]).req[2] <= SendsOf(ctx)[Head(L[l]).req[1]]
      /\ OnWay(l, Head(L[l])) => Room(K, call_chain, Head(L[l]).call)
  BY <1>2, <1>4, <1>5, <1>8, TakenGood
<1> QED
  BY <1>1, <1>2, <1>5, <1>6, <1>9 DEF K

\* The lines of process a and of the others after a step that touches only
\* the context of process a.
LEMMA CtxNow ==
  ASSUME Typed, Typed', NEW a \in Actors, OnlyAt(ctx, ctx', a)
  PROVE  /\ OnlyAt(InboxesOf(ctx), InboxesOf(ctx'), a)
         /\ InboxesOf(ctx)[a] = ctx[a].inbox /\ InboxesOf(ctx')[a] = ctx'[a].inbox
         /\ OnlyAt(JobsOf(ctx), JobsOf(ctx'), a)
         /\ JobsOf(ctx)[a] = JobLine(ctx[a].job) /\ JobsOf(ctx')[a] = JobLine(ctx'[a].job)
         /\ SendsOf(ctx)[a] = ctx[a].sends /\ SendsOf(ctx')[a] = ctx'[a].sends
         /\ \A b \in Actors \ {a} : SendsOf(ctx')[b] = SendsOf(ctx)[b]
         /\ ctx'[a].inbox = ctx[a].inbox => InboxesOf(ctx') = InboxesOf(ctx)
         /\ ctx'[a].job = ctx[a].job => JobsOf(ctx') = JobsOf(ctx)
         /\ ctx'[a].sends = ctx[a].sends => SendsOf(ctx') = SendsOf(ctx)
<1>1. ctx \in [Actors -> Ctx] /\ ctx' \in [Actors -> Ctx]
  BY TypedParts, TypedAfter
<1> QED
  BY <1>1, CtxSet, ZenonT(30)

\* What a step of process a finds, and leaves, in the state.
LEMMA ActorState ==
  ASSUME Typed, PacksInv, NEW a \in Actors
  PROVE  /\ ctx[a] \in Ctx /\ ctx \in [Actors -> Ctx]
         /\ up \in [Actors -> Seq(UpPack)] /\ down \in [Actors -> Seq(DownPack)]
         /\ up \in PerActor /\ Queues(Maps) \in PerActor /\ down \in PerActor
         /\ InboxesOf(ctx) \in PerActor /\ JobsOf(ctx) \in PerActor
         /\ SendsOf(ctx) \in [Actors -> Nat] /\ call_chain \in Chains
         /\ AllLines(up, Queues(Maps), down, ctx) \in LinesType
         /\ Good(AllLines(up, Queues(Maps), down, ctx), call_chain, SendsOf(ctx))
  BY TypedParts, StateLines DEF PacksInv, PacksGood

LEMMA PacksConnects ==
  ASSUME Typed, Typed', PacksInv, NEW a \in Actors, ActorConnect(a)
  PROVE  PacksInv'
<1> DEFINE L == AllLines(up, Queues(Maps), down, ctx)
           K == AllLines(up', Queues(Maps), down, ctx)
           l == <<"up", a>>
<1> USE ActorState, TypedAfter
<1>1. /\ OnlyAt(ctx, ctx', a) /\ ctx'[a].inbox = ctx[a].inbox
      /\ ctx'[a].job = ctx[a].job /\ ctx'[a].sends = ctx[a].sends
  BY DEF ActorConnect, Ctx, OnlyAt
<1>2. /\ InboxesOf(ctx') = InboxesOf(ctx) /\ JobsOf(ctx') = JobsOf(ctx)
      /\ SendsOf(ctx') = SendsOf(ctx)
  BY <1>1, CtxNow
<1>3. OnlyAt(up, up', a) /\ up'[a] = <<Connect>>
  BY DEF ActorConnect, OnlyAt
<1>4. L \in LinesType /\ K \in LinesType /\ l \in LineNames
  BY AllLinesTyped DEF LineNames
<1>5. OneLine(L, K, l)
  BY <1>3, LineOnly DEF AllLines
<1>6. \A i \in DOMAIN K[l] : ~Named(K[l][i])
  <2>1. K[l] = <<Connect>>
    BY <1>3 DEF AllLines, LinesOf, LineNames
  <2>2. \A i \in DOMAIN <<Connect>> : <<Connect>>[i] = Connect
    OBVIOUS
  <2> QED
    BY <2>1, <2>2 DEF Connect, Named
<1>7. Good(K, call_chain, SendsOf(ctx))
  <2>1. Good(L, call_chain, SendsOf(ctx))
    OBVIOUS
  <2> HIDE DEF L, K, l
  <2> QED
    BY <1>4, <1>5, <1>6, <2>1, ClearedGood
<1>8. down' = down /\ UNCHANGED <<actor_info, call_chain, coro>>
  BY DEF ActorConnect
<1> QED
  BY <1>2, <1>7, <1>8, PacksActor DEF AllLines

LEMMA PacksReceived ==
  ASSUME Typed, Typed', PacksInv, NEW a \in Actors,
         ReceiveConnack(a) \/ ReceiveRequest(a) \/ ReceiveResponse(a)
  PROVE  PacksInv'
<1> DEFINE K == AllLines(up, Queues(Maps), down', ctx)
           p == Head(down[a])
<1> USE ActorState, TypedAfter
<1>1. /\ UNCHANGED <<actor_info, call_chain, coro, up>>
      /\ down[a] # <<>> /\ down' = [down EXCEPT ![a] = Tail(@)]
  BY DEF ReceiveConnack, ReceiveRequest, ReceiveResponse, Receives
<1>2. /\ K \in LinesType /\ Good(K, call_chain, SendsOf(ctx)) /\ p \in DownPack
      /\ p.type = "REQUEST" => /\ Absent(K, p.req)
                               /\ p.req[2] <= SendsOf(ctx)[p.req[1]]
                               /\ Room(K, call_chain, p.call)
  BY <1>1, DownTaken
<1>3. CASE ReceiveConnack(a) \/ ReceiveResponse(a)
  <2>1. /\ OnlyAt(ctx, ctx', a) /\ ctx'[a].inbox = ctx[a].inbox
        /\ ctx'[a].job = ctx[a].job /\ ctx'[a].sends = ctx[a].sends
    <3>1. CASE ReceiveConnack(a)
      BY <3>1 DEF ReceiveConnack, Ctx, OnlyAt
    <3>2. CASE ReceiveResponse(a)
      BY <3>2 DEF ReceiveResponse, Ctx, OnlyAt
    <3> QED
      BY <1>3, <3>1, <3>2
  <2>2. /\ InboxesOf(ctx') = InboxesOf(ctx) /\ JobsOf(ctx') = JobsOf(ctx)
        /\ SendsOf(ctx') = SendsOf(ctx)
    BY <2>1, CtxNow
  <2> QED
    BY <1>1, <1>2, <2>2, PacksActor DEF AllLines
<1>4. CASE ReceiveRequest(a)
  <2> DEFINE M == AllLines(up, Queues(Maps), down', ctx')
             l == <<"inbox", a>>
  <2>1. p.type = "REQUEST"
    BY <1>4 DEF ReceiveRequest, Receives, IsNext
  <2>2. p \in Request /\ p \in Thing /\ Named(p)
    BY <1>2, <2>1, PackKinds DEF Thing, UpPack, Named
  <2>3. /\ OnlyAt(ctx, ctx', a) /\ ctx'[a].inbox = Append(ctx[a].inbox, p)
        /\ ctx'[a].job = ctx[a].job /\ ctx'[a].sends = ctx[a].sends
    BY <1>4 DEF ReceiveRequest, Ctx, OnlyAt
  <2> HIDE DEF p
  <2>4. /\ GetsAt(InboxesOf(ctx), InboxesOf(ctx'), a, p) /\ JobsOf(ctx') = JobsOf(ctx)
        /\ SendsOf(ctx') = SendsOf(ctx)
    BY <2>3, CtxNow DEF GetsAt
  <2>5. PutInto(K, M, l, p)
    BY <2>4, LinePut DEF AllLines
  <2>6. M \in LinesType
    BY AllLinesTyped
  <2>7. l \in LineNames /\ l[1] # "queue"
    BY DEF LineNames
  <2> HIDE DEF K, M, l
  <2>8. Good(M, call_chain, SendsOf(ctx'))
    BY <1>2, <2>1, <2>2, <2>4, <2>5, <2>6, <2>7, PutGood
  <2> QED
    BY <1>1, <2>8, PacksActor DEF M
<1> QED
  BY <1>3, <1>4

\* The worker takes the first message of the queue.
LEMMA InboxTaken ==
  ASSUME Typed, Typed', PacksInv, NEW a \in Actors,
         OnlyAt(ctx, ctx', a), ctx[a].inbox # <<>>,
         ctx'[a].inbox = Tail(ctx[a].inbox), ctx'[a].sends = ctx[a].sends,
         NEW K, K = LinesOf(up, Queues(Maps), down, InboxesOf(ctx'), JobsOf(ctx)),
         NEW p, p = Head(ctx[a].inbox)
  PROVE  /\ K \in LinesType /\ Good(K, call_chain, SendsOf(ctx'))
         /\ p \in Msg /\ p \in Thing
         /\ Named(p) => /\ Absent(K, p.req) /\ p.req[2] <= SendsOf(ctx')[p.req[1]]
                        /\ Room(K, call_chain, p.call)
<1> DEFINE L == AllLines(up, Queues(Maps), down, ctx)
           l == <<"inbox", a>>
<1> USE ActorState, TypedAfter
<1>1. /\ LosesAt(InboxesOf(ctx), InboxesOf(ctx'), a)
      /\ SendsOf(ctx') = SendsOf(ctx)
  BY CtxNow DEF LosesAt
<1>2. L \in LinesType /\ K \in LinesType /\ l \in LineNames
  BY LinesTyped DEF LineNames
<1>3. TakenFrom(L, K, l)
  BY <1>1, LineTaken DEF AllLines
<1>4. L[l] = ctx[a].inbox
  BY DEF AllLines, LinesOf, LineNames, InboxesOf
<1>5. p \in Msg
  <2> DEFINE s == ctx[a].inbox
  <2>1. s \in Seq(Msg) /\ s # <<>> /\ p = Head(s)
    BY CtxFields
  <2> HIDE DEF s
  <2> QED
    BY <2>1, TailFacts
<1>6. Named(p) => OnWay(l, p)
  BY <1>5, PackKinds DEF Named, OnWay, ClientMsg
<1>7. Good(L, call_chain, SendsOf(ctx))
  OBVIOUS
<1>8. p \in Thing
  BY <1>5 DEF Thing
<1> HIDE DEF L, l
<1>9. /\ Good(K, call_chain, SendsOf(ctx))
      /\ Named(Head(L[l])) => /\ Absent(K, Head(L[l]).req)
                              /\ Head(L[l]).req[2] <= SendsOf(ctx)[Head(L[l]).req[1]]
      /\ OnWay(l, Head(L[l])) => Room(K, call_chain, Head(L[l]).call)
  BY <1>2, <1>3, <1>7, TakenGood
<1> QED
  BY <1>1, <1>2, <1>4, <1>5, <1>6, <1>8, <1>9

LEMMA PacksTaken ==
  ASSUME Typed, Typed', PacksInv, NEW a \in Actors, SkipStale(a) \/ StartJob(a)
  PROVE  PacksInv'
<1> DEFINE K == LinesOf(up, Queues(Maps), down, InboxesOf(ctx'), JobsOf(ctx))
           p == Head(ctx[a].inbox)
<1> USE ActorState, TypedAfter
<1>1. /\ UNCHANGED <<actor_info, call_chain, coro, up, down>>
      /\ ctx[a].inbox # <<>> /\ ctx[a].job = NoMsg
  BY DEF SkipStale, StartJob, TakesMsg, proxyVars
<1>2. /\ OnlyAt(ctx, ctx', a)
      /\ ctx'[a].inbox = Tail(ctx[a].inbox) /\ ctx'[a].sends = ctx[a].sends
      /\ ctx'[a].job = ctx[a].job \/ ctx'[a].job = p
  <2>1. CASE SkipStale(a)
    BY <2>1 DEF SkipStale, Ctx, OnlyAt
  <2>2. CASE StartJob(a)
    BY <2>2 DEF StartJob, Ctx, OnlyAt
  <2> QED
    BY <2>1, <2>2
<1>3. /\ K \in LinesType /\ Good(K, call_chain, SendsOf(ctx'))
      /\ p \in Msg /\ p \in Thing
      /\ Named(p) => /\ Absent(K, p.req) /\ p.req[2] <= SendsOf(ctx')[p.req[1]]
                     /\ Room(K, call_chain, p.call)
  BY <1>1, <1>2, InboxTaken
<1>4. CASE ctx'[a].job = ctx[a].job
  <2>1. JobsOf(ctx') = JobsOf(ctx)
    BY <1>2, <1>4, CtxNow
  <2> QED
    BY <1>1, <1>3, <2>1, PacksActor DEF AllLines
<1>5. CASE ctx'[a].job = p
  <2> DEFINE M == AllLines(up, Queues(Maps), down, ctx')
             l == <<"job", a>>
  <2>1. GetsAt(JobsOf(ctx), JobsOf(ctx'), a, p)
    <3>1. /\ OnlyAt(JobsOf(ctx), JobsOf(ctx'), a)
          /\ JobsOf(ctx)[a] = JobLine(NoMsg) /\ JobsOf(ctx')[a] = JobLine(p)
      BY <1>1, <1>2, <1>5, CtxNow
    <3>2. p # NoMsg
      BY <1>1, <1>3, <1>5, NoMsgAssumption
    <3> HIDE DEF p
    <3>3. JobLine(NoMsg) = <<>> /\ JobLine(p) = Append(<<>>, p)
      BY <1>3, <3>2, JobLineFacts
    <3> QED
      BY <3>1, <3>3 DEF GetsAt
  <2> HIDE DEF p
  <2>2. PutInto(K, M, l, p)
    BY <2>1, LinePut DEF AllLines
  <2>3. M \in LinesType
    BY <1>1, AllLinesTyped
  <2>4. l \in LineNames /\ l[1] # "queue"
    BY DEF LineNames
  <2> HIDE DEF K, M, l
  <2>5. Good(M, call_chain, SendsOf(ctx'))
    <3>1. CASE Named(p)
      BY <1>3, <2>2, <2>3, <2>4, <3>1, PutGood
    <3>2. CASE ~Named(p)
      BY <1>3, <2>2, <2>3, <2>4, <3>2, PutUnnamedGood
    <3> QED
      BY <3>1, <3>2
  <2> QED
    BY <1>1, <2>5, PacksActor DEF M
<1> QED
  BY <1>2, <1>4, <1>5

LEMMA PacksClient ==
  ASSUME Typed, Typed', PacksInv, NEW a \in Actors, NEW s \in Services,
         ClientRequest(a, s) \/ SendRefused(a, s)
  PROVE  PacksInv'
<1> DEFINE L == AllLines(up, Queues(Maps), down, ctx)
           M == AllLines(up, Queues(Maps), down, ctx')
           p == [type |-> "CLIENT", call |-> NoCall, svc |-> s]
           l == <<"inbox", a>>
<1> USE ActorState, TypedAfter
<1>1. UNCHANGED <<actor_info, call_chain, coro, up, down>>
  BY DEF ClientRequest, SendRefused, proxyVars
<1>2. CASE SendRefused(a, s)
  <2>1. /\ OnlyAt(ctx, ctx', a) /\ ctx'[a].inbox = ctx[a].inbox
        /\ ctx'[a].job = ctx[a].job /\ ctx'[a].sends = ctx[a].sends
    BY <1>2 DEF SendRefused, Ctx, OnlyAt
  <2>2. /\ InboxesOf(ctx') = InboxesOf(ctx) /\ JobsOf(ctx') = JobsOf(ctx)
        /\ SendsOf(ctx') = SendsOf(ctx)
    BY <2>1, CtxNow
  <2> QED
    BY <1>1, <2>2, PacksActor DEF AllLines
<1>3. CASE ClientRequest(a, s)
  <2>1. /\ OnlyAt(ctx, ctx', a) /\ ctx'[a].inbox = Append(ctx[a].inbox, p)
        /\ ctx'[a].job = ctx[a].job /\ ctx'[a].sends = ctx[a].sends
    BY <1>3 DEF ClientRequest, Ctx, OnlyAt
  <2>2. p \in Thing /\ ~Named(p)
    BY DEF Thing, Msg, ClientMsg, Named
  <2> HIDE DEF p
  <2>3. /\ GetsAt(InboxesOf(ctx), InboxesOf(ctx'), a, p) /\ JobsOf(ctx') = JobsOf(ctx)
        /\ SendsOf(ctx') = SendsOf(ctx)
    BY <2>1, CtxNow DEF GetsAt
  <2>4. PutInto(L, M, l, p)
    BY <2>3, LinePut DEF AllLines
  <2>5. L \in LinesType /\ M \in LinesType /\ l \in LineNames
    BY <1>1, AllLinesTyped DEF LineNames
  <2>6. Good(L, call_chain, SendsOf(ctx'))
    BY <2>3
  <2> HIDE DEF L, M, l
  <2>7. Good(M, call_chain, SendsOf(ctx'))
    BY <2>2, <2>4, <2>5, <2>6, PutUnnamedGood
  <2> QED
    BY <1>1, <2>7, PacksActor DEF M
<1> QED
  BY <1>2, <1>3

\* A request that send() makes has a number that no other pack has.
LEMMA PacksSend ==
  ASSUME Typed, Typed', PacksInv, NEW a \in Actors, NEW s \in Services, Send(a, s)
  PROVE  PacksInv'
<1> DEFINE L == AllLines(up, Queues(Maps), down, ctx)
           K == AllLines(up, Queues(Maps), down, ctx')
           M == AllLines(up', Queues(Maps), down, ctx')
           p == SentPack(a, s)
           l == <<"up", a>>
<1> USE ActorState, TypedAfter
<1>1. /\ UNCHANGED <<actor_info, call_chain, coro, down>>
      /\ p \in Request /\ SentReq(a) \in Reqs
      /\ up' = up \/ up' = [up EXCEPT ![a] = Append(@, p)]
  BY SendFacts
<1>2. p.req = SentReq(a) /\ SentReq(a)[1] = a /\ SentReq(a)[2] = ctx[a].sends + 1
  BY DEF SentPack, SentReq
<1>3. /\ OnlyAt(ctx, ctx', a) /\ ctx'[a].inbox = ctx[a].inbox
      /\ ctx'[a].job = ctx[a].job /\ ctx'[a].sends = ctx[a].sends + 1
  <2> DEFINE y == [Sent(a) EXCEPT !.pending = SentReq(a)]
             z == [Sent(a) EXCEPT !.error = TRUE]
  <2>1. /\ Sent(a) \in Ctx /\ Sent(a).sends = ctx[a].sends + 1
        /\ Sent(a).inbox = ctx[a].inbox /\ Sent(a).job = ctx[a].job
        /\ ctx' = [ctx EXCEPT ![a] = y] \/ ctx' = [ctx EXCEPT ![a] = z]
    BY SendFacts
  <2>2. /\ y.inbox = Sent(a).inbox /\ y.job = Sent(a).job /\ y.sends = Sent(a).sends
        /\ z.inbox = Sent(a).inbox /\ z.job = Sent(a).job /\ z.sends = Sent(a).sends
    BY <2>1 DEF Ctx
  <2> HIDE DEF y, z
  <2> QED
    BY <2>1, <2>2 DEF OnlyAt
<1> HIDE DEF p
<1>4. /\ InboxesOf(ctx') = InboxesOf(ctx) /\ JobsOf(ctx') = JobsOf(ctx)
      /\ SendsOf(ctx)[a] = ctx[a].sends /\ SendsOf(ctx')[a] = ctx[a].sends + 1
      /\ \A b \in Actors \ {a} : SendsOf(ctx')[b] = SendsOf(ctx)[b]
  BY <1>3, CtxNow
<1>5. K = L
  BY <1>4 DEF AllLines
<1>6. Good(L, call_chain, SendsOf(ctx)) /\ L \in LinesType
  OBVIOUS
<1>7. Good(L, call_chain, SendsOf(ctx'))
  <2> DEFINE x == SendsOf(ctx)
             y == SendsOf(ctx')
  <2>1. /\ x \in [Actors -> Nat] /\ y \in [Actors -> Nat]
        /\ \A b \in Actors \ {a} : y[b] = x[b]
        /\ x[a] = ctx[a].sends /\ y[a] = ctx[a].sends + 1
        /\ Good(L, call_chain, x)
    BY <1>4
  <2> HIDE DEF x, y, L
  <2>2. \A b \in Actors : x[b] \in Nat /\ x[b] <= x[b] /\ x[b] <= x[b] + 1
    BY <2>1
  <2>5. y[a] = x[a] + 1 /\ \A b \in Actors : b = a \/ y[b] = x[b]
    BY <2>1
  <2>3. \A b \in Actors : x[b] <= y[b]
    BY <2>2, <2>5
  <2>4. Good(L, call_chain, y)
    BY <1>6, <2>1, <2>3, MoreSendsGood
  <2> QED
    BY <2>4 DEF y
<1>8. Absent(L, p.req)
  <2> DEFINE x == SendsOf(ctx)
  <2>1. Issued(L, x) /\ x[a] = ctx[a].sends /\ x[a] \in Nat
    BY <1>4, <1>6 DEF Good
  <2> HIDE DEF x, L
  <2>2. ASSUME NEW k \in LineNames, NEW i \in DOMAIN L[k], Named(L[k][i])
        PROVE  L[k][i].req # p.req
    <3>1. L[k][i].req[2] <= x[L[k][i].req[1]]
      BY <2>1, <2>2 DEF Issued
    <3>2. p.req[1] = a /\ p.req[2] = x[a] + 1
      BY <1>2, <2>1
    <3> QED
      BY <2>1, <3>1, <3>2
  <2> QED
    BY <2>2 DEF Absent
<1>9. CASE up' = up
  BY <1>1, <1>5, <1>7, <1>9, PacksActor
<1>10. CASE up' = [up EXCEPT ![a] = Append(@, p)]
  <2>1. p \in Thing /\ Named(p) /\ p.call \in CallIds
    BY <1>1, RequestFields DEF Thing, UpPack, Named
  <2>2. GetsAt(up, up', a, p)
    BY <1>10 DEF GetsAt, OnlyAt
  <2>3. PutInto(K, M, l, p)
    BY <2>2, LinePut DEF AllLines
  <2>4. M \in LinesType
    BY AllLinesTyped
  <2>5. l \in LineNames /\ ~OnWay(l, p) /\ l[1] # "queue"
    BY <1>1, RequestFields DEF LineNames, OnWay
  <2>6. p.req[2] <= SendsOf(ctx')[p.req[1]]
    <3>1. ctx[a].sends \in Nat
      BY <1>4
    <3> QED
      BY <1>2, <1>4, <3>1
  <2> HIDE DEF L, K, M, l
  <2>7. Good(M, call_chain, SendsOf(ctx'))
    BY <1>5, <1>6, <1>7, <1>8, <2>1, <2>3, <2>4, <2>5, <2>6, PutGood
  <2> QED
    BY <1>1, <2>7, PacksActor DEF M
<1> QED
  BY <1>1, <1>9, <1>10

\* A process loses what is on its connection, in its queue, or its job.
LEMMA LineCleared ==
  ASSUME NEW u \in PerActor, NEW q \in PerActor, NEW d \in PerActor,
         NEW i \in PerActor, NEW j \in PerActor, NEW f \in PerActor,
         NEW a \in Actors, f[a] = <<>>, NEW chain \in Chains, NEW sends,
         Good(LinesOf(u, q, d, i, j), chain, sends)
  PROVE  /\ OnlyAt(d, f, a) => Good(LinesOf(u, q, f, i, j), chain, sends)
         /\ OnlyAt(i, f, a) => Good(LinesOf(u, q, d, f, j), chain, sends)
         /\ OnlyAt(j, f, a) => Good(LinesOf(u, q, d, i, f), chain, sends)
<1> DEFINE L == LinesOf(u, q, d, i, j)
           D == LinesOf(u, q, f, i, j)
           I == LinesOf(u, q, d, f, j)
           J == LinesOf(u, q, d, i, f)
<1>1. L \in LinesType /\ D \in LinesType /\ I \in LinesType /\ J \in LinesType
  BY LinesTyped
<1>2. /\ D[<<"down", a>>] = <<>> /\ I[<<"inbox", a>>] = <<>> /\ J[<<"job", a>>] = <<>>
      /\ <<"down", a>> \in LineNames /\ <<"inbox", a>> \in LineNames
      /\ <<"job", a>> \in LineNames
  BY DEF LinesOf, LineNames
<1>3. /\ OnlyAt(d, f, a) => OneLine(L, D, <<"down", a>>)
      /\ OnlyAt(i, f, a) => OneLine(L, I, <<"inbox", a>>)
      /\ OnlyAt(j, f, a) => OneLine(L, J, <<"job", a>>)
  BY LineOnly
<1>4. Good(L, chain, sends)
  OBVIOUS
<1> HIDE DEF L, D, I, J
<1>5. ASSUME NEW K \in LinesType, NEW l \in LineNames, OneLine(L, K, l), K[l] = <<>>
      PROVE  Good(K, chain, sends)
  <2>1. \A n \in DOMAIN K[l] : ~Named(K[l][n])
    BY <1>5
  <2> QED
    BY <1>1, <1>4, <1>5, <2>1, ClearedGood
<1>6. /\ OnlyAt(d, f, a) => Good(D, chain, sends)
      /\ OnlyAt(i, f, a) => Good(I, chain, sends)
      /\ OnlyAt(j, f, a) => Good(J, chain, sends)
  BY <1>1, <1>2, <1>3, <1>5
<1> QED
  BY <1>6 DEF D, I, J

\* The worker's job is over: its response takes the place of the request.
LEMMA PacksFinish ==
  ASSUME Typed, Typed', PacksInv, NEW a \in Actors, Finish(a)
  PROVE  PacksInv'
<1> DEFINE L == AllLines(up, Queues(Maps), down, ctx)
           K == AllLines(up, Queues(Maps), down, ctx')
           M == AllLines(up', Queues(Maps), down, ctx')
           l == <<"job", a>>
           k == <<"up", a>>
           job == ctx[a].job
           p == AnswerTo(job)
<1> USE ActorState, TypedAfter
<1>1. /\ job \in Msg /\ UNCHANGED <<actor_info, call_chain, coro>>
      /\ \/ UNCHANGED <<up, down>>
         \/ down' = [down EXCEPT ![a] = <<>>] /\ up' = up
         \/ job \in Request /\ up' = [up EXCEPT ![a] = Append(@, p)] /\ down' = down
  BY FinishFacts
<1>2. /\ OnlyAt(ctx, ctx', a) /\ ctx'[a].inbox = ctx[a].inbox
      /\ ctx'[a].job = NoMsg /\ ctx'[a].sends = ctx[a].sends
  <2> DEFINE x == [ctx[a] EXCEPT !.job = NoMsg, !.call_id = NoCall, !.error = FALSE]
  <2>1. x.inbox = ctx[a].inbox /\ x.job = NoMsg /\ x.sends = ctx[a].sends
    BY DEF Ctx
  <2>2. ctx' = [ctx EXCEPT ![a] = x]
    BY FinishFacts
  <2> HIDE DEF x
  <2> QED
    BY <2>1, <2>2 DEF OnlyAt
<1>3. /\ InboxesOf(ctx') = InboxesOf(ctx) /\ SendsOf(ctx') = SendsOf(ctx)
      /\ OnlyAt(JobsOf(ctx), JobsOf(ctx'), a)
      /\ JobsOf(ctx)[a] = JobLine(job) /\ JobsOf(ctx')[a] = JobLine(NoMsg)
  BY <1>2, CtxNow
<1>4. LosesAt(JobsOf(ctx), JobsOf(ctx'), a) /\ Head(JobsOf(ctx)[a]) = job
  <2>1. job # NoMsg
    BY <1>1, NoMsgAssumption
  <2> HIDE DEF job
  <2>2. /\ JobLine(NoMsg) = <<>> /\ JobLine(job) # <<>>
        /\ Head(JobLine(job)) = job /\ Tail(JobLine(job)) = <<>>
    BY <1>1, <2>1, JobLineFacts
  <2> QED
    BY <1>3, <2>2 DEF LosesAt
<1>5. TakenFrom(L, K, l)
  BY <1>3, <1>4, LineTaken DEF AllLines
<1>6. L \in LinesType /\ K \in LinesType /\ M \in LinesType
      /\ l \in LineNames /\ k \in LineNames /\ k[1] # "queue"
  BY AllLinesTyped DEF LineNames
<1>7. L[l] = JobsOf(ctx)[a]
  BY DEF AllLines, LinesOf, LineNames
<1>8. job \in Request => Named(job) /\ OnWay(l, job)
  BY RequestFields DEF Named, OnWay
<1>9. Good(L, call_chain, SendsOf(ctx'))
  BY <1>3
<1>10. /\ Good(K, call_chain, SendsOf(ctx'))
       /\ job \in Request => /\ Absent(K, job.req)
                             /\ job.req[2] <= SendsOf(ctx')[job.req[1]]
                             /\ Room(K, call_chain, job.call)
  <2> HIDE DEF L, K, l, job
  <2>1. /\ Good(K, call_chain, SendsOf(ctx'))
        /\ Named(Head(L[l])) =>
             /\ Absent(K, Head(L[l]).req)
             /\ Head(L[l]).req[2] <= SendsOf(ctx')[Head(L[l]).req[1]]
        /\ OnWay(l, Head(L[l])) => Room(K, call_chain, Head(L[l]).call)
    BY <1>5, <1>6, <1>9, TakenGood
  <2> QED
    BY <1>4, <1>7, <1>8, <2>1
<1>11. CASE UNCHANGED <<up, down>>
  BY <1>1, <1>10, <1>11, PacksActor
<1>12. CASE down' = [down EXCEPT ![a] = <<>>] /\ up' = up
  <2>1. OnlyAt(down, down', a) /\ down'[a] = <<>>
    BY <1>12 DEF OnlyAt
  <2>2. Good(LinesOf(up, Queues(Maps), down', InboxesOf(ctx'), JobsOf(ctx')),
             call_chain, SendsOf(ctx'))
    BY <1>10, <2>1, LineCleared DEF AllLines
  <2> QED
    BY <1>1, <1>12, <2>2, PacksActor DEF AllLines
<1>13. CASE job \in Request /\ up' = [up EXCEPT ![a] = Append(@, p)] /\ down' = down
  <2>1. /\ p.type = "RESPONSE" /\ p.call = job.call /\ p.req = job.req
        /\ p \in Thing /\ Named(p)
    BY <1>13, AnswerFacts DEF Thing, UpPack, Named
  <2> HIDE DEF p, job
  <2>2. GetsAt(up, up', a, p)
    BY <1>13 DEF GetsAt, OnlyAt
  <2>3. PutInto(K, M, k, p)
    BY <2>2, LinePut DEF AllLines
  <2> HIDE DEF L, K, M, l, k
  <2>4. Good(M, call_chain, SendsOf(ctx'))
    BY <1>6, <1>10, <1>13, <2>1, <2>3, PutGood
  <2> QED
    BY <1>1, <1>13, <2>4, PacksActor DEF M
<1> QED
  BY <1>1, <1>11, <1>12, <1>13

LEMMA PacksCrash ==
  ASSUME Typed, Typed', PacksInv, NEW a \in Actors, Crash(a)
  PROVE  PacksInv'
<1> USE ActorState, TypedAfter
<1>1. /\ UNCHANGED <<actor_info, call_chain, coro, up>>
      /\ OnlyAt(down, down', a) /\ down'[a] = <<>>
  BY DEF Crash, OnlyAt
<1>2. /\ OnlyAt(ctx, ctx', a) /\ ctx'[a].inbox = <<>>
      /\ ctx'[a].job = NoMsg /\ ctx'[a].sends = ctx[a].sends
  BY DEF Crash, OnlyAt, Ctx
<1>3. /\ SendsOf(ctx') = SendsOf(ctx)
      /\ OnlyAt(InboxesOf(ctx), InboxesOf(ctx'), a) /\ InboxesOf(ctx')[a] = <<>>
      /\ OnlyAt(JobsOf(ctx), JobsOf(ctx'), a) /\ JobsOf(ctx')[a] = JobLine(NoMsg)
  BY <1>2, CtxNow
<1>4. JobsOf(ctx')[a] = <<>>
  BY <1>3 DEF JobLine
<1>5. Good(LinesOf(up, Queues(Maps), down', InboxesOf(ctx), JobsOf(ctx)),
           call_chain, SendsOf(ctx'))
  BY <1>1, <1>3, LineCleared DEF AllLines
<1>6. Good(LinesOf(up, Queues(Maps), down', InboxesOf(ctx'), JobsOf(ctx)),
           call_chain, SendsOf(ctx'))
  BY <1>3, <1>5, LineCleared
<1>7. Good(LinesOf(up, Queues(Maps), down', InboxesOf(ctx'), JobsOf(ctx')),
           call_chain, SendsOf(ctx'))
  BY <1>3, <1>4, <1>6, LineCleared
<1> QED
  BY <1>1, <1>7, PacksActor DEF AllLines

LEMMA PacksStep == Typed /\ Typed' /\ PacksInv /\ [Next]_vars => PacksInv'
<1> SUFFICES ASSUME Typed, Typed', PacksInv, [Next]_vars PROVE PacksInv'
  OBVIOUS
<1>1. CASE UNCHANGED vars
  BY <1>1 DEF vars, proxyVars, PacksInv, PacksGood, ChainsLeft, Maps
<1>2. ASSUME NEW a \in Actors, Proxies(a)
      PROVE  PacksInv'
  BY <1>2, PacksProxy
<1>3. ASSUME NEW a \in Actors,
             \/ ActorStep(a) \/ Crash(a) \/ \E s \in Services : ClientRequest(a, s)
      PROVE  PacksInv'
  BY <1>3, PacksConnects, PacksReceived, PacksTaken, PacksClient, PacksSend,
     PacksFinish, PacksCrash DEF ActorStep, ActorRuns
<1> QED
  BY <1>1, <1>2, <1>3 DEF Next

LEMMA PacksInit == Init => PacksInv
<1> SUFFICES ASSUME Init PROVE PacksInv
  OBVIOUS
<1> DEFINE L == AllLines(up, Queues(Maps), down, ctx)
<1>1. ASSUME NEW l \in LineNames
      PROVE  L[l] = <<>>
  <2>1. l[1] \in {"up", "queue", "down", "inbox", "job"} /\ l[2] \in Actors
    BY DEF LineNames
  <2>2. \A a \in Actors : /\ up[a] = <<>> /\ Queues(Maps)[a] = <<>> /\ down[a] = <<>>
                          /\ InboxesOf(ctx)[a] = <<>> /\ JobsOf(ctx)[a] = <<>>
    BY DEF Init, ProxyInit, Queues, Maps, InboxesOf, JobsOf, JobLine
  <2> QED
    BY <2>1, <2>2 DEF AllLines, LinesOf
<1>2. \A l \in LineNames : DOMAIN L[l] = {}
  BY <1>1
<1> HIDE DEF L
<1>3. Once(L) /\ Issued(L, SendsOf(ctx))
  BY <1>2 DEF Once, Issued
<1>4. \A c \in CallIds : Away(L, c) = {}
  BY <1>2 DEF Away
<1>5. \A a \in Actors : <<"queue", a>> \in LineNames
  BY DEF LineNames
<1>6. Fits(L, call_chain)
  BY <1>2, <1>4, <1>5, FS_EmptySet DEF Fits
<1>7. ChainsLeft
  BY DEF Init, ProxyInit, ChainsLeft, Idle
<1> QED
  BY <1>3, <1>6, <1>7 DEF PacksInv, PacksGood, Good, L

-----------------------------------------------------------------------------
(* The theorems.                                                           *)

\* back() is never taken of an empty call chain, although other coroutines
\* take processes off it between the lookup and the use.
THEOREM ChainsReachBack == Spec => []BackDefined
<1>1. Typed /\ PacksInv => BackDefined
  <2> SUFFICES ASSUME Typed, PacksInv, NEW a \in Actors
               PROVE  /\ (coro[a].at = "read" /\ up[a] # <<>>
                            /\ Head(up[a]).type = "RESPONSE")
                           => Len(call_chain[Head(up[a]).call]) >= 2
                      /\ coro[a].at \in {"reply", "self"}
                           => call_chain[coro[a].call] # <<>>
    BY DEF BackDefined
  <2>1. ASSUME up[a] # <<>>, Head(up[a]).type = "RESPONSE"
        PROVE  Len(call_chain[Head(up[a]).call]) >= 2
    <3> DEFINE L == AllLines(up, Queues(Maps), down, ctx)
               l == <<"up", a>>
               p == Head(up[a])
               c == p.call
    <3>1. l \in LineNames /\ L[l] = up[a]
      BY DEF LineNames, AllLines, LinesOf
    <3>2. p \in Response /\ 1 \in DOMAIN L[l] /\ p = L[l][1]
      BY <2>1, <3>1, TypedParts, TailFacts, PackKinds
    <3>3. c \in CallIds /\ p.req \in Reqs /\ OnWay(l, L[l][1])
      BY <2>1, <3>2 DEF Response, OnWay
    <3>4. p.req \in Away(L, c)
      BY <3>1, <3>2, <3>3 DEF Away
    <3> HIDE DEF L, c
    <3>5. IsFiniteSet(Away(L, c)) /\ Cardinality(Away(L, c)) + 1 <= Len(call_chain[c])
      BY <3>3, <3>4 DEF PacksInv, PacksGood, Good, Fits, L
    <3>6. Cardinality(Away(L, c)) \in Nat /\ Cardinality(Away(L, c)) # 0
      BY <3>4, <3>5, FS_CardinalityType, FS_EmptySet
    <3>7. Len(call_chain[c]) \in Nat
      BY <3>3, TypedParts
    <3>8. Len(call_chain[c]) >= 2
      BY <3>5, <3>6, <3>7
    <3> QED
      BY <3>8 DEF c
  <2> QED
    BY <2>1 DEF PacksInv, ChainsLeft
<1> QED
  BY TypedInit, TypedStep, PacksInit, PacksStep, <1>1, PTL DEF Spec

LEMMA ConcatAt ==
  ASSUME NEW S, NEW s \in Seq(S), NEW t \in Seq(S), NEW i \in DOMAIN (s \o t)
  PROVE  /\ s \o t \in Seq(S) /\ i \in Nat
         /\ \/ i \in DOMAIN s /\ (s \o t)[i] = s[i]
            \/ i - Len(s) \in DOMAIN t /\ (s \o t)[i] = t[i - Len(s)]
  OBVIOUS

LEMMA ConcatLen ==
  ASSUME NEW S, NEW s \in Seq(S), NEW t \in Seq(S)
  PROVE  s \o t \in Seq(S) /\ Len(s \o t) = Len(s) + Len(t)
  OBVIOUS

\* The packs that a process has in hand, in the order of its lines.
OneLineAfterAnother(s1, s2, s3, s4, s5) == s1 \o (s2 \o s3 \o s4 \o s5)

\* Place i of a chain of five lines is a place of one of them.
FoundIn(all, i, s1, s2, s3, s4, s5) ==
  \/ \E n \in DOMAIN s1 : i = n /\ all[i] = s1[n]
  \/ \E n \in DOMAIN s2 : i = Len(s1) + n /\ all[i] = s2[n]
  \/ \E n \in DOMAIN s3 : i = Len(s1) + Len(s2) + n /\ all[i] = s3[n]
  \/ \E n \in DOMAIN s4 : i = Len(s1) + Len(s2) + Len(s3) + n /\ all[i] = s4[n]
  \/ \E n \in DOMAIN s5 :
       i = Len(s1) + Len(s2) + Len(s3) + Len(s4) + n /\ all[i] = s5[n]

LEMMA FiveAt ==
  ASSUME NEW s1 \in Seq(Thing), NEW s2 \in Seq(Thing), NEW s3 \in Seq(Thing),
         NEW s4 \in Seq(Thing), NEW s5 \in Seq(Thing),
         NEW all, all = OneLineAfterAnother(s1, s2, s3, s4, s5),
         NEW i \in DOMAIN all
  PROVE  FoundIn(all, i, s1, s2, s3, s4, s5)
<1> DEFINE t2 == s2 \o s3
           t3 == t2 \o s4
           t4 == t3 \o s5
<1>1. t2 \in Seq(Thing) /\ Len(t2) = Len(s2) + Len(s3)
  BY ConcatLen
<1>2. t3 \in Seq(Thing) /\ Len(t3) = Len(t2) + Len(s4)
  <2> HIDE DEF t2
  <2> QED
    BY <1>1, ConcatLen
<1>3. t4 \in Seq(Thing)
  <2> HIDE DEF t3
  <2> QED
    BY <1>2, ConcatLen
<1>4. /\ Len(s1) \in Nat /\ Len(s2) \in Nat /\ Len(s3) \in Nat /\ Len(s4) \in Nat
  OBVIOUS
<1>5. all = s1 \o t4
  BY DEF OneLineAfterAnother
<1> HIDE DEF t4
<1>6. /\ i \in Nat
      /\ \/ i \in DOMAIN s1 /\ all[i] = s1[i]
         \/ i - Len(s1) \in DOMAIN t4 /\ all[i] = t4[i - Len(s1)]
  BY <1>3, <1>5, ConcatAt
<1>7. ASSUME NEW j \in DOMAIN t4
      PROVE  /\ j \in Nat
             /\ \/ j \in DOMAIN t3 /\ t4[j] = t3[j]
                \/ j - Len(t3) \in DOMAIN s5 /\ t4[j] = s5[j - Len(t3)]
  <2> HIDE DEF t3
  <2> QED
    BY <1>2, ConcatAt DEF t4
<1> HIDE DEF t3
<1>8. ASSUME NEW j \in DOMAIN t3
      PROVE  \/ j \in DOMAIN t2 /\ t3[j] = t2[j]
             \/ j - Len(t2) \in DOMAIN s4 /\ t3[j] = s4[j - Len(t2)]
  <2> HIDE DEF t2
  <2> QED
    BY <1>1, ConcatAt DEF t3
<1> HIDE DEF t2
<1>9. ASSUME NEW j \in DOMAIN t2
      PROVE  \/ j \in DOMAIN s2 /\ t2[j] = s2[j]
             \/ j - Len(s2) \in DOMAIN s3 /\ t2[j] = s3[j - Len(s2)]
  BY ConcatAt DEF t2
<1>10. CASE i \in DOMAIN s1 /\ all[i] = s1[i]
  BY <1>10 DEF FoundIn
<1>11. CASE i - Len(s1) \in DOMAIN t4 /\ all[i] = t4[i - Len(s1)]
  <2> DEFINE j == i - Len(s1)
  <2>1. j \in DOMAIN t4 /\ all[i] = t4[j] /\ i = Len(s1) + j /\ j \in Nat
    BY <1>4, <1>6, <1>7, <1>11
  <2> HIDE DEF j
  <2>2. CASE j - Len(t3) \in DOMAIN s5 /\ t4[j] = s5[j - Len(t3)]
    <3>1. i = Len(s1) + Len(s2) + Len(s3) + Len(s4) + (j - Len(t3))
      BY <1>1, <1>2, <1>4, <2>1
    <3> QED
      BY <2>1, <2>2, <3>1 DEF FoundIn
  <2>3. CASE j - Len(t2) \in DOMAIN s4 /\ t4[j] = s4[j - Len(t2)]
    <3>1. i = Len(s1) + Len(s2) + Len(s3) + (j - Len(t2))
      BY <1>1, <1>4, <2>1
    <3> QED
      BY <2>1, <2>3, <3>1 DEF FoundIn
  <2>4. CASE j - Len(s2) \in DOMAIN s3 /\ t4[j] = s3[j - Len(s2)]
    <3>1. i = Len(s1) + Len(s2) + (j - Len(s2))
      BY <1>4, <2>1
    <3> QED
      BY <2>1, <2>4, <3>1 DEF FoundIn
  <2>5. CASE j \in DOMAIN s2 /\ t4[j] = s2[j]
    BY <2>1, <2>5 DEF FoundIn
  <2> QED
    BY <1>7, <1>8, <1>9, <2>1, <2>2, <2>3, <2>4, <2>5
<1> QED
  BY <1>6, <1>10, <1>11

\* How many packs process a has in hand in the lines before this one.
Before(L, a, kind) ==
  CASE kind = "up"    -> 0
    [] kind = "queue" -> Len(L[<<"up", a>>])
    [] kind = "down"  -> Len(L[<<"up", a>>]) + Len(L[<<"queue", a>>])
    [] kind = "inbox" -> Len(L[<<"up", a>>]) + Len(L[<<"queue", a>>])
                           + Len(L[<<"down", a>>])
    [] kind = "job"   -> Len(L[<<"up", a>>]) + Len(L[<<"queue", a>>])
                           + Len(L[<<"down", a>>]) + Len(L[<<"inbox", a>>])

LEMMA HeldAt ==
  ASSUME Typed, NEW a \in Actors, NEW i \in DOMAIN Held(a),
         NEW L, L = AllLines(up, Queues(Maps), down, ctx)
  PROVE  \E kind \in {"up", "queue", "down", "inbox", "job"} :
           \E n \in DOMAIN L[<<kind, a>>] :
             i = Before(L, a, kind) + n /\ Held(a)[i] = L[<<kind, a>>][n]
<1> DEFINE s1 == up[a]
           s2 == Queues(Maps)[a]
           s3 == down[a]
           s4 == InboxesOf(ctx)[a]
           s5 == JobsOf(ctx)[a]
<1>1. /\ s1 \in Seq(Thing) /\ s2 \in Seq(Thing) /\ s3 \in Seq(Thing)
      /\ s4 \in Seq(Thing) /\ s5 \in Seq(Thing)
  BY StateLines DEF PerActor
<1>2. /\ s2 = actor_info[a].msg_queue /\ s4 = ctx[a].inbox
      /\ s5 = IF ctx[a].job = NoMsg THEN <<>> ELSE <<ctx[a].job>>
  BY DEF Queues, Maps, InboxesOf, JobsOf, JobLine
<1>3. Held(a) = OneLineAfterAnother(s1, s2, s3, s4, s5)
  BY <1>2 DEF Held, Backlog, OneLineAfterAnother
<1>4. /\ L[<<"up", a>>] = s1 /\ L[<<"queue", a>>] = s2 /\ L[<<"down", a>>] = s3
      /\ L[<<"inbox", a>>] = s4 /\ L[<<"job", a>>] = s5
  BY DEF AllLines, LinesOf, LineNames
<1> DEFINE all == Held(a)
<1> HIDE DEF s1, s2, s3, s4, s5, all
<1>5. FoundIn(all, i, s1, s2, s3, s4, s5)
  <2>1. all = OneLineAfterAnother(s1, s2, s3, s4, s5) /\ i \in DOMAIN all
    BY <1>3 DEF all
  <2> QED
    BY <1>1, <2>1, FiveAt
<1>6. /\ Before(L, a, "up") = 0 /\ Before(L, a, "queue") = Len(s1)
      /\ Before(L, a, "down") = Len(s1) + Len(s2)
      /\ Before(L, a, "inbox") = Len(s1) + Len(s2) + Len(s3)
      /\ Before(L, a, "job") = Len(s1) + Len(s2) + Len(s3) + Len(s4)
  BY <1>4 DEF Before
<1>7. \A n \in DOMAIN s1 : 0 + n = n
  BY <1>1
<1> QED
  BY <1>4, <1>5, <1>6, <1>7 DEF all, FoundIn

\* There is one pack of a request in the whole system, be it the request or
\* its response: no queue, connection or job holds it twice.
THEOREM OnePackOfARequest == Spec => []RequestInOnePlace
<1>1. Typed /\ PacksInv => RequestInOnePlace
  <2> SUFFICES ASSUME Typed, PacksInv, NEW r \in Reqs,
                      NEW x \in Places(r), NEW y \in Places(r)
               PROVE  x = y
    BY DEF RequestInOnePlace
  <2> DEFINE L == AllLines(up, Queues(Maps), down, ctx)
  <2>1. Once(L)
    BY DEF PacksInv, PacksGood, Good
  <2>2. ASSUME NEW z \in Places(r)
        PROVE  \E a \in Actors :
                 \E kind \in {"up", "queue", "down", "inbox", "job"} :
                   \E n \in DOMAIN L[<<kind, a>>] :
                     /\ z = <<a, Before(L, a, kind) + n>>
                     /\ Named(L[<<kind, a>>][n]) /\ L[<<kind, a>>][n].req = r
    <3>1. PICK a \in Actors : \E i \in DOMAIN Held(a) :
            z = <<a, i>> /\ IsOf(Held(a)[i], r)
      BY DEF Places
    <3>2. PICK i \in DOMAIN Held(a) : z = <<a, i>> /\ IsOf(Held(a)[i], r)
      BY <3>1
    <3>3. PICK kind \in {"up", "queue", "down", "inbox", "job"} :
            \E n \in DOMAIN L[<<kind, a>>] :
              i = Before(L, a, kind) + n /\ Held(a)[i] = L[<<kind, a>>][n]
      BY HeldAt
    <3> HIDE DEF L
    <3> QED
      BY <3>2, <3>3 DEF IsOf, Named
  <2> HIDE DEF L
  <2>3. PICK a \in Actors, k \in {"up", "queue", "down", "inbox", "job"} :
          \E n \in DOMAIN L[<<k, a>>] :
            /\ x = <<a, Before(L, a, k) + n>>
            /\ Named(L[<<k, a>>][n]) /\ L[<<k, a>>][n].req = r
    BY <2>2
  <2>4. PICK n \in DOMAIN L[<<k, a>>] :
            /\ x = <<a, Before(L, a, k) + n>>
            /\ Named(L[<<k, a>>][n]) /\ L[<<k, a>>][n].req = r
    BY <2>3
  <2>5. PICK b \in Actors, h \in {"up", "queue", "down", "inbox", "job"} :
          \E m \in DOMAIN L[<<h, b>>] :
            /\ y = <<b, Before(L, b, h) + m>>
            /\ Named(L[<<h, b>>][m]) /\ L[<<h, b>>][m].req = r
    BY <2>2
  <2>6. PICK m \in DOMAIN L[<<h, b>>] :
            /\ y = <<b, Before(L, b, h) + m>>
            /\ Named(L[<<h, b>>][m]) /\ L[<<h, b>>][m].req = r
    BY <2>5
  <2>7. <<k, a>> \in LineNames /\ <<h, b>> \in LineNames
    BY DEF LineNames
  <2>8. <<k, a>> = <<h, b>> /\ n = m
    BY <2>1, <2>4, <2>6, <2>7 DEF Once
  <2> QED
    BY <2>4, <2>6, <2>8
<1> QED
  BY TypedInit, TypedStep, PacksInit, PacksStep, <1>1, PTL DEF Spec

=============================================================================
