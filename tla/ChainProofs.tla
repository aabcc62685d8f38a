----------------------------- MODULE ChainProofs -----------------------------
(***************************************************************************)
(* What the chain of a call and the packs of its requests tell of each     *)
(* other while the proxy keeps no request waiting, that is, while nobody   *)
(* calls a process that itself waits for an answer; the configurations in  *)
(* which that is always so; and that the calls are then remote procedure   *)
(* calls as Rpc describes them.                                            *)
(***************************************************************************)
EXTENDS PackProofs

-----------------------------------------------------------------------------
(* Sequences and chains.                                                   *)

Items(s) == {s[i] : i \in DOMAIN s}

\* Of a chain: the processes that have another one behind them, who is right
\* behind whom, and who is before the last.
Inner(s) == {s[i] : i \in 1 .. Len(s) - 1}
Pairs(s) == {<<s[i], s[i + 1]>> : i \in 1 .. Len(s) - 1}
Asker(s) == s[Len(s) - 1]

\* Of the processes that have another one behind them, none is there twice.
Simple(s) ==
  \A i, j \in 1 .. Len(s) - 1 : s[i] = s[j] => i = j

\* Of the coroutines' queue: y is not resumed before x.
Ahead(s, x, y) == \A j \in DOMAIN s : s[j] = y => \E i \in 1 .. j - 1 : s[i] = x

-----------------------------------------------------------------------------
(* The premise under which a call that somebody works on stays so.         *)

\* No actor process has lost its connection to the proxy.
NobodyCut == \A a \in Actors : link[a] # "cut"

-----------------------------------------------------------------------------

LEMMA ItemsAppend ==
  ASSUME NEW S, NEW s \in Seq(S), NEW x \in S
  PROVE  Items(Append(s, x)) = Items(s) \cup {x}
<1>1. /\ DOMAIN Append(s, x) = 1 .. Len(s) + 1 /\ DOMAIN s = 1 .. Len(s)
      /\ \A i \in 1 .. Len(s) : Append(s, x)[i] = s[i]
      /\ Append(s, x)[Len(s) + 1] = x /\ Len(s) \in Nat
  BY AppendFacts
<1>2. ASSUME NEW y \in Items(Append(s, x)) PROVE y \in Items(s) \cup {x}
  BY AppendMembers DEF Items
<1>3. x \in Items(Append(s, x))
  BY <1>1 DEF Items
<1>4. ASSUME NEW y \in Items(s) PROVE y \in Items(Append(s, x))
  <2>1. PICK i \in DOMAIN s : y = s[i]
    BY DEF Items
  <2>2. i \in DOMAIN Append(s, x) /\ Append(s, x)[i] = y
    BY <1>1, <2>1
  <2> QED
    BY <2>2 DEF Items
<1> QED
  BY <1>2, <1>3, <1>4

LEMMA ItemsTail ==
  ASSUME NEW S, NEW s \in Seq(S), s # <<>>
  PROVE  /\ Items(Tail(s)) \subseteq Items(s)
         /\ Items(s) = Items(Tail(s)) \cup {Head(s)}
<1>1. /\ Head(s) = s[1] /\ DOMAIN s = 1 .. Len(s) /\ Len(s) \in Nat /\ Len(s) >= 1
      /\ DOMAIN Tail(s) = 1 .. Len(s) - 1
      /\ \A i \in 1 .. Len(s) - 1 : Tail(s)[i] = s[i + 1]
  BY TailFacts
<1>2. ASSUME NEW y \in Items(Tail(s)) PROVE y \in Items(s)
  <2>1. PICK i \in 1 .. Len(s) - 1 : y = Tail(s)[i]
    BY <1>1 DEF Items
  <2>2. i + 1 \in DOMAIN s /\ y = s[i + 1]
    BY <1>1, <2>1
  <2> QED
    BY <2>2 DEF Items
<1>3. Head(s) \in Items(s)
  BY <1>1 DEF Items
<1>4. ASSUME NEW y \in Items(s), y # Head(s) PROVE y \in Items(Tail(s))
  <2>1. PICK i \in DOMAIN s : y = s[i]
    BY DEF Items
  <2>2. i # 1
    BY <1>1, <1>4, <2>1
  <2>3. i - 1 \in 1 .. Len(s) - 1
    BY <1>1, <2>1, <2>2
  <2>4. Tail(s)[i - 1] = s[(i - 1) + 1] /\ (i - 1) + 1 = i /\ i - 1 \in DOMAIN Tail(s)
    BY <1>1, <2>1, <2>3
  <2> QED
    BY <2>1, <2>4 DEF Items
<1> QED
  BY <1>2, <1>3, <1>4

LEMMA ItemsOf ==
  /\ Items(<<>>) = {}
  /\ \A x : Items(<<x>>) = {x}
  BY DEF Items

\* A chain with one process, with one more, or with one less.
LEMMA ChainOne ==
  ASSUME NEW x
  PROVE  /\ Inner(<<x>>) = {} /\ Pairs(<<x>>) = {} /\ Simple(<<x>>)
         /\ Back(<<x>>) = x /\ <<x>> # <<>> /\ <<x>>[1] = x
  BY DEF Inner, Pairs, Simple, Back

LEMMA ChainNone == Inner(<<>>) = {} /\ Pairs(<<>>) = {} /\ Simple(<<>>)
  BY DEF Inner, Pairs, Simple

LEMMA ChainAppend ==
  ASSUME NEW S, NEW s \in Seq(S), s # <<>>, NEW x \in S
  PROVE  /\ Inner(Append(s, x)) = Inner(s) \cup {Back(s)}
         /\ Pairs(Append(s, x)) = Pairs(s) \cup {<<Back(s), x>>}
         /\ Back(Append(s, x)) = x
         /\ Append(s, x) # <<>> /\ Append(s, x)[1] = s[1]
         /\ Simple(s) /\ Back(s) \notin Inner(s) => Simple(Append(s, x))
<1> DEFINE t == Append(s, x)
           n == Len(s)
<1>1. /\ Len(t) = n + 1 /\ \A i \in 1 .. n : t[i] = s[i]
      /\ t[n + 1] = x /\ n \in Nat /\ t # <<>> /\ DOMAIN s = 1 .. n
  BY AppendFacts
<1>2. n >= 1
  BY TailFacts
<1> HIDE DEF t, n
<1>3. Back(s) = s[n] /\ Back(t) = x
  BY <1>1 DEF Back, n
<1>4. Inner(t) = {s[i] : i \in 1 .. n} /\ Inner(s) = {s[i] : i \in 1 .. n - 1}
  BY <1>1 DEF Inner, n
<1>5. Inner(t) = Inner(s) \cup {Back(s)}
  <2>1. \A i \in 1 .. n : i \in 1 .. n - 1 \/ i = n
    BY <1>1
  <2>2. n \in 1 .. n /\ \A i \in 1 .. n - 1 : i \in 1 .. n
    BY <1>1, <1>2
  <2> QED
    BY <1>3, <1>4, <2>1, <2>2
<1>6. Pairs(t) = Pairs(s) \cup {<<Back(s), x>>}
  <2>1. /\ Pairs(t) = {<<t[i], t[i + 1]>> : i \in 1 .. n}
        /\ Pairs(s) = {<<s[i], s[i + 1]>> : i \in 1 .. n - 1}
    BY <1>1 DEF Pairs, n
  <2>2. \A i \in 1 .. n - 1 : t[i] = s[i] /\ t[i + 1] = s[i + 1] /\ i \in 1 .. n
    BY <1>1
  <2>3. n \in 1 .. n /\ t[n] = Back(s) /\ t[n + 1] = x
    BY <1>1, <1>2, <1>3
  <2>4. \A i \in 1 .. n : i \in 1 .. n - 1 \/ i = n
    BY <1>1
  <2> QED
    BY <2>1, <2>2, <2>3, <2>4
<1>7. t[1] = s[1]
  BY <1>1, <1>2
<1>8. ASSUME Simple(s), Back(s) \notin Inner(s)
      PROVE  Simple(t)
  <2>1. SUFFICES ASSUME NEW i \in 1 .. n, NEW j \in 1 .. n, t[i] = t[j]
                 PROVE  i = j
    BY <1>1 DEF Simple
  <2>2. s[i] = s[j]
    BY <1>1, <2>1
  <2>3. CASE i = n \/ j = n
    <3>1. \A k \in 1 .. n - 1 : s[k] # s[n]
      BY <1>3, <1>4, <1>8
    <3>2. (i = n \/ i \in 1 .. n - 1) /\ (j = n \/ j \in 1 .. n - 1)
      BY <1>1, <2>1
    <3> QED
      BY <2>2, <2>3, <3>1, <3>2
  <2>4. CASE i # n /\ j # n
    <3>1. i \in 1 .. n - 1 /\ j \in 1 .. n - 1
      BY <1>1, <2>1, <2>4
    <3> QED
      BY <1>8, <2>2, <3>1 DEF Simple, n
  <2> QED
    BY <2>3, <2>4
<1> QED
  BY <1>1, <1>3, <1>5, <1>6, <1>7, <1>8 DEF t

LEMMA ChainPopped ==
  ASSUME NEW S, NEW s \in Seq(S), Len(s) >= 2
  PROVE  /\ Popped(s) \in Seq(S) /\ Popped(s) # <<>>
         /\ Popped(s)[1] = s[1]
         /\ Back(Popped(s)) = Asker(s) /\ Asker(s) \in S /\ Back(s) \in S
         /\ Inner(s) = Inner(Popped(s)) \cup {Asker(s)}
         /\ Pairs(s) = Pairs(Popped(s)) \cup {<<Asker(s), Back(s)>>}
         /\ Simple(s) => Simple(Popped(s)) /\ Asker(s) \notin Inner(Popped(s))
<1> DEFINE t == Popped(s)
           n == Len(s)
<1>0. s # <<>>
  OBVIOUS
<1>1. /\ t \in Seq(S) /\ Len(t) = n - 1 /\ DOMAIN s = 1 .. n /\ n \in Nat /\ n >= 2
      /\ \A i \in 1 .. n - 1 : t[i] = s[i]
      /\ Back(s) \in S /\ Back(s) = s[n]
  BY <1>0, PoppedFacts
<1>2. t # <<>>
  <2> HIDE DEF t
  <2> QED
    BY <1>1
<1> HIDE DEF t, n
<1>3. Back(t) = s[n - 1] /\ Asker(s) = s[n - 1] /\ s[n - 1] \in S
  BY <1>1 DEF Back, Asker, n
<1>4. Inner(s) = {s[i] : i \in 1 .. n - 1} /\ Inner(t) = {s[i] : i \in 1 .. n - 2}
  <2>1. \A i \in 1 .. Len(t) - 1 : t[i] = s[i]
    BY <1>1
  <2>2. Len(t) - 1 = n - 2
    BY <1>1
  <2> QED
    BY <2>1, <2>2 DEF Inner, n
<1>5. /\ \A i \in 1 .. n - 1 : i \in 1 .. n - 2 \/ i = n - 1
      /\ n - 1 \in 1 .. n - 1 /\ \A i \in 1 .. n - 2 : i \in 1 .. n - 1
  BY <1>1
<1>6. Inner(s) = Inner(t) \cup {Asker(s)}
  BY <1>3, <1>4, <1>5
<1>7. Pairs(s) = Pairs(t) \cup {<<Asker(s), Back(s)>>}
  <2>1. /\ Pairs(s) = {<<s[i], s[i + 1]>> : i \in 1 .. n - 1}
        /\ Pairs(t) = {<<t[i], t[i + 1]>> : i \in 1 .. n - 2}
    <3>1. Len(t) - 1 = n - 2
      BY <1>1
    <3> QED
      BY <3>1 DEF Pairs, n
  <2>2. \A i \in 1 .. n - 2 : <<t[i], t[i + 1]>> = <<s[i], s[i + 1]>>
    BY <1>1
  <2>3. <<s[n - 1], s[(n - 1) + 1]>> = <<Asker(s), Back(s)>>
    BY <1>1, <1>3
  <2>4. Pairs(t) = {<<s[i], s[i + 1]>> : i \in 1 .. n - 2}
    BY ONLY <2>1, <2>2
  <2> QED
    BY ONLY <1>5, <2>1, <2>3, <2>4
<1>8. ASSUME Simple(s)
      PROVE  Simple(t) /\ Asker(s) \notin Inner(t)
  <2>1. \A i, j \in 1 .. n - 1 : s[i] = s[j] => i = j
    BY <1>8 DEF Simple, n
  <2>2. Simple(t)
    <3>1. SUFFICES ASSUME NEW i \in 1 .. n - 2, NEW j \in 1 .. n - 2, t[i] = t[j]
                   PROVE  i = j
      <4>1. Len(t) - 1 = n - 2
        BY <1>1
      <4> QED
        BY <4>1 DEF Simple
    <3>2. t[i] = s[i] /\ t[j] = s[j]
      BY <1>1, <3>1
    <3> QED
      BY <1>5, <2>1, <3>1, <3>2
  <2>3. \A i \in 1 .. n - 2 : s[i] # s[n - 1]
    BY <1>1, <1>5, <2>1
  <2> QED
    BY <1>3, <1>4, <2>2, <2>3
<1>9. t[1] = s[1]
  BY <1>1
<1> QED
  BY <1>1, <1>2, <1>3, <1>6, <1>7, <1>8, <1>9 DEF t

\* Who is behind whom.
LEMMA PairsFacts ==
  ASSUME NEW S, NEW s \in Seq(S), NEW x, NEW y, <<x, y>> \in Pairs(s)
  PROVE  /\ Len(s) >= 2 /\ s # <<>> /\ x \in Inner(s) /\ x \in S /\ y \in S
         /\ y \notin Inner(s) => y = Back(s) /\ x = Asker(s)
<1>1. PICK i \in 1 .. Len(s) - 1 : <<x, y>> = <<s[i], s[i + 1]>>
  BY DEF Pairs
<1>2. x = s[i] /\ y = s[i + 1] /\ Len(s) \in Nat /\ Len(s) >= 2
      /\ i \in DOMAIN s /\ i + 1 \in DOMAIN s
  BY <1>1
<1>3. y \notin Inner(s) => i = Len(s) - 1
  <2>1. i # Len(s) - 1 => i + 1 \in 1 .. Len(s) - 1
    BY <1>2
  <2> QED
    BY <1>2, <2>1 DEF Inner
<1>4. s # <<>>
  BY <1>2
<1>5. i = Len(s) - 1 => y = Back(s) /\ x = Asker(s)
  BY <1>2 DEF Back, Asker
<1>6. x \in Inner(s)
  BY <1>2 DEF Inner
<1> QED
  BY <1>2, <1>3, <1>4, <1>5, <1>6

LEMMA InnerFacts ==
  ASSUME NEW S, NEW s \in Seq(S)
  PROVE  /\ Inner(s) \subseteq S
         /\ Len(s) >= 2 => Asker(s) \in Inner(s) /\ s[1] \in Inner(s)
         /\ Inner(s) # {} => Len(s) >= 2 /\ s # <<>>
         /\ s # <<>> /\ ~(Len(s) >= 2) => Back(s) = s[1]
<1>1. Len(s) \in Nat /\ DOMAIN s = 1 .. Len(s)
  OBVIOUS
<1>2. \A i \in 1 .. Len(s) - 1 : s[i] \in S
  BY <1>1
<1>3. Len(s) >= 2 => Len(s) - 1 \in 1 .. Len(s) - 1 /\ 1 \in 1 .. Len(s) - 1
  BY <1>1
<1>4. s # <<>> /\ ~(Len(s) >= 2) => Len(s) = 1
  BY <1>1, TailFacts
<1> QED
  BY <1>1, <1>2, <1>3, <1>4 DEF Inner, Asker, Back

\* The order of the coroutines' queue.
LEMMA AheadFacts ==
  ASSUME NEW S, NEW s \in Seq(S), NEW x \in S, NEW y \in S
  PROVE  /\ y \notin Items(s) => Ahead(s, x, y)
         /\ s # <<>> /\ Head(s) = y => ~Ahead(s, x, y)
         /\ s # <<>> /\ Ahead(s, x, y) /\ Head(s) # x => Ahead(Tail(s), x, y)
         /\ \A z \in S : x \in Items(s) /\ Ahead(s, x, y) => Ahead(Append(s, z), x, y)
<1>1. y \notin Items(s) => Ahead(s, x, y)
  BY DEF Items, Ahead
<1>2. ASSUME s # <<>>, Head(s) = y, Ahead(s, x, y) PROVE FALSE
  <2>1. 1 \in DOMAIN s /\ s[1] = y
    BY <1>2, TailFacts
  <2>2. \E i \in 1 .. 1 - 1 : s[i] = x
    BY <1>2, <2>1 DEF Ahead
  <2> QED
    BY <2>2
<1>3. ASSUME s # <<>>, Ahead(s, x, y), Head(s) # x
      PROVE  Ahead(Tail(s), x, y)
  <2>1. /\ Head(s) = s[1] /\ DOMAIN s = 1 .. Len(s) /\ Len(s) \in Nat
        /\ DOMAIN Tail(s) = 1 .. Len(s) - 1
        /\ \A i \in 1 .. Len(s) - 1 : Tail(s)[i] = s[i + 1]
    BY <1>3, TailFacts
  <2>2. SUFFICES ASSUME NEW j \in 1 .. Len(s) - 1, Tail(s)[j] = y
                 PROVE  \E i \in 1 .. j - 1 : Tail(s)[i] = x
    BY <2>1 DEF Ahead
  <2>3. j + 1 \in DOMAIN s /\ s[j + 1] = y
    BY <2>1, <2>2
  <2>4. PICK i \in 1 .. (j + 1) - 1 : s[i] = x
    BY <1>3, <2>3 DEF Ahead
  <2>5. i # 1
    BY <1>3, <2>1, <2>4
  <2>6. i - 1 \in 1 .. j - 1 /\ i - 1 \in 1 .. Len(s) - 1 /\ (i - 1) + 1 = i
    BY <2>1, <2>2, <2>4, <2>5
  <2>7. Tail(s)[i - 1] = x
    BY <2>1, <2>4, <2>6
  <2> QED
    BY <2>6, <2>7
<1>4. ASSUME NEW z \in S, x \in Items(s), Ahead(s, x, y)
      PROVE  Ahead(Append(s, z), x, y)
  <2> DEFINE t == Append(s, z)
  <2>1. /\ DOMAIN t = 1 .. Len(s) + 1 /\ DOMAIN s = 1 .. Len(s) /\ Len(s) \in Nat
        /\ \A i \in 1 .. Len(s) : t[i] = s[i]
    BY AppendFacts
  <2> HIDE DEF t
  <2>2. SUFFICES ASSUME NEW j \in 1 .. Len(s) + 1, t[j] = y
                 PROVE  \E i \in 1 .. j - 1 : t[i] = x
    BY <2>1 DEF Ahead, t
  <2>3. CASE j = Len(s) + 1
    <3>1. PICK i \in DOMAIN s : s[i] = x
      BY <1>4 DEF Items
    <3> QED
      BY <2>1, <2>3, <3>1
  <2>4. CASE j # Len(s) + 1
    <3>1. j \in DOMAIN s /\ s[j] = y
      BY <2>1, <2>2, <2>4
    <3>2. PICK i \in 1 .. j - 1 : s[i] = x
      BY <1>4, <3>1 DEF Ahead
    <3> QED
      BY <2>1, <3>1, <3>2
  <2> QED
    BY <2>3, <2>4
<1> QED
  BY <1>1, <1>2, <1>3, <1>4

\* No coroutine is queued twice.
Distinct(s) == \A i, j \in DOMAIN s : s[i] = s[j] => i = j

LEMMA DistinctFacts ==
  ASSUME NEW S, NEW s \in Seq(S), Distinct(s)
  PROVE  /\ s # <<>> => Distinct(Tail(s)) /\ Head(s) \notin Items(Tail(s))
         /\ \A x \in S : x \notin Items(s) => Distinct(Append(s, x))
<1>1. ASSUME s # <<>>
      PROVE  Distinct(Tail(s)) /\ Head(s) \notin Items(Tail(s))
  <2>1. /\ Head(s) = s[1] /\ DOMAIN s = 1 .. Len(s) /\ Len(s) \in Nat /\ 1 \in DOMAIN s
        /\ DOMAIN Tail(s) = 1 .. Len(s) - 1
        /\ \A i \in 1 .. Len(s) - 1 : Tail(s)[i] = s[i + 1]
    BY <1>1, TailFacts
  <2>2. \A i \in 1 .. Len(s) - 1 : i + 1 \in DOMAIN s /\ i + 1 # 1
    BY <2>1
  <2>3. Head(s) \notin Items(Tail(s))
    BY <2>1, <2>2 DEF Distinct, Items
  <2>4. ASSUME NEW i \in 1 .. Len(s) - 1, NEW j \in 1 .. Len(s) - 1,
               Tail(s)[i] = Tail(s)[j]
        PROVE  i = j
    <3>1. i + 1 = j + 1
      BY <2>1, <2>2, <2>4 DEF Distinct
    <3> QED
      BY <3>1
  <2> QED
    BY <2>1, <2>3, <2>4 DEF Distinct
<1>2. ASSUME NEW x \in S, x \notin Items(s)
      PROVE  Distinct(Append(s, x))
  <2> DEFINE t == Append(s, x)
  <2>1. /\ DOMAIN t = 1 .. Len(s) + 1 /\ DOMAIN s = 1 .. Len(s) /\ Len(s) \in Nat
        /\ \A i \in 1 .. Len(s) : t[i] = s[i]
        /\ t[Len(s) + 1] = x
    BY AppendFacts
  <2> HIDE DEF t
  <2>2. SUFFICES ASSUME NEW i \in 1 .. Len(s) + 1, NEW j \in 1 .. Len(s) + 1,
                        t[i] = t[j]
                 PROVE  i = j
    BY <2>1 DEF Distinct, t
  <2>3. \A k \in 1 .. Len(s) : t[k] # x
    BY <1>2, <2>1 DEF Items
  <2>4. (i = Len(s) + 1 \/ i \in 1 .. Len(s)) /\ (j = Len(s) + 1 \/ j \in 1 .. Len(s))
    BY <2>1
  <2> QED
    BY <2>1, <2>2, <2>3, <2>4 DEF Distinct
<1> QED
  BY <1>1, <1>2

-----------------------------------------------------------------------------
(* The coroutines' queue and the connections: what needs no hypothesis.    *)

RunqRight ==
  /\ \A b \in Items(runq) :
       /\ coro[b].at \notin {"accept", "closed"}
       /\ coro[b].at = "read" => up[b] # <<>> \/ link[b] = "cut"
  /\ \A b \in Actors :
       coro[b].at \in {"connack", "request", "reply", "self"} => b \in Items(runq)

LinkRight(a) ==
  /\ ctx[a].phase = "start" <=> link[a] = "none"
  /\ ctx[a].phase = "connecting" => link[a] = "open"
  /\ ctx[a].phase = "dead" => link[a] = "cut"
  /\ down[a] # <<>> => link[a] = "open"
  /\ (ctx[a].job # NoMsg /\ ctx[a].job.type = "REQUEST") => link[a] = "open"
  /\ ctx[a].phase \in {"start", "connecting"} =>
       ctx[a].pending = NoReq /\ ctx[a].job = NoMsg /\ ctx[a].inbox = <<>>

LineInv == Distinct(runq) /\ RunqRight /\ \A a \in Actors : LinkRight(a)

LEMMA LineInit == Init => LineInv
<1> SUFFICES ASSUME Init PROVE LineInv
  OBVIOUS
<1>1. Distinct(runq) /\ Items(runq) = {}
  BY DEF Init, ProxyInit, Distinct, Items
<1>2. RunqRight
  BY <1>1 DEF Init, ProxyInit, RunqRight, Idle
<1>3. ASSUME NEW a \in Actors PROVE LinkRight(a)
  BY DEF Init, ProxyInit, LinkRight
<1> QED
  BY <1>1, <1>2, <1>3 DEF LineInv

\* How a step of a coroutine that has been resumed ends.
Ends(a) ==
  \/ AwaitPack(a)
  \/ \E f : f.at \in {"connack", "request", "reply", "self"} /\ AwaitWrite(a, f)
  \/ coro' = [coro EXCEPT ![a] = Idle("closed")] /\ runq' = Tail(runq)

\* What a step of the proxy may do to the connections to the actors.
Transmits == down' = down \/ \E t, p : Transmit(t, p)

LEMMA SuspendEnds ==
  ASSUME NEW a, NEW r, NEW at \in {"request", "self"}, NEW call,
         Suspend(a, r, at, call)
  PROVE  Ends(a) /\ Transmits
<1> DEFINE f == [at |-> at, call |-> call, who |-> r.to, pack |-> r.pack,
                 ok |-> link[r.to] = "open"]
<1>1. CASE r.writes
  <2>1. Transmit(r.to, r.pack) /\ AwaitWrite(a, f) /\ f.at = at
    BY <1>1 DEF Suspend
  <2> HIDE DEF f
  <2> QED
    BY <2>1 DEF Ends, Transmits
<1>2. CASE ~r.writes
  BY <1>2 DEF Suspend, Ends, Transmits
<1> QED
  BY <1>1, <1>2

\* The step of a coroutine at the head of the queue.
ResumedStep(a) ==
  ReadConnect(a) \/ ConnackWritten(a) \/ ReadRequest(a) \/ RequestDone(a)
    \/ ReadResponse(a) \/ ReplyWritten(a) \/ SelfDone(a) \/ ReadEof(a)

LEMMA ResumedFacts ==
  ASSUME Typed, NEW a \in Actors, ResumedStep(a)
  PROVE  /\ runq # <<>> /\ Head(runq) = a
         /\ coro[a].at \in {"read", "connack", "request", "reply", "self"}
         /\ Ends(a) /\ Transmits /\ link' = link
         /\ \A b \in Actors \ {a} : up'[b] = up[b]
<1> USE TypedParts
<1>1. CASE ReadConnect(a)
  <2>1. Idle("connack").at = "connack"
    BY DEF Idle
  <2> QED
    BY <1>1, <2>1 DEF ReadConnect, Reads, Resumes, Ends, Transmits
<1>2. CASE ConnackWritten(a) \/ RequestDone(a) \/ ReadEof(a)
  BY <1>2 DEF ConnackWritten, RequestDone, ReadEof, Resumes, Ends, Transmits
<1>3. CASE ReadRequest(a)
  <2>1. \E r : Suspend(a, r, "request", NoCall)
    BY <1>3 DEF ReadRequest
  <2>2. Ends(a) /\ Transmits
    BY <2>1, SuspendEnds
  <2> QED
    BY <1>3, <2>2 DEF ReadRequest, Reads, Resumes
<1>4. CASE ReadResponse(a)
  <2> DEFINE f == [at |-> "reply", call |-> Head(up[a]).call,
                   who |-> Back(call_chain[Head(up[a]).call]),
                   pack |-> NoRequest, ok |-> TRUE]
  <2>1. AwaitWrite(a, f) /\ f.at = "reply" /\ \E t, p : Transmit(t, p)
    BY <1>4 DEF ReadResponse
  <2> HIDE DEF f
  <2>2. Ends(a) /\ Transmits
    BY <2>1 DEF Ends, Transmits
  <2> QED
    BY <1>4, <2>2 DEF ReadResponse, Reads, Resumes
<1>5. CASE ReplyWritten(a) \/ SelfDone(a)
  <2>1. \E r, call : \E at \in {"request", "self"} : Suspend(a, r, at, call)
    BY <1>5 DEF ReplyWritten, SelfDone, ResumeCaller
  <2>2. Ends(a) /\ Transmits
    BY <2>1, SuspendEnds
  <2> QED
    BY <1>5, <2>2 DEF ReplyWritten, SelfDone, Resumes
<1> QED
  BY <1>1, <1>2, <1>3, <1>4, <1>5 DEF ResumedStep

\* The queue without its head, whose coroutine waits for something else now.
LEMMA EndsFacts ==
  ASSUME Typed, NEW a \in Actors, runq # <<>>, Head(runq) = a, Distinct(runq), Ends(a)
  PROVE  /\ \A b \in Actors \ {a} : coro'[b] = coro[b]
         /\ \A b \in Actors \ {a} : b \in Items(runq)' <=> b \in Items(runq)
         /\ \/ /\ coro'[a].at \in {"read", "closed"}
               /\ a \notin Items(runq)' /\ runq' = Tail(runq)
            \/ /\ coro'[a].at \in {"connack", "request", "reply", "self"}
               /\ a \in Items(runq)' /\ runq' = Append(Tail(runq), a)
         /\ Distinct(runq)' /\ Items(runq)' \subseteq Actors
         /\ Items(runq) \subseteq Actors /\ a \in Items(runq)
<1>1. /\ runq \in Seq(Actors) /\ coro \in [Actors -> Frame]
      /\ Tail(runq) \in Seq(Actors)
  BY TypedParts, TailFacts
<1>2. /\ Items(runq) = Items(Tail(runq)) \cup {a} /\ a \notin Items(Tail(runq))
      /\ Distinct(Tail(runq))
  BY <1>1, ItemsTail, DistinctFacts
<1>3. /\ Items(Append(Tail(runq), a)) = Items(Tail(runq)) \cup {a}
      /\ Distinct(Append(Tail(runq), a))
  <2> DEFINE t == Tail(runq)
  <2>1. t \in Seq(Actors) /\ Distinct(t) /\ a \notin Items(t)
    BY <1>1, <1>2
  <2> HIDE DEF t
  <2> QED
    BY <2>1, ItemsAppend, DistinctFacts, ZenonT(30) DEF t
<1>4. Items(runq) \subseteq Actors
  BY <1>1 DEF Items
<1>5. Idle("read").at = "read" /\ Idle("closed").at = "closed"
  BY DEF Idle
<1>6. \/ coro'[a].at \in {"read", "closed"} /\ runq' = Tail(runq)
      \/ /\ coro'[a].at \in {"connack", "request", "reply", "self"}
         /\ runq' = Append(Tail(runq), a)
  BY <1>1, <1>5 DEF Ends, AwaitPack, AwaitWrite
<1>7. \A b \in Actors \ {a} : coro'[b] = coro[b]
  BY <1>1 DEF Ends, AwaitPack, AwaitWrite
<1>8. Items(runq)' = Items(runq') /\ (Distinct(runq)' <=> Distinct(runq'))
  BY DEF Items, Distinct
<1>9. CASE runq' = Tail(runq)
  BY <1>2, <1>3, <1>4, <1>6, <1>7, <1>8, <1>9
<1>10. CASE runq' # Tail(runq)
  BY <1>2, <1>3, <1>4, <1>6, <1>7, <1>8, <1>10
<1> QED
  BY <1>9, <1>10

LEMMA DownOpen ==
  ASSUME Typed, \A b \in Actors : LinkRight(b), Transmits, UNCHANGED <<ctx, link>>
  PROVE  \A b \in Actors : LinkRight(b)'
<1>1. down \in [Actors -> Seq(DownPack)]
  BY TypedParts
<1>2. ASSUME NEW b \in Actors PROVE down'[b] # <<>> => link[b] = "open"
  BY <1>1 DEF Transmits, Transmit, LinkRight
<1> QED
  BY <1>2 DEF LinkRight

LEMMA LineProxies ==
  ASSUME Typed, LineInv, NEW a \in Actors, Proxies(a)
  PROVE  LineInv'
<1>1. ctx' = ctx
  BY DEF Proxies
<1>2. CASE ResumedStep(a)
  <2>1. /\ runq # <<>> /\ Head(runq) = a
        /\ coro[a].at \in {"read", "connack", "request", "reply", "self"}
        /\ Ends(a) /\ Transmits /\ link' = link
        /\ \A b \in Actors \ {a} : up'[b] = up[b]
    BY <1>2, ResumedFacts
  <2>2. /\ \A b \in Actors \ {a} : coro'[b] = coro[b]
        /\ \A b \in Actors \ {a} : b \in Items(runq)' <=> b \in Items(runq)
        /\ \/ /\ coro'[a].at \in {"read", "closed"}
              /\ a \notin Items(runq)' /\ runq' = Tail(runq)
           \/ /\ coro'[a].at \in {"connack", "request", "reply", "self"}
              /\ a \in Items(runq)' /\ runq' = Append(Tail(runq), a)
        /\ Distinct(runq)' /\ Items(runq)' \subseteq Actors
    BY <2>1, EndsFacts DEF LineInv
  <2>3. RunqRight'
    BY <2>1, <2>2 DEF LineInv, RunqRight
  <2> QED
    BY <1>1, <2>1, <2>2, <2>3, DownOpen DEF LineInv
<1>3. CASE Accept(a)
  <2>1. Items(runq) \subseteq Actors /\ coro \in [Actors -> Frame]
    BY TypedParts DEF Items
  <2>2. /\ coro[a].at = "accept" /\ coro' = [coro EXCEPT ![a] = Idle("read")]
        /\ UNCHANGED <<runq, link, up, down>>
    BY <1>3 DEF Accept
  <2>3. a \notin Items(runq)
    BY <2>2 DEF LineInv, RunqRight
  <2>4. Items(runq)' = Items(runq) /\ Distinct(runq)'
    BY <2>2 DEF LineInv
  <2>5. \A b \in Actors : coro'[b] = IF b = a THEN Idle("read") ELSE coro[b]
    BY <2>1, <2>2
  <2>6. Idle("read").at = "read"
    BY DEF Idle
  <2>7. RunqRight'
    BY <2>1, <2>2, <2>3, <2>4, <2>5, <2>6 DEF LineInv, RunqRight
  <2>8. Transmits
    BY <2>2 DEF Transmits
  <2> QED
    BY <1>1, <2>2, <2>4, <2>7, <2>8, DownOpen DEF LineInv
<1>4. CASE Arrive(a)
  <2>1. /\ runq \in Seq(Actors) /\ a \notin Items(runq) /\ runq' = Append(runq, a)
        /\ coro[a].at = "read" /\ (up[a] # <<>> \/ link[a] = "cut")
        /\ UNCHANGED <<coro, link, up, down>>
    BY <1>4, TypedParts DEF Arrive, Items
  <2>2. Items(runq)' = Items(runq') /\ (Distinct(runq)' <=> Distinct(runq'))
    BY DEF Items, Distinct
  <2>3. Items(runq)' = Items(runq) \cup {a} /\ Distinct(runq)'
    BY <2>1, <2>2, ItemsAppend, DistinctFacts DEF LineInv
  <2>4. RunqRight'
    BY <2>1, <2>3 DEF LineInv, RunqRight
  <2>5. Transmits
    BY <2>1 DEF Transmits
  <2> QED
    BY <1>1, <2>1, <2>3, <2>4, <2>5, DownOpen DEF LineInv
<1> QED
  BY <1>2, <1>3, <1>4 DEF Proxies, ProxyStep, ResumedStep

\* A step of process a itself.
OwnStep(a) ==
  ActorStep(a) \/ Crash(a) \/ \E s \in Services : ClientRequest(a, s)

LEMMA OwnFacts ==
  ASSUME Typed, NEW a \in Actors, OwnStep(a)
  PROVE  /\ UNCHANGED <<actor_info, actor_info_map, call_chain, coro, runq>>
         /\ \A b \in Actors \ {a} : /\ ctx'[b] = ctx[b] /\ down'[b] = down[b]
                                    /\ up'[b] = up[b] /\ link'[b] = link[b]
         /\ link'[a] \in {link[a], "cut"} \/ ActorConnect(a)
         /\ up'[a] = up[a] \/ up'[a] # <<>>
<1> USE TypedParts
<1>1. CASE ActorConnect(a)
  <2>1. /\ UNCHANGED <<actor_info, actor_info_map, call_chain, coro, runq, down>>
        /\ \A b \in Actors \ {a} : /\ ctx'[b] = ctx[b] /\ up'[b] = up[b]
                                   /\ link'[b] = link[b]
        /\ up'[a] = <<Connect>>
    BY <1>1 DEF ActorConnect
  <2>2. <<Connect>> # <<>>
    OBVIOUS
  <2> QED
    BY <1>1, <2>1, <2>2
<1>2. CASE ReceiveConnack(a) \/ ReceiveRequest(a) \/ ReceiveResponse(a)
  BY <1>2 DEF ReceiveConnack, ReceiveRequest, ReceiveResponse, Receives
<1>3. CASE SkipStale(a) \/ StartJob(a) \/ \E s \in Services : SendRefused(a, s)
             \/ ClientRequest(a, s)
  BY <1>3 DEF SkipStale, StartJob, SendRefused, ClientRequest, proxyVars
<1>4. ASSUME NEW s \in Services, Send(a, s)
      PROVE  /\ UNCHANGED <<actor_info, actor_info_map, call_chain, coro, runq>>
             /\ UNCHANGED <<link, down>>
             /\ \A b \in Actors \ {a} : ctx'[b] = ctx[b] /\ up'[b] = up[b]
             /\ up'[a] = up[a] \/ up'[a] # <<>>
  <2> DEFINE p == SentPack(a, s)
  <2>1. /\ UNCHANGED <<actor_info, actor_info_map, call_chain, coro, runq>>
        /\ UNCHANGED <<link, down>>
        /\ up' = up \/ up' = [up EXCEPT ![a] = Append(@, p)]
        /\ p \in UpPack /\ \E x : ctx' = [ctx EXCEPT ![a] = x]
    BY <1>4, SendFacts DEF UpPack
  <2> HIDE DEF p
  <2>2. Append(up[a], p) # <<>>
    <3> DEFINE q == up[a]
    <3>1. q \in Seq(UpPack)
      OBVIOUS
    <3> HIDE DEF q
    <3> QED
      BY <2>1, <3>1, AppendFacts DEF q
  <2>3. \A b \in Actors \ {a} : ctx'[b] = ctx[b] /\ up'[b] = up[b]
    BY <2>1
  <2>4. up'[a] = up[a] \/ up'[a] = Append(up[a], p)
    BY <2>1
  <2> QED
    BY <2>1, <2>2, <2>3, <2>4
<1>5. CASE Finish(a)
  <2> DEFINE p == AnswerTo(ctx[a].job)
             x == [ctx[a] EXCEPT !.job = NoMsg, !.call_id = NoCall, !.error = FALSE]
  <2>1. /\ ctx' = [ctx EXCEPT ![a] = x]
        /\ UNCHANGED <<actor_info, actor_info_map, call_chain, coro, runq>>
        /\ link' \in {link, [link EXCEPT ![a] = "cut"]}
        /\ down' \in {down, [down EXCEPT ![a] = <<>>]}
        /\ up' = up \/ (p \in UpPack /\ up' = [up EXCEPT ![a] = Append(@, p)])
    BY <1>5, FinishFacts, AnswerFacts DEF UpPack
  <2> HIDE DEF p, x
  <2>2. ASSUME p \in UpPack PROVE Append(up[a], p) # <<>>
    <3> DEFINE q == up[a]
    <3>1. q \in Seq(UpPack)
      OBVIOUS
    <3> HIDE DEF q
    <3> QED
      BY ONLY <2>2, <3>1, AppendFacts DEF q
  <2>3. up'[a] = up[a] \/ (p \in UpPack /\ up'[a] = Append(up[a], p))
    BY <2>1
  <2>4. \A b \in Actors \ {a} : /\ ctx'[b] = ctx[b] /\ down'[b] = down[b]
                                /\ up'[b] = up[b] /\ link'[b] = link[b]
    BY <2>1
  <2> QED
    BY <2>1, <2>2, <2>3, <2>4
<1>6. CASE Crash(a)
  BY <1>6 DEF Crash
<1>7. UNCHANGED <<actor_info, actor_info_map, call_chain, coro, runq>>
  BY <1>1, <1>2, <1>3, <1>4, <1>5, <1>6, TypedParts
     DEF OwnStep, ActorStep, ActorRuns, ActorConnect, ReceiveConnack, ReceiveRequest,
         ReceiveResponse, Receives, SkipStale, StartJob, SendRefused, Finish, Crash,
         ClientRequest, proxyVars
<1> QED
  BY <1>1, <1>2, <1>3, <1>4, <1>5, <1>6, <1>7 DEF OwnStep, ActorStep, ActorRuns

LEMMA LineOwn ==
  ASSUME Typed, AckInv, LineInv, NEW a \in Actors, OwnStep(a)
  PROVE  LineInv'
<1> USE TypedParts
<1>1. /\ UNCHANGED <<actor_info, actor_info_map, call_chain, coro, runq>>
      /\ \A b \in Actors \ {a} : /\ ctx'[b] = ctx[b] /\ down'[b] = down[b]
                                 /\ up'[b] = up[b] /\ link'[b] = link[b]
      /\ link'[a] \in {link[a], "cut"} \/ ActorConnect(a)
      /\ up'[a] = up[a] \/ up'[a] # <<>>
  BY OwnFacts
<1>2. Items(runq) \subseteq Actors /\ Items(runq)' = Items(runq)
  BY <1>1 DEF Items
<1>3. link[a] = "cut" => link'[a] = "cut"
  BY <1>1 DEF ActorConnect, LineInv, LinkRight
<1>4. RunqRight'
  <2>1. ASSUME NEW b \in Items(runq)
        PROVE  /\ coro'[b].at \notin {"accept", "closed"}
               /\ coro'[b].at = "read" => up'[b] # <<>> \/ link'[b] = "cut"
    BY <1>1, <1>2, <1>3 DEF LineInv, RunqRight
  <2>2. ASSUME NEW b \in Actors,
               coro'[b].at \in {"connack", "request", "reply", "self"}
        PROVE  b \in Items(runq)
    BY <1>1, <2>2 DEF LineInv, RunqRight
  <2> QED
    BY <1>2, <2>1, <2>2 DEF RunqRight
<1>5. Distinct(runq)'
  BY <1>1 DEF LineInv
<1>6. \A b \in Actors \ {a} : LinkRight(b)'
  BY <1>1 DEF LineInv, LinkRight
<1>7. LinkRight(a) /\ ctx[a] \in Ctx
  BY DEF LineInv
<1>8. LinkRight(a)'
  <2>1. CASE ActorConnect(a)
    <3>1. /\ ctx[a].phase = "start" /\ link' = [link EXCEPT ![a] = "open"]
          /\ ctx' = [ctx EXCEPT ![a].phase = "connecting"] /\ down' = down
      BY <2>1 DEF ActorConnect
    <3>2. /\ ctx'[a].phase = "connecting" /\ ctx'[a].job = ctx[a].job
          /\ ctx'[a].inbox = ctx[a].inbox /\ ctx'[a].pending = ctx[a].pending
          /\ link'[a] = "open"
      BY <1>7, <3>1 DEF Ctx
    <3> QED
      BY <1>7, <3>1, <3>2 DEF LinkRight
  <2>2. CASE ReceiveConnack(a)
    <3>1. /\ ctx[a].phase = "connecting" /\ link' = link
          /\ ctx'[a].phase = "up" /\ ctx'[a].job = ctx[a].job
          /\ down[a] # <<>>
      BY <1>7, <2>2 DEF ReceiveConnack, Ctx
    <3> QED
      BY <1>7, <3>1 DEF LinkRight
  <2>3. CASE ReceiveRequest(a) \/ ReceiveResponse(a)
    <3>1. /\ ctx[a].phase = "up" /\ link' = link
          /\ ctx'[a].phase = "up" /\ ctx'[a].job = ctx[a].job
          /\ down[a] # <<>>
      BY <1>7, <2>3 DEF ReceiveRequest, ReceiveResponse, Receives, Ctx
    <3> QED
      BY <1>7, <3>1 DEF LinkRight
  <2>4. CASE SkipStale(a)
    <3>1. /\ ctx[a].phase = "up" /\ link' = link /\ down' = down
          /\ ctx'[a].phase = "up" /\ ctx'[a].job = ctx[a].job
      BY <1>7, <2>4 DEF SkipStale, TakesMsg, proxyVars, Ctx
    <3> QED
      BY <1>7, <3>1 DEF LinkRight
  <2>5. CASE StartJob(a)
    <3>1. /\ ctx[a].phase = "up" /\ link' = link /\ down' = down
          /\ ctx'[a].phase = "up" /\ ctx'[a].job = Head(ctx[a].inbox)
          /\ ~(Head(ctx[a].inbox).type = "REQUEST" /\ link[a] = "cut")
      BY <1>7, <2>5 DEF StartJob, TakesMsg, Stale, proxyVars, Ctx
    <3>2. link[a] \in {"open", "cut"}
      BY <1>7, <3>1 DEF LinkRight
    <3> QED
      BY <1>7, <3>1, <3>2 DEF LinkRight
  <2>6. CASE \E s \in Services : SendRefused(a, s) \/ ClientRequest(a, s)
    <3>1. /\ ctx[a].phase = "up" /\ link' = link /\ down' = down
          /\ ctx'[a].phase = "up" /\ ctx'[a].job = ctx[a].job
      BY <1>7, <2>6 DEF SendRefused, ClientRequest, Serving, proxyVars, Ctx
    <3> QED
      BY <1>7, <3>1 DEF LinkRight
  <2>7. ASSUME NEW s \in Services, Send(a, s)
        PROVE  LinkRight(a)'
    <3>1. /\ ctx[a].phase = "up" /\ link' = link /\ down' = down
          /\ Sent(a) \in Ctx /\ Sent(a).phase = "up" /\ Sent(a).job = ctx[a].job
          /\ \/ ctx' = [ctx EXCEPT ![a] = [Sent(a) EXCEPT !.pending = SentReq(a)]]
             \/ ctx' = [ctx EXCEPT ![a] = [Sent(a) EXCEPT !.error = TRUE]]
      BY <2>7, SendFacts
    <3>2. ctx'[a].phase = "up" /\ ctx'[a].job = ctx[a].job
      BY <3>1 DEF Ctx
    <3> QED
      BY <1>7, <3>1, <3>2 DEF LinkRight
  <2>8. CASE Finish(a)
    <3>1. /\ ctx[a].phase = "up"
          /\ ctx' = [ctx EXCEPT ![a] = [ctx[a] EXCEPT !.job = NoMsg,
                                        !.call_id = NoCall, !.error = FALSE]]
          /\ \/ UNCHANGED <<link, down>>
             \/ /\ link' = [link EXCEPT ![a] = "cut"]
                /\ down' = [down EXCEPT ![a] = <<>>]
      BY <2>8, FinishFacts
    <3>2. ctx'[a].phase = "up" /\ ctx'[a].job = NoMsg
      BY <1>7, <3>1 DEF Ctx
    <3>3. link'[a] # "none" /\ (down'[a] # <<>> => link'[a] = "open")
      BY <1>7, <3>1 DEF LinkRight
    <3> QED
      BY <3>2, <3>3 DEF LinkRight
  <2>9. CASE Crash(a)
    <3>1. /\ ctx'[a].phase = "dead" /\ ctx'[a].job = NoMsg
          /\ link'[a] = "cut" /\ down'[a] = <<>>
      BY <1>7, <2>9 DEF Crash, Ctx
    <3> QED
      BY <3>1 DEF LinkRight
  <2> QED
    BY <2>1, <2>2, <2>3, <2>4, <2>5, <2>6, <2>7, <2>8, <2>9
       DEF OwnStep, ActorStep, ActorRuns
<1> QED
  BY <1>4, <1>5, <1>6, <1>8 DEF LineInv

LEMMA LineStep == Typed /\ AckInv /\ LineInv /\ [Next]_vars => LineInv'
<1> SUFFICES ASSUME Typed, AckInv, LineInv, [Next]_vars PROVE LineInv'
  OBVIOUS
<1>1. CASE UNCHANGED vars
  BY <1>1 DEF vars, proxyVars, LineInv, RunqRight, LinkRight, Distinct, Items
<1>2. CASE Next
  BY <1>2, LineProxies, LineOwn DEF Next, OwnStep
<1> QED
  BY <1>1, <1>2

-----------------------------------------------------------------------------
(* The packs that connections, queues and jobs hold, by what they are to   *)
(* process b: its requests and its answers that the proxy has not read,    *)
(* the requests it has to work on, the answers it will receive.            *)

Requests(s)  == {p \in Items(s) : p.type = "REQUEST"}
Responses(s) == {p \in Items(s) : p.type = "RESPONSE"}

Asks(b)    == Requests(up[b])
Answers(b) == Responses(up[b])
Works(b)   == Requests(down[b]) \cup Requests(ctx[b].inbox)
                \cup Requests(JobLine(ctx[b].job))
Gets(b)    == Responses(down[b])
Packs(b)   == Asks(b) \cup Answers(b) \cup Works(b) \cup Gets(b)

LEMMA KindsAppend ==
  ASSUME NEW S, NEW s \in Seq(S), NEW x \in S
  PROVE  /\ Requests(Append(s, x)) =
              Requests(s) \cup (IF x.type = "REQUEST" THEN {x} ELSE {})
         /\ Responses(Append(s, x)) =
              Responses(s) \cup (IF x.type = "RESPONSE" THEN {x} ELSE {})
<1>1. Items(Append(s, x)) = Items(s) \cup {x}
  BY ItemsAppend
<1> QED
  BY <1>1 DEF Requests, Responses

LEMMA KindsTail ==
  ASSUME NEW S, NEW s \in Seq(S), s # <<>>
  PROVE  /\ Requests(s) = Requests(Tail(s))
                            \cup (IF Head(s).type = "REQUEST" THEN {Head(s)} ELSE {})
         /\ Responses(s) = Responses(Tail(s))
                             \cup (IF Head(s).type = "RESPONSE" THEN {Head(s)} ELSE {})
<1>1. Items(s) = Items(Tail(s)) \cup {Head(s)}
  BY ItemsTail
<1> QED
  BY <1>1 DEF Requests, Responses

LEMMA KindsNone == Requests(<<>>) = {} /\ Responses(<<>>) = {}
  BY ItemsOf DEF Requests, Responses

LEMMA ItemsTyped ==
  ASSUME NEW S, NEW s \in Seq(S)
  PROVE  Items(s) \subseteq S /\ (s # <<>> => Items(s) # {})
<1>1. s # <<>> => s[1] \in Items(s)
  BY TailFacts DEF Items
<1> QED
  BY <1>1 DEF Items

LEMMA PacksTyped ==
  ASSUME Typed, NEW b \in Actors
  PROVE  /\ Asks(b) \subseteq Request /\ Works(b) \subseteq Request
         /\ Answers(b) \subseteq Response /\ Gets(b) \subseteq Response
         /\ \A p \in Packs(b) : /\ p.req \in Reqs /\ p.req[1] \in Actors
                                /\ p.call \in CallIds
<1>1. /\ up[b] \in Seq(UpPack) /\ down[b] \in Seq(DownPack)
      /\ ctx[b].inbox \in Seq(Msg) /\ ctx[b].job \in Msg \cup {NoMsg}
  BY TypedParts, CtxFields
<1>2. Items(up[b]) \subseteq UpPack /\ Items(down[b]) \subseteq DownPack
      /\ Items(ctx[b].inbox) \subseteq Msg
  BY <1>1, ItemsTyped
<1>3. Items(JobLine(ctx[b].job)) \subseteq Msg
  BY <1>1, ItemsOf DEF JobLine
<1>4. /\ \A p \in UpPack \cup DownPack \cup Msg : p.type = "REQUEST" => p \in Request
      /\ \A p \in UpPack \cup DownPack : p.type = "RESPONSE" => p \in Response
  BY PackKinds DEF ClientMsg
<1>5. /\ Asks(b) \subseteq Request /\ Works(b) \subseteq Request
      /\ Answers(b) \subseteq Response /\ Gets(b) \subseteq Response
  BY <1>2, <1>3, <1>4 DEF Asks, Works, Answers, Gets, Requests, Responses
<1>6. \A p \in Request \cup Response : /\ p.req \in Reqs /\ p.req[1] \in Actors
                                       /\ p.call \in CallIds
  BY DEF Request, Response, Reqs
<1> QED
  BY <1>5, <1>6 DEF Packs

LEMMA PacksKinds ==
  ASSUME NEW b \in Actors
  PROVE  /\ \A p \in Asks(b) \cup Works(b) : p.type = "REQUEST"
         /\ \A p \in Answers(b) \cup Gets(b) : p.type = "RESPONSE"
  BY DEF Asks, Works, Answers, Gets, Requests, Responses

\* The lines of process b.
LEMMA LineAt ==
  ASSUME NEW b \in Actors, NEW L, L = AllLines(up, Queues(Maps), down, ctx)
  PROVE  /\ <<"up", b>> \in LineNames /\ L[<<"up", b>>] = up[b]
         /\ <<"down", b>> \in LineNames /\ L[<<"down", b>>] = down[b]
         /\ <<"inbox", b>> \in LineNames /\ L[<<"inbox", b>>] = ctx[b].inbox
         /\ <<"job", b>> \in LineNames /\ L[<<"job", b>>] = JobLine(ctx[b].job)
<1>1. /\ <<"up", b>> \in LineNames /\ <<"down", b>> \in LineNames
      /\ <<"inbox", b>> \in LineNames /\ <<"job", b>> \in LineNames
  BY DEF LineNames
<1> QED
  BY <1>1 DEF AllLines, LinesOf, InboxesOf, JobsOf

\* Where a pack is, and where it is not.
InLine(L, l, p) == \E i \in DOMAIN L[l] : L[l][i] = p

LEMMA PacksAt ==
  ASSUME NEW b \in Actors, NEW L, L = AllLines(up, Queues(Maps), down, ctx)
  PROVE  /\ \A p \in Asks(b) \cup Answers(b) : InLine(L, <<"up", b>>, p)
         /\ \A p \in Gets(b) : InLine(L, <<"down", b>>, p)
         /\ \A p \in Works(b) : \/ InLine(L, <<"down", b>>, p)
                                \/ InLine(L, <<"inbox", b>>, p)
                                \/ InLine(L, <<"job", b>>, p)
  BY LineAt DEF Asks, Answers, Works, Gets, Requests, Responses, Items, InLine

LEMMA OnceInLine ==
  ASSUME NEW L, Once(L), NEW l \in LineNames, NEW k \in LineNames,
         NEW p, NEW q, Named(p), Named(q), InLine(L, l, p), InLine(L, k, q),
         p.req = q.req
  PROVE  l = k /\ p = q
<1>1. PICK i \in DOMAIN L[l] : L[l][i] = p
  BY DEF InLine
<1>2. PICK j \in DOMAIN L[k] : L[k][j] = q
  BY DEF InLine
<1>3. l = k /\ i = j
  BY <1>1, <1>2 DEF Once
<1> QED
  BY <1>1, <1>2, <1>3

LEMMA OnceFacts ==
  ASSUME Typed, PacksInv, NEW b \in Actors, NEW d \in Actors
  PROVE  /\ \A p \in Asks(b) \cup Answers(b), q \in Works(d) \cup Gets(d) :
              p.req # q.req
         /\ \A p \in Asks(b), q \in Answers(d) : p.req # q.req
         /\ \A p \in Works(b), q \in Gets(d) : p.req # q.req
<1> DEFINE L == AllLines(up, Queues(Maps), down, ctx)
<1>1. Once(L)
  BY DEF PacksInv, PacksGood, Good
<1>2. \A a \in Actors : /\ <<"up", a>> \in LineNames /\ <<"down", a>> \in LineNames
                        /\ <<"inbox", a>> \in LineNames /\ <<"job", a>> \in LineNames
  BY DEF LineNames
<1>3. /\ \A p \in Asks(b) \cup Works(b) : p.type = "REQUEST" /\ Named(p)
      /\ \A p \in Answers(b) \cup Gets(b) : p.type = "RESPONSE" /\ Named(p)
      /\ \A p \in Asks(d) \cup Works(d) : p.type = "REQUEST" /\ Named(p)
      /\ \A p \in Answers(d) \cup Gets(d) : p.type = "RESPONSE" /\ Named(p)
  BY PacksKinds DEF Named
<1>4. /\ \A p \in Asks(b) \cup Answers(b) : InLine(L, <<"up", b>>, p)
      /\ \A p \in Asks(d) \cup Answers(d) : InLine(L, <<"up", d>>, p)
      /\ \A p \in Gets(d) : InLine(L, <<"down", d>>, p)
      /\ \A p \in Works(d) : \/ InLine(L, <<"down", d>>, p)
                             \/ InLine(L, <<"inbox", d>>, p)
                             \/ InLine(L, <<"job", d>>, p)
      /\ \A p \in Works(b) : \/ InLine(L, <<"down", b>>, p)
                             \/ InLine(L, <<"inbox", b>>, p)
                             \/ InLine(L, <<"job", b>>, p)
  BY PacksAt
<1> HIDE DEF L
<1>5. ASSUME NEW p \in Asks(b) \cup Answers(b), NEW q \in Works(d) \cup Gets(d),
             p.req = q.req
      PROVE  FALSE
  <2>1. InLine(L, <<"up", b>>, p) /\ Named(p) /\ Named(q)
    BY <1>3, <1>4
  <2>2. PICK k \in {"down", "inbox", "job"} : InLine(L, <<k, d>>, q)
    BY <1>4
  <2>3. <<k, d>> \in LineNames /\ <<"up", b>> \in LineNames
    BY <1>2, <2>2
  <2>4. <<k, d>> = <<"up", b>>
    BY <1>1, <1>5, <2>1, <2>2, <2>3, OnceInLine
  <2> QED
    BY <2>2, <2>4
<1>6. ASSUME NEW p \in Asks(b), NEW q \in Answers(d), p.req = q.req
      PROVE  FALSE
  <2>1. InLine(L, <<"up", b>>, p) /\ InLine(L, <<"up", d>>, q) /\ Named(p) /\ Named(q)
    BY <1>3, <1>4
  <2>2. p = q
    BY <1>1, <1>2, <1>6, <2>1, OnceInLine
  <2> QED
    BY <1>3, <2>2
<1>7. ASSUME NEW p \in Works(b), NEW q \in Gets(d), p.req = q.req
      PROVE  FALSE
  <2>1. InLine(L, <<"down", d>>, q) /\ Named(p) /\ Named(q)
    BY <1>3, <1>4
  <2>2. PICK k \in {"down", "inbox", "job"} : InLine(L, <<k, b>>, p)
    BY <1>4
  <2>3. <<k, b>> \in LineNames /\ <<"down", d>> \in LineNames
    BY <1>2, <2>2
  <2>4. p = q
    BY <1>1, <1>7, <2>1, <2>2, <2>3, OnceInLine
  <2> QED
    BY <1>3, <2>4
<1> QED
  BY <1>5, <1>6, <1>7

\* No other pack is of the request of the first pack of a line.
LEMMA ReadGone ==
  ASSUME Typed, PacksInv, NEW a \in Actors, NEW type \in {"REQUEST", "RESPONSE"},
         Reads(a, type), NEW b \in Actors, NEW q \in Requests(up'[b]) \cup Responses(up'[b])
  PROVE  q.req # Head(up[a]).req
<1> DEFINE K == AllLines(up', Queues(Maps), down, ctx)
<1>1. Absent(K, Head(up[a]).req)
  BY ReadTaken DEF PacksInv
<1>2. <<"up", b>> \in LineNames /\ K[<<"up", b>>] = up'[b]
  BY DEF LineNames, AllLines, LinesOf
<1>3. Named(q) /\ \E i \in DOMAIN up'[b] : up'[b][i] = q
  BY DEF Named, Requests, Responses, Items
<1> HIDE DEF K
<1> QED
  BY <1>1, <1>2, <1>3 DEF Absent

LEMMA ReceiveGone ==
  ASSUME Typed, PacksInv, NEW a \in Actors, down[a] # <<>>,
         Head(down[a]).type = "RESPONSE", down' = [down EXCEPT ![a] = Tail(@)],
         NEW b \in Actors, NEW q \in Requests(down'[b]) \cup Responses(down'[b])
  PROVE  q.req # Head(down[a]).req
<1> DEFINE L == AllLines(up, Queues(Maps), down, ctx)
           K == AllLines(up, Queues(Maps), down', ctx)
           l == <<"down", a>>
<1>1. /\ up \in PerActor /\ Queues(Maps) \in PerActor /\ down \in PerActor
      /\ L \in LinesType /\ ctx \in [Actors -> Ctx]
  BY StateLines, TypedParts
<1>2. down' \in PerActor
  BY TypedParts, TailTyped, PerActorTyped
<1>3. K \in LinesType
  BY <1>1, <1>2, AllLinesTyped
<1>4. LosesAt(down, down', a)
  BY <1>1 DEF LosesAt, OnlyAt, PerActor
<1>5. TakenFrom(L, K, l)
  BY <1>4, LineTaken DEF AllLines
<1>6. l \in LineNames /\ L[l] = down[a]
  BY DEF LineNames, AllLines, LinesOf
<1>7. Once(L) /\ Named(Head(down[a]))
  BY DEF PacksInv, PacksGood, Good, Named
<1>8. <<"down", b>> \in LineNames /\ K[<<"down", b>>] = down'[b]
  BY DEF LineNames, AllLines, LinesOf
<1>9. Named(q) /\ \E i \in DOMAIN down'[b] : down'[b][i] = q
  BY DEF Named, Requests, Responses, Items
<1> HIDE DEF L, K, l
<1>10. Absent(K, Head(down[a]).req)
  BY <1>1, <1>3, <1>5, <1>6, <1>7, TakenGone
<1> QED
  BY <1>8, <1>9, <1>10 DEF Absent

-----------------------------------------------------------------------------
(* handle_proxy_handle_request while no request waits in the proxy.        *)

Waits(m) == [b \in Actors |-> m.info[b].is_waiting]

LEMMA WaitsTyped ==
  ASSUME NEW m \in MapsType
  PROVE  /\ Waits(m) \in [Actors -> BOOLEAN]
         /\ \A b \in Actors : Waits(m)[b] = m.info[b].is_waiting
  BY DEF Waits, MapsType, Info

LEMMA UpdateWaits ==
  ASSUME NEW m \in MapsType, NEW a \in Actors, NEW c \in CallIds \cup {NoCall},
         NEW w \in BOOLEAN
  PROVE  Waits(UpdateActorInfo(m, a, c, w)) = [Waits(m) EXCEPT ![a] = w]
<1> DEFINE i == [m.info[a] EXCEPT !.call_id = c, !.is_waiting = w]
           u == UpdateActorInfo(m, a, c, w)
<1>1. u = [m EXCEPT !.info = [m.info EXCEPT ![a] = i]]
  BY DEF UpdateActorInfo, MapsType
<1>2. i.is_waiting = w /\ m.info \in [Actors -> Info]
  BY DEF MapsType, Info
<1> HIDE DEF i, u
<1>3. u.info = [m.info EXCEPT ![a] = i]
  BY <1>1 DEF MapsType
<1>4. \A b \in Actors : u.info[b] = IF b = a THEN i ELSE m.info[b]
  BY <1>2, <1>3
<1>5. \A b \in Actors : u.info[b].is_waiting = IF b = a THEN w ELSE m.info[b].is_waiting
  BY <1>2, <1>4
<1> QED
  BY <1>5 DEF u, Waits

LEMMA QueueWaits ==
  ASSUME NEW m \in MapsType, NEW a \in Actors, NEW q \in Seq(Request)
  PROVE  Waits(WithQueue(m, a, q)) = Waits(m)
<1> DEFINE i == [m.info[a] EXCEPT !.msg_queue = q]
           u == WithQueue(m, a, q)
<1>1. u = [m EXCEPT !.info = [m.info EXCEPT ![a] = i]]
  BY DEF MapsType, WithQueue
<1>2. i.is_waiting = m.info[a].is_waiting /\ m.info \in [Actors -> Info]
  BY DEF MapsType, Info
<1> HIDE DEF i, u
<1>3. u.info = [m.info EXCEPT ![a] = i]
  BY <1>1 DEF MapsType
<1>4. \A b \in Actors : u.info[b] = IF b = a THEN i ELSE m.info[b]
  BY <1>2, <1>3
<1>5. \A b \in Actors : u.info[b].is_waiting = m.info[b].is_waiting
  BY <1>2, <1>4
<1> QED
  BY <1>5 DEF u, Waits

LEMMA ChainWaits ==
  ASSUME NEW m \in MapsType, NEW c, NEW s
  PROVE  Waits(WithChain(m, c, s)) = Waits(m)
<1>1. WithChain(m, c, s).info = m.info
  BY DEF MapsType, WithChain
<1> QED
  BY <1>1 DEF Waits

\* The pack goes to this process at once, and its sender is waiting now.
ForwardedTo(m, pack, r, to) ==
  /\ to # pack.pid /\ ~Waits(m)[to] /\ r.writes /\ r.to = to /\ r.pack = pack
  /\ pack.svc \in DOMAIN ServiceMap /\ to \in Items(Peers(pack.svc))
  /\ r.maps.chain = [m.chain EXCEPT ![pack.call] = Append(@, to)]
  /\ \A b \in Actors : Waits(r.maps)[b] = (b = pack.pid \/ Waits(m)[b])

\* No request has been left in a queue; nobody who may get this one waits.
NoneQueued(m) == \A b \in Actors : Queues(m)[b] = <<>>
FreePeers(m, pack) ==
  \A q \in Items(Peers(pack.svc)) : q # pack.pid /\ ~Waits(m)[q]

LEMMA ForwardWaits ==
  ASSUME actor_info_map \in [Nodes -> Seq(Actors)],
         NEW m \in MapsType, NEW pack \in Request,
         pack.svc \in DOMAIN ServiceMap, Peers(pack.svc) # <<>>,
         NEW r, r = Forward(m, pack), NoneQueued(r.maps) \/ FreePeers(m, pack)
  PROVE  /\ \E to \in Actors : ForwardedTo(m, pack, r, to)
         /\ Queues(r.maps) = Queues(m)
<1> DEFINE to == LeastLoaded(m, Peers(pack.svc))
           caller == UpdateActorInfo(m, pack.pid, pack.call, TRUE)
           joined == [caller EXCEPT !.chain[pack.call] = Append(@, to)]
           queued == [joined EXCEPT !.info[to].msg_queue = Append(@, pack)]
           taken == UpdateActorInfo(joined, to, pack.call, FALSE)
<1>1. /\ pack.pid \in Actors /\ pack.call \in CallIds
      /\ pack.call \in CallIds \cup {NoCall} /\ Peers(pack.svc) \in Seq(Actors)
      /\ TRUE \in BOOLEAN /\ FALSE \in BOOLEAN
  BY RequestFields, PeersFacts
<1>2. to \in Actors /\ to \in Items(Peers(pack.svc))
  <2>1. PICK i \in DOMAIN Peers(pack.svc) : to = Peers(pack.svc)[i]
    BY <1>1, LeastLoadedIn
  <2> QED
    BY <1>1, <2>1 DEF Items
<1>3. /\ caller \in MapsType /\ caller.chain = m.chain /\ Queues(caller) = Queues(m)
      /\ Waits(caller) = [Waits(m) EXCEPT ![pack.pid] = TRUE]
  BY <1>1, UpdateFacts, UpdateWaits
<1>4. r = IF joined.info[to].is_waiting THEN Returned(queued)
          ELSE Writes(taken, to, pack)
  BY DEF Forward, Joins
<1> HIDE DEF to, caller
<1> DEFINE s == Append(caller.chain[pack.call], to)
<1>5. s \in Seq(Actors) /\ joined = WithChain(caller, pack.call, s)
  BY <1>1, <1>2, <1>3, MapsFields DEF WithChain
<1>6. /\ joined \in MapsType /\ Waits(joined) = Waits(caller)
      /\ Queues(joined) = Queues(m)
      /\ joined.chain = [m.chain EXCEPT ![pack.call] = Append(@, to)]
  <2> HIDE DEF s, joined
  <2>1. /\ joined \in MapsType /\ joined.chain = [caller.chain EXCEPT ![pack.call] = s]
        /\ Queues(joined) = Queues(m)
    BY <1>1, <1>3, <1>5, ChainFacts
  <2>2. Waits(joined) = Waits(caller)
    BY <1>3, <1>5, ChainWaits
  <2> QED
    BY <1>1, <1>3, <2>1, <2>2, MapsFields DEF s
<1> HIDE DEF joined
<1>7. ~joined.info[to].is_waiting
  <2> SUFFICES ASSUME joined.info[to].is_waiting PROVE FALSE
    OBVIOUS
  <2> DEFINE q == Append(Queues(joined)[to], pack)
  <2>1. /\ q \in Seq(Request) /\ q # <<>> /\ queued = WithQueue(joined, to, q)
    <3>1. Queues(joined)[to] \in Seq(Request)
      BY <1>2, <1>6, MapsFields
    <3>2. joined.info[to].msg_queue = Queues(joined)[to]
      BY <1>2, <1>6, MapsFields
    <3> QED
      BY <3>1, <3>2, AppendFacts DEF WithQueue
  <2>2. /\ Queues(queued) = [Queues(joined) EXCEPT ![to] = q]
        /\ queued \in MapsType
    <3> HIDE DEF q, queued
    <3> QED
      BY <1>2, <1>6, <2>1, QueueFacts
  <2>3. r = Returned(queued)
    BY <1>4
  <2> HIDE DEF queued, q
  <2>4. r.maps = queued
    BY <2>2, <2>3, ReturnedFacts
  <2>5. Queues(joined) \in [Actors -> Seq(Request)]
    BY <1>6, MapsFields
  <2>6. Queues(queued)[to] = q
    BY <1>2, <2>2, <2>5
  <2>7. ~NoneQueued(r.maps)
    BY <1>2, <2>1, <2>4, <2>6 DEF NoneQueued
  <2>8. to # pack.pid /\ ~Waits(m)[to]
    BY <1>2, <2>7 DEF FreePeers
  <2>9. Waits(m) \in [Actors -> BOOLEAN] /\ Waits(joined)[to]
    BY <1>2, <1>6, WaitsTyped
  <2> QED
    BY <1>1, <1>2, <1>3, <1>6, <2>8, <2>9
<1>8. /\ taken \in MapsType /\ taken.chain = joined.chain /\ Queues(taken) = Queues(m)
      /\ Waits(taken) = [Waits(joined) EXCEPT ![to] = FALSE]
  BY <1>1, <1>2, <1>6, UpdateFacts, UpdateWaits
<1>9. r = Writes(taken, to, pack)
  BY <1>4, <1>7
<1> HIDE DEF taken
<1>10. r.maps = taken /\ r.writes /\ r.to = to /\ r.pack = pack
  BY <1>2, <1>8, <1>9, WritesFacts
<1>11. ~Waits(joined)[to]
  BY <1>2, <1>6, <1>7, WaitsTyped
<1>12. Waits(m) \in [Actors -> BOOLEAN]
  BY WaitsTyped
<1>13. to # pack.pid /\ ~Waits(m)[to]
  BY <1>1, <1>2, <1>3, <1>6, <1>11, <1>12
<1>14. \A b \in Actors : Waits(taken)[b] = (b = pack.pid \/ Waits(m)[b])
  <2> DEFINE w == Waits(m)
             v == Waits(taken)
  <2>1. w \in [Actors -> BOOLEAN] /\ ~w[to] /\ to # pack.pid
    BY <1>12, <1>13
  <2>2. v = [[w EXCEPT ![pack.pid] = TRUE] EXCEPT ![to] = FALSE]
    BY <1>3, <1>6, <1>8
  <2> HIDE DEF w, v
  <2>3. \A b \in Actors : v[b] = (b = pack.pid \/ w[b])
    BY <1>1, <1>2, <2>1, <2>2
  <2> QED
    BY <2>3 DEF w, v
<1>15. r.maps.chain = [m.chain EXCEPT ![pack.call] = Append(@, to)]
  BY <1>6, <1>8, <1>10
<1>16. \A b \in Actors : Waits(r.maps)[b] = (b = pack.pid \/ Waits(m)[b])
  BY <1>10, <1>14
<1>17. ForwardedTo(m, pack, r, to)
  BY <1>2, <1>10, <1>13, <1>15, <1>16 DEF ForwardedTo
<1> QED
  BY <1>2, <1>8, <1>10, <1>17

\* Nor does its sender wait.
FreeToTake(m, a, pack) ==
  ~Waits(m)[a] /\ (pack.svc \in DOMAIN ServiceMap => FreePeers(m, pack))

\* It drops the pack that has just been queued, or forwards it.
LEMMA HandleWaits ==
  ASSUME actor_info_map \in [Nodes -> Seq(Actors)],
         NEW m \in MapsType, NEW a \in Actors, NEW pack \in Request,
         Queues(m)[a] = <<pack>>, NEW r, r = HandleRequest(m, a),
         NoneQueued(r.maps) \/ FreeToTake(m, a, pack)
  PROVE  /\ \/ ~r.writes /\ r.maps.chain = m.chain /\ Waits(r.maps) = Waits(m)
            \/ \E to \in Actors : ForwardedTo(m, pack, r, to)
         /\ Queues(r.maps) = [Queues(m) EXCEPT ![a] = <<>>]
<1> DEFINE queue == m.info[a].msg_queue
           popped == [m EXCEPT !.info[a].msg_queue = Rest(@)]
           q == Tail(queue)
<1>1. queue = <<pack>> /\ queue # <<>> /\ Head(queue) = pack /\ q = <<>>
  <2>1. queue = <<pack>>
    BY MapsFields
  <2>2. <<pack>> # <<>> /\ Head(<<pack>>) = pack /\ Tail(<<pack>>) = <<>>
    OBVIOUS
  <2> QED
    BY <2>1, <2>2
<1>2. ~m.info[a].is_waiting
  <2>1. m.info[a].is_waiting => r = Returned(m)
    BY DEF HandleRequest
  <2>2. Returned(m).maps = m /\ Queues(m)[a] # <<>>
    BY <1>1, ReturnedFacts
  <2>3. Waits(m)[a] <=> m.info[a].is_waiting
    BY WaitsTyped
  <2> QED
    BY <2>1, <2>2, <2>3 DEF NoneQueued, FreeToTake
<1>3. q \in Seq(Request) /\ popped = WithQueue(m, a, q)
  BY <1>1 DEF Rest, WithQueue
<1>4. r = IF Dropped(popped, pack) THEN Returned(popped) ELSE Forward(popped, pack)
  BY <1>1, <1>2 DEF HandleRequest
<1>5. /\ popped \in MapsType /\ popped.chain = m.chain /\ Waits(popped) = Waits(m)
      /\ Queues(popped) = [Queues(m) EXCEPT ![a] = <<>>]
  <2> HIDE DEF q, popped
  <2>1. q = <<>>
    BY <1>1
  <2> QED
    BY <1>3, <2>1, QueueFacts, QueueWaits
<1> HIDE DEF popped, q, queue
<1>6. CASE Dropped(popped, pack)
  <2>1. r = Returned(popped)
    BY <1>4, <1>6
  <2>2. r.maps = popped /\ ~r.writes
    BY <1>5, <2>1, ReturnedFacts
  <2> QED
    BY <1>5, <2>2
<1>7. CASE ~Dropped(popped, pack)
  <2>1. pack.svc \in DOMAIN ServiceMap /\ Peers(pack.svc) # <<>>
    BY <1>7 DEF Dropped
  <2>2. r = Forward(popped, pack)
    BY <1>4, <1>7
  <2>3. NoneQueued(r.maps) \/ FreePeers(popped, pack)
    BY <1>5, <2>1 DEF FreeToTake, FreePeers
  <2>4. /\ \E to \in Actors : ForwardedTo(popped, pack, r, to)
        /\ Queues(r.maps) = Queues(popped)
    BY <1>5, <2>1, <2>2, <2>3, ForwardWaits
  <2>5. PICK to \in Actors : ForwardedTo(popped, pack, r, to)
    BY <2>4
  <2>6. ForwardedTo(m, pack, r, to)
    BY <1>5, <2>5 DEF ForwardedTo
  <2> QED
    BY <1>5, <2>4, <2>6
<1> QED
  BY <1>6, <1>7

LEMMA HandleNone ==
  ASSUME NEW m \in MapsType, NEW a \in Actors, Queues(m)[a] = <<>>,
         NEW r, r = HandleRequest(m, a)
  PROVE  r.maps = m /\ ~r.writes
<1>1. m.info[a].msg_queue = <<>>
  BY MapsFields
<1>2. r = Returned(m)
  BY <1>1 DEF HandleRequest
<1> QED
  BY <1>2, ReturnedFacts

-----------------------------------------------------------------------------
(* The invariant.  It holds as long as no request waits in the proxy.      *)

Waiting(b) == actor_info[b].is_waiting

\* The chain of call c: whether there is one, whether somebody has joined its
\* first process, its last process and the one before, who is right behind
\* whom, and who has another one behind it.
Opened(c)       == call_chain[c] # <<>>
Joined(c)       == Len(call_chain[c]) >= 2
Last(c)         == Back(call_chain[c])
Prev(c)         == Asker(call_chain[c])
Behind(x, y, c) == <<x, y>> \in Pairs(call_chain[c])
Awaits(a, c)    == a \in Inner(call_chain[c])
Straight(c)     == Simple(call_chain[c])

\* The process at the end of the chain has cut its connection, and the proxy
\* has read all that it sent for the call: nobody will pop the chain.
Spent(c) ==
  \E e \in Actors : /\ Last(c) = e /\ link[e] = "cut"
                    /\ \A p \in Asks(e) \cup Answers(e) : p.call # c

\* A process has one request under way, the one it waits for.
OneCall ==
  \A b, d \in Actors : \A p \in Packs(b), q \in Packs(d) :
    p.req[1] = q.req[1] => p.req = q.req

Awaited ==
  \A b \in Actors : \A p \in Packs(b) : \A a \in Actors :
    (p.req[1] = a /\ ctx[a].phase # "dead") => ctx[a].pending = p.req

\* The place in the chain of its call that a pack stands for.
Placed ==
  \A b \in Actors : link[b] = "open" =>
    \A p \in Works(b) : Behind(p.req[1], b, p.call)

Answering ==
  \A b \in Actors : \A p \in Answers(b) :
    Joined(p.call) /\ Last(p.call) = b /\ Prev(p.call) = p.req[1]

Asking ==
  \A b \in Actors : \A p \in Asks(b) :
    /\ p.pid = b /\ p.req[1] = b
    /\ ~Opened(p.call) => p.call[1] = b
    /\ Opened(p.call) => Last(p.call) = b

LastAsk ==
  \A b \in Actors : \A i \in DOMAIN up[b] :
    up[b][i].type = "REQUEST" => i = Len(up[b])

Apart ==
  \A b \in Actors : \A p \in Asks(b), q \in Answers(b) : p.call # q.call

Getting == \A b \in Actors : \A p \in Gets(b) : p.req[1] = b

PlacesRight ==
  Placed /\ Answering /\ Asking /\ LastAsk /\ Apart /\ Getting

\* The chains begin with the process that gave the call its id, and come back
\* to a process that waits in them only when nobody will pop them.
Starts == \A c \in CallIds : Opened(c) => call_chain[c][1] = c[1]

NoLoop ==
  \A c \in CallIds :
    /\ Straight(c)
    /\ \A e \in Actors : (Opened(c) /\ Last(c) = e /\ Awaits(e, c)) => Spent(c)

\* A process that has another behind it in a chain waits, and does nothing
\* else; the proxy knows that it waits, unless nobody will pop the chain.
Silent(a) ==
  /\ up[a] = <<>> /\ Gets(a) = {}
  /\ coro[a].at # "reply"
  /\ link[a] # "none"
  /\ ctx[a].phase \in {"up", "dead"}
  /\ ctx[a].phase = "up" => ctx[a].pending # NoReq

AwaitsRight ==
  \A a \in Actors : \A c \in CallIds : Awaits(a, c) =>
    /\ Silent(a)
    /\ \A d \in CallIds : Awaits(a, d) => c = d
    /\ (~Waiting(a) /\ link[a] # "cut") => Spent(c)

ChainsRight == Starts /\ NoLoop /\ AwaitsRight

\* The coroutine that has written a response, or failed to write a request.
\* Until it goes on, the process at the end of the chain is not behind in it
\* again: the coroutine is before that of the process in the queue.
Earlier(x, y) == Ahead(runq, x, y)

Replying(a) ==
  coro[a].at = "reply" =>
    /\ coro[a].who = a
    /\ \A c \in CallIds : coro[a].call = c =>
         /\ Opened(c)
         /\ \A b \in Actors : Last(c) = b =>
              /\ \A d \in CallIds : ~Awaits(b, d)
              /\ (coro[b].at = "read" /\ up[b] # <<>>) => Earlier(a, b)

Failing(a) ==
  (coro[a].at = "request" /\ ~coro[a].ok) =>
    /\ coro[a].pack.pid = a
    /\ link[coro[a].who] = "cut"
    /\ \A c \in CallIds : Awaits(a, c) => Spent(c)

FramesMatch ==
  \A a \in Actors : Replying(a) /\ Failing(a) /\ coro[a].at # "self"

\* Whoever the proxy takes to be waiting is in a chain, or about to be freed.
Freeing(a) ==
  \E b \in Actors : \E c \in CallIds :
    coro[b].at = "reply" /\ coro[b].call = c /\ Last(c) = a

WaitsRight ==
  \A a \in Actors : Waiting(a) =>
    (\E c \in CallIds : Awaits(a, c)) \/ Freeing(a)

\* A call id is that of the request a process works on, or its own.
CallIdRight(a) ==
  ctx[a].call_id # NoCall =>
    \/ /\ ctx[a].job # NoMsg /\ ctx[a].job.type = "REQUEST"
       /\ ctx[a].job.call = ctx[a].call_id
    \/ ctx[a].call_id[1] = a

CallsInv ==
  /\ OneCall /\ Awaited /\ PlacesRight /\ ChainsRight
  /\ FramesMatch /\ WaitsRight /\ \A a \in Actors : CallIdRight(a)

\* Everybody right behind another in a chain has the request in hand.
Busy ==
  \A c \in CallIds : \A x, y \in Actors : Behind(x, y, c) =>
    \E p \in Works(y) \cup Answers(y) : p.call = c

\* What these operators are after a step.
LEMMA PacksPrimes ==
  \A b \in Actors :
    /\ Asks(b)' = Requests(up'[b]) /\ Answers(b)' = Responses(up'[b])
    /\ Gets(b)' = Responses(down'[b])
    /\ Works(b)' = Requests(down'[b]) \cup Requests(ctx'[b].inbox)
                     \cup Requests(JobLine(ctx'[b].job))
    /\ Packs(b)' = Asks(b)' \cup Answers(b)' \cup Works(b)' \cup Gets(b)'
  BY DEF Asks, Answers, Gets, Works, Packs, Requests, Responses, Items, JobLine

LEMMA ChainPrimes ==
  \A c \in CallIds :
    /\ Last(c)' = Back(call_chain'[c]) /\ Prev(c)' = Asker(call_chain'[c])
    /\ Opened(c)' <=> call_chain'[c] # <<>>
    /\ Joined(c)' <=> Len(call_chain'[c]) >= 2
    /\ Straight(c)' <=> Simple(call_chain'[c])
    /\ \A a \in Actors : Awaits(a, c)' <=> a \in Inner(call_chain'[c])
    /\ \A x, y : Behind(x, y, c)' <=> <<x, y>> \in Pairs(call_chain'[c])
  BY DEF Last, Back, Prev, Asker, Opened, Joined, Straight, Simple, Awaits, Inner,
         Behind, Pairs

\* A chain that a step leaves as it is.
ChainSame(c) ==
  /\ Last(c)' = Last(c) /\ Prev(c)' = Prev(c)
  /\ Opened(c)' <=> Opened(c)
  /\ Joined(c)' <=> Joined(c)
  /\ Straight(c)' <=> Straight(c)
  /\ \A a \in Actors : Awaits(a, c)' <=> Awaits(a, c)
  /\ \A x, y : Behind(x, y, c)' <=> Behind(x, y, c)
  /\ call_chain'[c] = call_chain[c]

LEMMA ChainsSame ==
  \A c \in CallIds : call_chain'[c] = call_chain[c] => ChainSame(c)
<1> SUFFICES ASSUME NEW c \in CallIds, call_chain'[c] = call_chain[c]
             PROVE  ChainSame(c)
  OBVIOUS
<1>1. /\ Last(c)' = Back(call_chain'[c]) /\ Prev(c)' = Asker(call_chain'[c])
      /\ Opened(c)' <=> call_chain'[c] # <<>>
      /\ Joined(c)' <=> Len(call_chain'[c]) >= 2
      /\ Straight(c)' <=> Simple(call_chain'[c])
      /\ \A a \in Actors : Awaits(a, c)' <=> a \in Inner(call_chain'[c])
      /\ \A x, y : Behind(x, y, c)' <=> <<x, y>> \in Pairs(call_chain'[c])
  BY ChainPrimes
<1> QED
  BY <1>1 DEF ChainSame, Last, Prev, Opened, Joined, Straight, Awaits, Behind

LEMMA ChainView ==
  ASSUME Typed, NEW c \in CallIds
  PROVE  /\ Joined(c) => /\ Opened(c) /\ Awaits(Prev(c), c) /\ Prev(c) \in Actors
                         /\ Behind(Prev(c), Last(c), c)
                         /\ Awaits(call_chain[c][1], c)
         /\ Opened(c) => Last(c) \in Actors /\ call_chain[c][1] \in Actors
         /\ (Opened(c) /\ ~Joined(c)) => Last(c) = call_chain[c][1]
         /\ \A x \in Actors : Awaits(x, c) => Joined(c) /\ Opened(c)
         /\ \A x, y : Behind(x, y, c) =>
              /\ Joined(c) /\ Opened(c) /\ Awaits(x, c) /\ x \in Actors /\ y \in Actors
              /\ ~Awaits(y, c) => y = Last(c) /\ x = Prev(c)
<1> DEFINE s == call_chain[c]
<1>1. s \in Seq(Actors)
  BY TypedParts
<1> HIDE DEF s
<1>2. /\ Inner(s) \subseteq Actors
      /\ \A x \in Inner(s) : Len(s) >= 2
      /\ Len(s) >= 2 => /\ s # <<>> /\ Asker(s) \in Inner(s) /\ s[1] \in Inner(s)
                        /\ <<Asker(s), Back(s)>> \in Pairs(s)
      /\ (s # <<>> /\ ~(Len(s) >= 2)) => Back(s) = s[1]
      /\ s # <<>> => Back(s) \in Actors /\ s[1] \in Actors
  <2>1. /\ Inner(s) \subseteq Actors
        /\ Len(s) >= 2 => Asker(s) \in Inner(s) /\ s[1] \in Inner(s)
        /\ Inner(s) # {} => Len(s) >= 2 /\ s # <<>>
        /\ s # <<>> /\ ~(Len(s) >= 2) => Back(s) = s[1]
    BY <1>1, InnerFacts
  <2>2. Len(s) >= 2 => <<Asker(s), Back(s)>> \in Pairs(s) /\ s # <<>>
    <3>1. Len(s) \in Nat /\ (Len(s) >= 2 => s # <<>>)
      BY <1>1
    <3>2. Len(s) >= 2 => Len(s) - 1 \in 1 .. Len(s) - 1 /\ Len(s) - 1 + 1 = Len(s)
      BY <3>1
    <3> QED
      BY <3>1, <3>2 DEF Pairs, Asker, Back
  <2>3. s # <<>> => Back(s) \in Actors /\ s[1] \in Actors
    BY <1>1, TailFacts DEF Back
  <2> QED
    BY <2>1, <2>2, <2>3
<1>3. ASSUME NEW x, NEW y, <<x, y>> \in Pairs(s)
      PROVE  /\ Len(s) >= 2 /\ s # <<>> /\ x \in Inner(s) /\ x \in Actors /\ y \in Actors
             /\ y \notin Inner(s) => y = Back(s) /\ x = Asker(s)
  BY <1>1, <1>3, PairsFacts
<1> QED
  BY <1>2, <1>3 DEF s, Joined, Opened, Awaits, Prev, Last, Behind

-----------------------------------------------------------------------------
(* Steps of the proxy that move no pack of a request and change no chain.  *)

\* The step frees no process that waits in a chain somebody will pop, the
\* coroutine a does not write a request or a response, and if it has written
\* a response then it frees the process at the end of the chain.
Still(a) ==
  /\ UNCHANGED <<ctx, link, call_chain>>
  /\ \A b \in Actors : /\ Asks(b)' = Asks(b) /\ Answers(b)' = Answers(b)
                       /\ Works(b)' = Works(b) /\ Gets(b)' = Gets(b)
                       /\ up[b] = <<>> => up'[b] = <<>>
  /\ LastAsk'
  /\ \A b \in Actors \ {a} : coro'[b] = coro[b]
  /\ coro'[a] = coro[a] \/ coro'[a].at \in {"read", "closed", "connack"}
  /\ \A b \in Actors : Waiting(b)' => Waiting(b)
  /\ \A b \in Actors : (Waiting(b) /\ ~Waiting(b)') =>
       link[b] = "cut" \/ \A c \in CallIds : Awaits(b, c) => Spent(c)
  /\ (coro'[a] # coro[a] /\ coro[a].at = "reply") =>
       \A c \in CallIds : coro[a].call = c =>
         \A b \in Actors : Last(c) = b => ~Waiting(b)'
  /\ \A x, y \in Actors :
       (/\ coro'[x].at = "reply" /\ coro[x] = coro'[x]
        /\ coro'[y].at = "read" /\ up'[y] # <<>>
        /\ (coro[y].at = "read" /\ up[y] # <<>>) => Earlier(x, y))
       => Earlier(x, y)'

\* A step that changes no chain and lets no pack of a call come to the end of
\* its chain leaves it spent.
LEMMA SpentStays ==
  ASSUME NEW c \in CallIds, Spent(c), Last(c)' = Last(c),
         \A b \in Actors : /\ link[b] = "cut" => link'[b] = "cut"
                           /\ link[b] = "cut" => /\ Asks(b)' \subseteq Asks(b)
                                                 /\ Answers(b)' \subseteq Answers(b)
  PROVE  Spent(c)'
  BY DEF Spent

LEMMA StillCalls ==
  ASSUME Typed, CallsInv, NEW a \in Actors, Still(a)
  PROVE  CallsInv'
<1>1. /\ OneCall /\ Awaited /\ PlacesRight /\ ChainsRight
      /\ FramesMatch /\ WaitsRight /\ \A b \in Actors : CallIdRight(b)
  BY DEF CallsInv
<1>2. \A c \in CallIds : ChainSame(c)
  <2>1. \A c \in CallIds : call_chain'[c] = call_chain[c]
    BY DEF Still
  <2> QED
    BY <2>1, ChainsSame
<1>3. \A b \in Actors : /\ Asks(b)' = Asks(b) /\ Answers(b)' = Answers(b)
                        /\ Works(b)' = Works(b) /\ Gets(b)' = Gets(b)
                        /\ Packs(b)' = Packs(b)
                        /\ ctx'[b] = ctx[b] /\ link'[b] = link[b]
  <2>1. \A b \in Actors : Packs(b)' = Packs(b)
    BY PacksPrimes DEF Still, Packs
  <2> QED
    BY <2>1 DEF Still
<1>4. \A b \in Actors : \A p \in Packs(b) : p.call \in CallIds
  BY PacksTyped
<1>5. \A c \in CallIds : Spent(c) => Spent(c)'
  BY <1>2, <1>3, SpentStays DEF ChainSame
<1>6. OneCall' /\ Awaited'
  <2>1. OneCall'
    BY <1>1, <1>3 DEF OneCall
  <2>2. Awaited'
    BY <1>1, <1>3 DEF Awaited
  <2> QED
    BY <2>1, <2>2
<1>7. PlacesRight'
  <2>1. \A b \in Actors : \A p \in Asks(b) \cup Answers(b) \cup Works(b) :
          p.call \in CallIds /\ ChainSame(p.call)
    BY <1>2, <1>4 DEF Packs
  <2>2. Placed'
    BY <1>1, <1>3, <2>1 DEF PlacesRight, Placed, ChainSame
  <2>3. Answering'
    BY <1>1, <1>3, <2>1 DEF PlacesRight, Answering, ChainSame
  <2>4. Asking'
    BY <1>1, <1>3, <2>1 DEF PlacesRight, Asking, ChainSame
  <2>5. Apart' /\ Getting'
    BY <1>1, <1>3 DEF PlacesRight, Apart, Getting
  <2>6. LastAsk'
    BY DEF Still
  <2> QED
    BY <2>2, <2>3, <2>4, <2>5, <2>6 DEF PlacesRight
<1>8. ChainsRight'
  <2>1. Starts'
    BY <1>1, <1>2 DEF ChainsRight, Starts, ChainSame
  <2>2. NoLoop'
    BY <1>1, <1>2, <1>5 DEF ChainsRight, NoLoop, ChainSame
  <2>3. \A b \in Actors : Silent(b) => Silent(b)'
    BY <1>3 DEF Still, Silent
  <2>4. ASSUME NEW b \in Actors, NEW c \in CallIds, Awaits(b, c)
        PROVE  /\ Silent(b)'
               /\ \A d \in CallIds : Awaits(b, d)' => c = d
               /\ (~Waiting(b)' /\ link'[b] # "cut") => Spent(c)'
    <3>1. /\ Silent(b) /\ \A d \in CallIds : Awaits(b, d) => c = d
          /\ (~Waiting(b) /\ link[b] # "cut") => Spent(c)
      BY <1>1, <2>4 DEF ChainsRight, AwaitsRight
    <3>2. (Waiting(b) /\ ~Waiting(b)') =>
            link[b] = "cut" \/ \A d \in CallIds : Awaits(b, d) => Spent(d)
      BY DEF Still
    <3> QED
      BY <1>2, <1>3, <1>5, <2>3, <2>4, <3>1, <3>2 DEF ChainSame
  <2>5. AwaitsRight'
    BY <1>2, <2>4 DEF AwaitsRight, ChainSame
  <2> QED
    BY <2>1, <2>2, <2>5 DEF ChainsRight
<1>9. ASSUME NEW b \in Actors
      PROVE  Replying(b)' /\ Failing(b)' /\ coro'[b].at # "self"
  <2>1. Replying(b) /\ Failing(b) /\ coro[b].at # "self"
    BY <1>1 DEF FramesMatch
  <2>2. CASE coro'[b] = coro[b]
    <3>1. Replying(b)'
      <4>1. SUFFICES ASSUME coro'[b].at = "reply", NEW c \in CallIds, coro'[b].call = c
                     PROVE  /\ coro'[b].who = b /\ Opened(c)'
                            /\ \A e \in Actors : Last(c)' = e =>
                                 /\ \A d \in CallIds : ~Awaits(e, d)'
                                 /\ (coro'[e].at = "read" /\ up'[e] # <<>>)
                                      => Earlier(b, e)'
        BY <2>1, <2>2 DEF Replying
      <4>2. /\ coro[b].who = b /\ Opened(c)
            /\ \A e \in Actors : Last(c) = e =>
                 /\ \A d \in CallIds : ~Awaits(e, d)
                 /\ (coro[e].at = "read" /\ up[e] # <<>>) => Earlier(b, e)
        BY <2>1, <2>2, <4>1 DEF Replying
      <4>3. ASSUME NEW e \in Actors, coro'[e].at = "read", up'[e] # <<>>,
                   (coro[e].at = "read" /\ up[e] # <<>>) => Earlier(b, e)
            PROVE  Earlier(b, e)'
        BY <2>2, <4>1, <4>3 DEF Still
      <4> QED
        BY <1>2, <2>2, <4>2, <4>3 DEF ChainSame
    <3>2. Failing(b)'
      <4>1. link' = link
        BY DEF Still
      <4> QED
        BY <1>2, <1>5, <2>1, <2>2, <4>1 DEF Failing, ChainSame
    <3> QED
      BY <2>1, <2>2, <3>1, <3>2
  <2>3. CASE coro'[b] # coro[b]
    <3>1. coro'[b].at \in {"read", "closed", "connack"}
      BY <2>3 DEF Still
    <3> QED
      BY <3>1 DEF Replying, Failing
  <2> QED
    BY <2>2, <2>3
<1>10. WaitsRight'
  <2>1. SUFFICES ASSUME NEW b \in Actors, Waiting(b)'
                 PROVE  (\E c \in CallIds : Awaits(b, c)') \/ Freeing(b)'
    BY DEF WaitsRight
  <2>2. Waiting(b)
    BY <1>3, <2>1 DEF Still
  <2>3. CASE \E c \in CallIds : Awaits(b, c)
    BY <1>2, <2>3 DEF ChainSame
  <2>4. CASE Freeing(b)
    <3>1. PICK x \in Actors : \E c \in CallIds :
            coro[x].at = "reply" /\ coro[x].call = c /\ Last(c) = b
      BY <2>4 DEF Freeing
    <3>2. PICK c \in CallIds :
            coro[x].at = "reply" /\ coro[x].call = c /\ Last(c) = b
      BY <3>1
    <3>3. coro'[x] = coro[x]
      BY <2>1, <3>2 DEF Still
    <3> QED
      BY <1>2, <3>2, <3>3 DEF Freeing, ChainSame
  <2> QED
    BY <1>1, <2>2, <2>3, <2>4 DEF WaitsRight
<1>11. \A b \in Actors : CallIdRight(b)'
  BY <1>1, <1>3 DEF CallIdRight
<1> QED
  BY <1>6, <1>7, <1>8, <1>9, <1>10, <1>11 DEF CallsInv, FramesMatch

-----------------------------------------------------------------------------
(* Steps of a process that send nothing: packs may only be lost.           *)

Quiet ==
  /\ UNCHANGED <<actor_info, call_chain, coro, runq>>
  /\ \A b \in Actors :
       /\ Asks(b)' = Asks(b) /\ Answers(b)' = Answers(b)
       /\ Works(b)' \subseteq Works(b) /\ Gets(b)' \subseteq Gets(b)
       /\ up'[b] = up[b] \/ link[b] = "none"
       /\ link'[b] = link[b] \/ link'[b] = "cut" \/ link[b] = "none"
       /\ link[b] = "cut" => link'[b] = "cut"
       /\ link[b] = "none" => Works(b) = {}
       /\ link'[b] # "cut" => Works(b)' = Works(b)
       /\ \/ ctx'[b].phase = "dead"
          \/ ctx[b].phase # "dead" /\ ctx'[b].pending = ctx[b].pending
       /\ ctx[b].phase \in {"up", "dead"} => ctx'[b].phase \in {ctx[b].phase, "dead"}
       /\ CallIdRight(b)'

\* Who awaits an answer in a chain, or is the last of one, has connected.
LEMMA LastLinked ==
  ASSUME Typed, AckInv, LineInv, NEW c \in CallIds, NEW b \in Actors, Opened(c),
         Last(c) = b
  PROVE  link[b] # "none"
<1>1. Acked(b)
  <2> DEFINE s == call_chain[c]
  <2>1. s \in Seq(Actors) /\ s # <<>> /\ b = s[Len(s)]
    BY TypedParts DEF Opened, Last, Back
  <2>2. \A i \in DOMAIN s : Acked(s[i])
    BY DEF AckInv, AckedChains
  <2> HIDE DEF s
  <2>3. Len(s) \in DOMAIN s
    BY <2>1, TailFacts
  <2> QED
    BY <2>1, <2>2, <2>3
<1>2. ctx[b].phase # "start"
  BY <1>1 DEF Acked
<1> QED
  BY <1>2 DEF LineInv, LinkRight

LEMMA QuietCalls ==
  ASSUME Typed, AckInv, LineInv, CallsInv, Quiet, LastAsk'
  PROVE  CallsInv'
<1>1. /\ OneCall /\ Awaited /\ PlacesRight /\ ChainsRight
      /\ FramesMatch /\ WaitsRight /\ \A b \in Actors : CallIdRight(b)
  BY DEF CallsInv
<1>2. \A c \in CallIds : ChainSame(c)
  <2>1. \A c \in CallIds : call_chain'[c] = call_chain[c]
    BY DEF Quiet
  <2> QED
    BY <2>1, ChainsSame
<1>3. \A b \in Actors :
        /\ Asks(b)' = Asks(b) /\ Answers(b)' = Answers(b)
        /\ Works(b)' \subseteq Works(b) /\ Gets(b)' \subseteq Gets(b)
        /\ Packs(b)' \subseteq Packs(b)
        /\ coro'[b] = coro[b] /\ (Waiting(b)' <=> Waiting(b))
  <2>1. \A b \in Actors : Packs(b)' \subseteq Packs(b)
    BY PacksPrimes DEF Quiet, Packs
  <2>2. \A b \in Actors : Waiting(b)' <=> Waiting(b)
    BY DEF Quiet, Waiting
  <2> QED
    BY <2>1, <2>2 DEF Quiet
<1>4. \A b \in Actors : \A p \in Packs(b) : p.call \in CallIds /\ p.req \in Reqs
  BY PacksTyped
<1>5. \A c \in CallIds : Spent(c) => Spent(c)'
  <2>1. \A b \in Actors : link[b] = "cut" => link'[b] = "cut"
    BY DEF Quiet
  <2> QED
    BY <1>2, <1>3, <2>1, SpentStays DEF ChainSame
<1>6. OneCall' /\ Awaited'
  <2>1. OneCall'
    BY <1>1, <1>3 DEF OneCall
  <2>2. Awaited'
    <3>1. \A b \in Actors : ctx'[b].phase # "dead" =>
            ctx[b].phase # "dead" /\ ctx'[b].pending = ctx[b].pending
      BY DEF Quiet
    <3> QED
      BY <1>1, <1>3, <3>1 DEF Awaited
  <2> QED
    BY <2>1, <2>2
<1>7. PlacesRight'
  <2>1. \A b \in Actors : \A p \in Asks(b) \cup Answers(b) \cup Works(b) :
          p.call \in CallIds /\ ChainSame(p.call)
    BY <1>2, <1>4 DEF Packs
  <2>2. Placed'
    <3>1. \A b \in Actors : link'[b] = "open" => link[b] = "open" \/ Works(b)' = {}
      BY <1>3 DEF Quiet
    <3> QED
      BY <1>1, <1>3, <2>1, <3>1 DEF PlacesRight, Placed, ChainSame
  <2>3. Answering'
    BY <1>1, <1>3, <2>1 DEF PlacesRight, Answering, ChainSame
  <2>4. Asking'
    BY <1>1, <1>3, <2>1 DEF PlacesRight, Asking, ChainSame
  <2>5. Apart' /\ Getting'
    BY <1>1, <1>3 DEF PlacesRight, Apart, Getting
  <2> QED
    BY <2>2, <2>3, <2>4, <2>5 DEF PlacesRight
<1>8. ChainsRight'
  <2>1. Starts'
    BY <1>1, <1>2 DEF ChainsRight, Starts, ChainSame
  <2>2. NoLoop'
    BY <1>1, <1>2, <1>5 DEF ChainsRight, NoLoop, ChainSame
  <2>3. \A b \in Actors : Silent(b) => Silent(b)'
    <3>1. SUFFICES ASSUME NEW b \in Actors, Silent(b) PROVE Silent(b)'
      OBVIOUS
    <3>2. /\ up'[b] = <<>> /\ Gets(b)' = {} /\ coro'[b].at # "reply"
          /\ link'[b] # "none"
      BY <1>3, <3>1 DEF Quiet, Silent
    <3>3. ctx'[b].phase \in {"up", "dead"} /\ (ctx'[b].phase = "up" => ctx[b].phase = "up")
      BY <3>1 DEF Quiet, Silent
    <3>4. ctx'[b].phase = "up" => ctx'[b].pending = ctx[b].pending
      BY DEF Quiet
    <3> QED
      BY <3>1, <3>2, <3>3, <3>4 DEF Silent
  <2>4. ASSUME NEW b \in Actors, NEW c \in CallIds, Awaits(b, c)
        PROVE  /\ Silent(b)'
               /\ \A d \in CallIds : Awaits(b, d)' => c = d
               /\ (~Waiting(b)' /\ link'[b] # "cut") => Spent(c)'
    <3>1. /\ Silent(b) /\ \A d \in CallIds : Awaits(b, d) => c = d
          /\ (~Waiting(b) /\ link[b] # "cut") => Spent(c)
      BY <1>1, <2>4 DEF ChainsRight, AwaitsRight
    <3>2. link[b] = "cut" => link'[b] = "cut"
      BY DEF Quiet
    <3> QED
      BY <1>2, <1>3, <1>5, <2>3, <2>4, <3>1, <3>2 DEF ChainSame
  <2>5. AwaitsRight'
    BY <1>2, <2>4 DEF AwaitsRight, ChainSame
  <2> QED
    BY <2>1, <2>2, <2>5 DEF ChainsRight
<1>9. ASSUME NEW b \in Actors
      PROVE  Replying(b)' /\ Failing(b)' /\ coro'[b].at # "self"
  <2>1. Replying(b) /\ Failing(b) /\ coro[b].at # "self" /\ coro'[b] = coro[b]
    BY <1>1, <1>3 DEF FramesMatch
  <2>2. Replying(b)'
    <3>1. SUFFICES ASSUME coro[b].at = "reply", NEW c \in CallIds, coro[b].call = c
                   PROVE  /\ coro[b].who = b /\ Opened(c)'
                          /\ \A e \in Actors : Last(c)' = e =>
                               /\ \A d \in CallIds : ~Awaits(e, d)'
                               /\ (coro'[e].at = "read" /\ up'[e] # <<>>)
                                    => Earlier(b, e)'
      BY <2>1 DEF Replying
    <3>2. /\ coro[b].who = b /\ Opened(c)
          /\ \A e \in Actors : Last(c) = e =>
               /\ \A d \in CallIds : ~Awaits(e, d)
               /\ (coro[e].at = "read" /\ up[e] # <<>>) => Earlier(b, e)
      BY <2>1, <3>1 DEF Replying
    <3>3. \A e \in Actors : Last(c) = e => up'[e] = up[e]
      BY <3>2, LastLinked DEF Quiet
    <3>4. \A e \in Actors : Earlier(b, e) => Earlier(b, e)'
      BY DEF Quiet, Earlier, Ahead
    <3> QED
      BY <1>2, <1>3, <3>2, <3>3, <3>4 DEF ChainSame
  <2>3. Failing(b)'
    <3>1. SUFFICES ASSUME coro[b].at = "request", ~coro[b].ok PROVE Failing(b)'
      BY <2>1 DEF Failing
    <3>2. coro[b].who \in Actors
      BY <3>1, TypedParts DEF FrameSet
    <3>3. link[coro[b].who] = "cut" => link'[coro[b].who] = "cut"
      BY <3>2 DEF Quiet
    <3> QED
      BY <1>2, <1>5, <2>1, <3>1, <3>3 DEF Failing, ChainSame
  <2> QED
    BY <2>1, <2>2, <2>3
<1>10. WaitsRight'
  <2>1. \A b \in Actors : Freeing(b) => Freeing(b)'
    BY <1>2, <1>3 DEF Freeing, ChainSame
  <2> QED
    BY <1>1, <1>2, <1>3, <2>1 DEF WaitsRight, ChainSame
<1>11. \A b \in Actors : CallIdRight(b)'
  BY DEF Quiet
<1> QED
  BY <1>6, <1>7, <1>8, <1>9, <1>10, <1>11 DEF CallsInv, FramesMatch

\* The steps of a process that send nothing are such steps.
QuietStep(a) ==
  \/ ActorConnect(a) \/ ReceiveConnack(a) \/ ReceiveRequest(a)
  \/ SkipStale(a) \/ StartJob(a) \/ Crash(a)
  \/ \E s \in Services : SendRefused(a, s) \/ ClientRequest(a, s)
  \/ link[a] # "open" /\ \E s \in Services : Send(a, s)
  \/ Finish(a) /\ (ctx[a].job.type = "CLIENT" \/ ctx[a].error)

\* What is quiet about such a step of process a.
QuietAt(a) ==
  /\ Asks(a)' = Asks(a) /\ Answers(a)' = Answers(a)
  /\ Works(a)' \subseteq Works(a) /\ Gets(a)' \subseteq Gets(a)
  /\ up'[a] = up[a] \/ (link[a] = "none" /\ up'[a] = <<Connect>>)
  /\ link'[a] = link[a] \/ link'[a] = "cut" \/ link[a] = "none"
  /\ link[a] = "cut" => link'[a] = "cut"
  /\ link'[a] # "cut" => Works(a)' = Works(a)
  /\ \/ ctx'[a].phase = "dead"
     \/ ctx[a].phase # "dead" /\ ctx'[a].pending = ctx[a].pending
  /\ ctx[a].phase \in {"up", "dead"} => ctx'[a].phase \in {ctx[a].phase, "dead"}
  /\ CallIdRight(a)'

LEMMA NoneLinked ==
  ASSUME Typed, LineInv, NEW b \in Actors, link[b] = "none"
  PROVE  Works(b) = {} /\ Gets(b) = {}
<1>1. /\ down[b] = <<>> /\ ctx[b].inbox = <<>> /\ ctx[b].job = NoMsg
  BY DEF LineInv, LinkRight
<1> QED
  BY <1>1, KindsNone DEF Works, Gets, JobLine

\* The packs of the other processes.
LEMMA OthersSame ==
  ASSUME Typed, NEW a \in Actors, OwnStep(a), NEW b \in Actors \ {a}
  PROVE  /\ Asks(b)' = Asks(b) /\ Answers(b)' = Answers(b)
         /\ Works(b)' = Works(b) /\ Gets(b)' = Gets(b)
         /\ ctx'[b] = ctx[b] /\ up'[b] = up[b] /\ down'[b] = down[b]
         /\ link'[b] = link[b]
<1>1. ctx'[b] = ctx[b] /\ up'[b] = up[b] /\ down'[b] = down[b] /\ link'[b] = link[b]
  BY OwnFacts
<1>2. /\ Asks(b)' = Requests(up'[b]) /\ Answers(b)' = Responses(up'[b])
      /\ Gets(b)' = Responses(down'[b])
      /\ Works(b)' = Requests(down'[b]) \cup Requests(ctx'[b].inbox)
                       \cup Requests(JobLine(ctx'[b].job))
  BY PacksPrimes
<1> QED
  BY <1>1, <1>2 DEF Asks, Answers, Gets, Works

LEMMA AtQuiet ==
  ASSUME Typed, LineInv, CallsInv, NEW a \in Actors, OwnStep(a), QuietAt(a)
  PROVE  Quiet /\ LastAsk'
<1>1. /\ UNCHANGED <<actor_info, actor_info_map, call_chain, coro, runq>>
  BY OwnFacts
<1>2. \A b \in Actors \ {a} : CallIdRight(b)'
  BY OthersSame DEF CallsInv, CallIdRight
<1>3. \A b \in Actors : link[b] = "none" => Works(b) = {}
  BY NoneLinked
<1>4. \A b \in Actors : ctx[b].phase = "dead" \/ ctx[b].phase # "dead"
  OBVIOUS
<1>5. Quiet
  BY <1>1, <1>2, <1>3, <1>4, OthersSame DEF Quiet, QuietAt
<1>6. ASSUME NEW b \in Actors, NEW i \in DOMAIN up'[b], up'[b][i].type = "REQUEST"
      PROVE  i = Len(up'[b])
  <2>1. CASE up'[b] = up[b]
    BY <1>6, <2>1 DEF CallsInv, PlacesRight, LastAsk
  <2>2. CASE up'[b] = <<Connect>>
    BY <1>6, <2>2
  <2> QED
    BY <2>1, <2>2, OthersSame DEF QuietAt
<1>7. LastAsk'
  BY <1>6 DEF LastAsk
<1> QED
  BY <1>5, <1>7

LEMMA QuietSteps ==
  ASSUME Typed, AckInv, LineInv, CallsInv, NEW a \in Actors, QuietStep(a)
  PROVE  QuietAt(a)
<1>1. /\ ctx \in [Actors -> Ctx] /\ ctx[a] \in Ctx /\ LinkRight(a) /\ CallIdRight(a)
      /\ up[a] \in Seq(UpPack) /\ down[a] \in Seq(DownPack)
      /\ ctx[a].inbox \in Seq(Msg) /\ ctx[a].job \in Msg \cup {NoMsg}
      /\ link \in [Actors -> {"none", "open", "cut"}]
      /\ up \in [Actors -> Seq(UpPack)] /\ down \in [Actors -> Seq(DownPack)]
  BY TypedParts, CtxFields DEF LineInv, CallsInv
<1>2. /\ Asks(a)' = Requests(up'[a]) /\ Answers(a)' = Responses(up'[a])
      /\ Gets(a)' = Responses(down'[a])
      /\ Works(a)' = Requests(down'[a]) \cup Requests(ctx'[a].inbox)
                       \cup Requests(JobLine(ctx'[a].job))
  BY PacksPrimes
<1>3. /\ Asks(a) = Requests(up[a]) /\ Answers(a) = Responses(up[a])
      /\ Gets(a) = Responses(down[a])
      /\ Works(a) = Requests(down[a]) \cup Requests(ctx[a].inbox)
                      \cup Requests(JobLine(ctx[a].job))
  BY DEF Asks, Answers, Gets, Works
<1>4. Requests(<<>>) = {} /\ Responses(<<>>) = {} /\ JobLine(NoMsg) = <<>>
  BY KindsNone DEF JobLine
<1>5. \A x \in Msg : Requests(JobLine(x)) = IF x.type = "REQUEST" THEN {x} ELSE {}
  BY ItemsOf, NoMsgAssumption DEF JobLine, Requests
<1>6. /\ ctx[a].inbox # <<>> =>
           /\ Head(ctx[a].inbox) \in Msg
           /\ Requests(ctx[a].inbox) = Requests(Tail(ctx[a].inbox)) \cup
                (IF Head(ctx[a].inbox).type = "REQUEST" THEN {Head(ctx[a].inbox)} ELSE {})
      /\ down[a] # <<>> =>
           /\ Head(down[a]) \in DownPack
           /\ Requests(down[a]) = Requests(Tail(down[a])) \cup
                (IF Head(down[a]).type = "REQUEST" THEN {Head(down[a])} ELSE {})
           /\ Responses(down[a]) = Responses(Tail(down[a])) \cup
                (IF Head(down[a]).type = "RESPONSE" THEN {Head(down[a])} ELSE {})
  BY <1>1, KindsTail, TailFacts
<1>7. CASE ActorConnect(a)
  <2>1. /\ ctx[a].phase = "start" /\ link' = [link EXCEPT ![a] = "open"]
        /\ ctx' = [ctx EXCEPT ![a].phase = "connecting"] /\ down' = down
        /\ up' = [up EXCEPT ![a] = <<Connect>>]
    BY <1>7 DEF ActorConnect
  <2>2. /\ ctx'[a].phase = "connecting" /\ ctx'[a].pending = ctx[a].pending
        /\ ctx'[a].inbox = ctx[a].inbox /\ ctx'[a].job = ctx[a].job
        /\ ctx'[a].call_id = ctx[a].call_id
        /\ link'[a] = "open" /\ up'[a] = <<Connect>>
    BY <1>1, <2>1 DEF Ctx
  <2>3. Requests(<<Connect>>) = {} /\ Responses(<<Connect>>) = {}
    BY ItemsOf DEF Requests, Responses, Connect
  <2>4. up[a] = <<>> /\ link[a] = "none"
    BY <1>1, <2>1 DEF AckInv, LinkRight
  <2> QED
    <3>1. Asks(a)' = Asks(a) /\ Answers(a)' = Answers(a)
      BY <1>2, <1>3, <1>4, <2>2, <2>3, <2>4
    <3>2. Works(a)' = Works(a) /\ Gets(a)' = Gets(a)
      BY <1>2, <1>3, <2>1, <2>2
    <3>3. CallIdRight(a)'
      BY <1>1, <2>2 DEF CallIdRight
    <3> QED
      BY <2>1, <2>2, <2>4, <3>1, <3>2, <3>3 DEF QuietAt
<1>8. CASE ReceiveConnack(a)
  <2>1. /\ ctx[a].phase = "connecting" /\ down[a] # <<>> /\ link' = link /\ up' = up
        /\ ctx' = [ctx EXCEPT ![a].phase = "up"] /\ down' = [down EXCEPT ![a] = Tail(@)]
    BY <1>8 DEF ReceiveConnack
  <2>2. /\ ctx'[a].phase = "up" /\ ctx'[a].pending = ctx[a].pending
        /\ ctx'[a].inbox = ctx[a].inbox /\ ctx'[a].job = ctx[a].job
        /\ ctx'[a].call_id = ctx[a].call_id /\ down'[a] = Tail(down[a])
    BY <1>1, <2>1 DEF Ctx
  <2>3. Head(down[a]).type = "CONNACK"
    BY <2>1 DEF AckInv, Acked, Connack
  <2>4. link[a] = "open"
    BY <1>1, <2>1 DEF LinkRight
  <2> QED
    BY <1>1, <1>2, <1>3, <1>6, <2>1, <2>2, <2>3, <2>4 DEF QuietAt, CallIdRight
<1>9. CASE ReceiveRequest(a)
  <2> DEFINE p == Head(down[a])
  <2>1. /\ ctx[a].phase = "up" /\ down[a] # <<>> /\ link' = link /\ up' = up
        /\ p.type = "REQUEST" /\ down' = [down EXCEPT ![a] = Tail(@)]
        /\ ctx' = [ctx EXCEPT ![a].call_id = NoCall, ![a].inbox = Append(@, p)]
    BY <1>9 DEF ReceiveRequest, Receives, IsNext
  <2>2. /\ ctx'[a].phase = "up" /\ ctx'[a].pending = ctx[a].pending
        /\ ctx'[a].inbox = Append(ctx[a].inbox, p) /\ ctx'[a].job = ctx[a].job
        /\ ctx'[a].call_id = NoCall /\ down'[a] = Tail(down[a])
    BY <1>1, <2>1 DEF Ctx
  <2>3. p \in Msg
    BY <1>6, <2>1, PackKinds DEF Msg
  <2> HIDE DEF p
  <2>4. Requests(Append(ctx[a].inbox, p)) = Requests(ctx[a].inbox) \cup {p}
    BY <1>1, <2>1, <2>3, KindsAppend
  <2>5. Requests(down[a]) = Requests(Tail(down[a])) \cup {p}
        /\ Responses(down[a]) = Responses(Tail(down[a]))
    BY <1>6, <2>1 DEF p
  <2> QED
    BY <1>1, <1>2, <1>3, <2>1, <2>2, <2>4, <2>5 DEF QuietAt, CallIdRight
<1>10. CASE SkipStale(a)
  <2>1. /\ ctx[a].phase = "up" /\ link[a] = "cut" /\ link' = link /\ up' = up
        /\ down' = down /\ ctx[a].inbox # <<>>
        /\ ctx' = [ctx EXCEPT ![a].inbox = Tail(@)]
    BY <1>10 DEF SkipStale, TakesMsg, Stale, proxyVars
  <2>2. /\ ctx'[a].phase = "up" /\ ctx'[a].pending = ctx[a].pending
        /\ ctx'[a].inbox = Tail(ctx[a].inbox) /\ ctx'[a].job = ctx[a].job
        /\ ctx'[a].call_id = ctx[a].call_id
    BY <1>1, <2>1 DEF Ctx
  <2> QED
    BY <1>1, <1>2, <1>3, <1>6, <2>1, <2>2 DEF QuietAt, CallIdRight
<1>11. CASE StartJob(a)
  <2> DEFINE p == Head(ctx[a].inbox)
  <2>1. /\ ctx[a].phase = "up" /\ link' = link /\ up' = up
        /\ down' = down /\ ctx[a].inbox # <<>> /\ ctx[a].job = NoMsg
        /\ ctx' = [ctx EXCEPT ![a].inbox = Tail(@), ![a].job = p, ![a].call_id = p.call]
    BY <1>11 DEF StartJob, TakesMsg, proxyVars
  <2>2. /\ ctx'[a].phase = "up" /\ ctx'[a].pending = ctx[a].pending
        /\ ctx'[a].inbox = Tail(ctx[a].inbox) /\ ctx'[a].job = p
        /\ ctx'[a].call_id = p.call
    BY <1>1, <2>1 DEF Ctx
  <2>3. p \in Msg /\ p # NoMsg
    BY <1>6, <2>1, NoMsgAssumption
  <2>4. p.type # "REQUEST" => p.call = NoCall
    BY <2>3 DEF Msg, Request, ClientMsg
  <2>5. Requests(ctx[a].inbox) = Requests(Tail(ctx[a].inbox)) \cup Requests(JobLine(p))
    BY <1>5, <1>6, <2>1, <2>3
  <2> HIDE DEF p
  <2>6. Works(a)' = Works(a)
    BY <1>2, <1>3, <1>4, <2>1, <2>2, <2>5
  <2> QED
    BY <1>1, <1>2, <1>3, <2>1, <2>2, <2>3, <2>4, <2>6 DEF QuietAt, CallIdRight
<1>12. CASE Crash(a)
  <2>1. /\ ctx'[a].phase = "dead" /\ ctx'[a].job = NoMsg /\ ctx'[a].inbox = <<>>
        /\ ctx'[a].call_id = NoCall
        /\ link'[a] = "cut" /\ down'[a] = <<>> /\ up' = up
    BY <1>1, <1>12 DEF Crash, Ctx
  <2> QED
    BY <1>2, <1>3, <1>4, <2>1 DEF QuietAt, CallIdRight
<1>13. ASSUME NEW s \in Services, SendRefused(a, s) PROVE QuietAt(a)
  <2>1. /\ ctx[a].phase = "up" /\ link' = link /\ up' = up /\ down' = down
        /\ ctx' = [ctx EXCEPT ![a].error = TRUE]
    BY <1>13 DEF SendRefused, Serving, proxyVars
  <2>2. /\ ctx'[a].phase = "up" /\ ctx'[a].pending = ctx[a].pending
        /\ ctx'[a].inbox = ctx[a].inbox /\ ctx'[a].job = ctx[a].job
        /\ ctx'[a].call_id = ctx[a].call_id
    BY <1>1, <2>1 DEF Ctx
  <2> QED
    BY <1>1, <1>2, <1>3, <2>1, <2>2 DEF QuietAt, CallIdRight
<1>14. ASSUME NEW s \in Services, ClientRequest(a, s) PROVE QuietAt(a)
  <2> DEFINE p == [type |-> "CLIENT", call |-> NoCall, svc |-> s]
  <2>1. /\ ctx[a].phase = "up" /\ link' = link /\ up' = up /\ down' = down
        /\ ctx' = [ctx EXCEPT ![a].inbox = Append(@, p)]
    BY <1>14 DEF ClientRequest, proxyVars
  <2>2. p \in Msg /\ p.type # "REQUEST"
    BY DEF Msg, ClientMsg
  <2> HIDE DEF p
  <2>3. /\ ctx'[a].phase = "up" /\ ctx'[a].pending = ctx[a].pending
        /\ ctx'[a].inbox = Append(ctx[a].inbox, p) /\ ctx'[a].job = ctx[a].job
        /\ ctx'[a].call_id = ctx[a].call_id
    BY <1>1, <2>1 DEF Ctx
  <2>4. Requests(Append(ctx[a].inbox, p)) = Requests(ctx[a].inbox)
    <3>1. Requests(Append(ctx[a].inbox, p)) =
            Requests(ctx[a].inbox) \cup (IF p.type = "REQUEST" THEN {p} ELSE {})
      BY <1>1, <2>2, KindsAppend
    <3> QED
      BY <2>2, <3>1
  <2> QED
    BY <1>1, <1>2, <1>3, <2>1, <2>3, <2>4 DEF QuietAt, CallIdRight
<1>15. ASSUME link[a] # "open", NEW s \in Services, Send(a, s) PROVE QuietAt(a)
  <2>1. /\ ctx[a].phase = "up" /\ link' = link /\ up' = up /\ down' = down
        /\ Sent(a) \in Ctx /\ ctx' = [ctx EXCEPT ![a] = [Sent(a) EXCEPT !.error = TRUE]]
        /\ Sent(a).phase = "up" /\ Sent(a).inbox = ctx[a].inbox
        /\ Sent(a).job = ctx[a].job
    BY <1>15, SendFacts
  <2>2. Sent(a).pending = ctx[a].pending /\ Sent(a).call_id = SentCall(a)
    BY <1>1 DEF Sent, Ctx
  <2>3. /\ ctx'[a].phase = "up" /\ ctx'[a].pending = ctx[a].pending
        /\ ctx'[a].inbox = ctx[a].inbox /\ ctx'[a].job = ctx[a].job
        /\ ctx'[a].call_id = SentCall(a)
    BY <1>1, <2>1, <2>2 DEF Ctx
  <2>4. SentCall(a)[1] = a \/ SentCall(a) = ctx[a].call_id
    BY DEF SentCall
  <2> QED
    BY <1>1, <1>2, <1>3, <2>1, <2>3, <2>4 DEF QuietAt, CallIdRight
<1>16. CASE Finish(a) /\ (ctx[a].job.type = "CLIENT" \/ ctx[a].error)
  <2>1. /\ ctx[a].phase = "up" /\ ctx[a].job \in Msg /\ up' = up
        /\ ctx' = [ctx EXCEPT ![a] = [ctx[a] EXCEPT !.job = NoMsg,
                                        !.call_id = NoCall, !.error = FALSE]]
    BY <1>16, FinishFacts DEF Finish
  <2>2. \/ ctx[a].job.type = "CLIENT" /\ UNCHANGED <<link, down>>
        \/ link' = [link EXCEPT ![a] = "cut"] /\ down' = [down EXCEPT ![a] = <<>>]
    BY <1>16 DEF Finish
  <2>3. /\ ctx'[a].phase = "up" /\ ctx'[a].pending = ctx[a].pending
        /\ ctx'[a].inbox = ctx[a].inbox /\ ctx'[a].job = NoMsg
        /\ ctx'[a].call_id = NoCall
    BY <1>1, <2>1 DEF Ctx
  <2>4. \/ ctx[a].job.type = "CLIENT" /\ link' = link /\ down' = down
        \/ link'[a] = "cut" /\ down'[a] = <<>>
    BY <1>1, <2>2
  <2>5. ctx[a].job.type = "CLIENT" => Requests(JobLine(ctx[a].job)) = {}
    BY <1>5, <2>1
  <2> QED
    BY <1>1, <1>2, <1>3, <1>4, <2>1, <2>3, <2>4, <2>5 DEF QuietAt, CallIdRight
<1> QED
  BY <1>7, <1>8, <1>9, <1>10, <1>11, <1>12, <1>13, <1>14, <1>15, <1>16 DEF QuietStep

-----------------------------------------------------------------------------
(* The steps in which a process sends a request or an answer, or takes the *)
(* answer it waits for.  It waits in no chain meanwhile.                   *)

LEMMA TalkCalls ==
  ASSUME Typed, LineInv, CallsInv, NEW a \in Actors, OwnStep(a),
         link' = link, ctx[a].phase = "up", ctx'[a].phase = "up",
         \A c \in CallIds : ~Awaits(a, c),
         link[a] = "open" \/ up' = up
  PROVE  /\ \A c \in CallIds : ChainSame(c)
         /\ ChainsRight' /\ FramesMatch' /\ WaitsRight'
<1>1. /\ ChainsRight /\ FramesMatch /\ WaitsRight
  BY DEF CallsInv
<1>2. UNCHANGED <<actor_info, call_chain, coro, runq>>
  BY OwnFacts
<1>3. \A c \in CallIds : ChainSame(c)
  BY <1>2, ChainsSame
<1>4. \A b \in Actors : coro'[b] = coro[b] /\ (Waiting(b)' <=> Waiting(b))
                        /\ link'[b] = link[b]
  BY <1>2 DEF Waiting
<1>5. \A b \in Actors \ {a} :
        /\ Asks(b)' = Asks(b) /\ Answers(b)' = Answers(b)
        /\ Works(b)' = Works(b) /\ Gets(b)' = Gets(b)
        /\ ctx'[b] = ctx[b] /\ up'[b] = up[b]
  BY OthersSame
<1>6. up' = up => Asks(a)' = Asks(a) /\ Answers(a)' = Answers(a)
  BY PacksPrimes DEF Asks, Answers
<1>7. \A c \in CallIds : Spent(c) => Spent(c)'
  <2>1. \A b \in Actors : link[b] = "cut" => /\ Asks(b)' \subseteq Asks(b)
                                             /\ Answers(b)' \subseteq Answers(b)
    BY <1>5, <1>6
  <2> QED
    BY <1>3, <1>4, <2>1, SpentStays DEF ChainSame
<1>8. ChainsRight'
  <2>1. Starts'
    BY <1>1, <1>3 DEF ChainsRight, Starts, ChainSame
  <2>2. NoLoop'
    BY <1>1, <1>3, <1>7 DEF ChainsRight, NoLoop, ChainSame
  <2>3. \A b \in Actors \ {a} : Silent(b) => Silent(b)'
    BY <1>4, <1>5 DEF Silent
  <2>4. ASSUME NEW b \in Actors, NEW c \in CallIds, Awaits(b, c)
        PROVE  /\ Silent(b)'
               /\ \A d \in CallIds : Awaits(b, d)' => c = d
               /\ (~Waiting(b)' /\ link'[b] # "cut") => Spent(c)'
    <3>1. /\ Silent(b) /\ \A d \in CallIds : Awaits(b, d) => c = d
          /\ (~Waiting(b) /\ link[b] # "cut") => Spent(c)
      BY <1>1, <2>4 DEF ChainsRight, AwaitsRight
    <3>2. b # a
      BY <2>4
    <3> QED
      BY <1>3, <1>4, <1>7, <2>3, <2>4, <3>1, <3>2 DEF ChainSame
  <2>5. AwaitsRight'
    BY <1>3, <2>4 DEF AwaitsRight, ChainSame
  <2> QED
    BY <2>1, <2>2, <2>5 DEF ChainsRight
<1>9. ASSUME NEW b \in Actors
      PROVE  Replying(b)' /\ Failing(b)' /\ coro'[b].at # "self"
  <2>1. Replying(b) /\ Failing(b) /\ coro[b].at # "self" /\ coro'[b] = coro[b]
    BY <1>1, <1>4 DEF FramesMatch
  <2>2. Replying(b)'
    <3>1. SUFFICES ASSUME coro[b].at = "reply", NEW c \in CallIds, coro[b].call = c
                   PROVE  /\ coro[b].who = b /\ Opened(c)'
                          /\ \A e \in Actors : Last(c)' = e =>
                               /\ \A d \in CallIds : ~Awaits(e, d)'
                               /\ (coro'[e].at = "read" /\ up'[e] # <<>>)
                                    => Earlier(b, e)'
      BY <2>1 DEF Replying
    <3>2. /\ coro[b].who = b /\ Opened(c)
          /\ \A e \in Actors : Last(c) = e =>
               /\ \A d \in CallIds : ~Awaits(e, d)
               /\ (coro[e].at = "read" /\ up[e] # <<>>) => Earlier(b, e)
      BY <2>1, <3>1 DEF Replying
    <3>3. \A e \in Actors : Earlier(b, e) => Earlier(b, e)'
      BY <1>2 DEF Earlier, Ahead
    <3>4. (link[a] = "open" /\ coro[a].at = "read" /\ up[a] = <<>>) => Earlier(b, a)
      <4>1. (link[a] = "open" /\ coro[a].at = "read" /\ up[a] = <<>>)
              => a \notin Items(runq)
        BY DEF LineInv, RunqRight
      <4> QED
        BY <4>1, AheadFacts, TypedParts DEF Earlier
    <3>5. \A e \in Actors : (coro'[e].at = "read" /\ up'[e] # <<>>) =>
            (coro[e].at = "read" /\ up[e] # <<>>) \/ Earlier(b, e)
      BY <1>4, <1>5, <3>4
    <3> QED
      BY <1>3, <3>2, <3>3, <3>5 DEF ChainSame
  <2>3. Failing(b)'
    BY <1>3, <1>7, <2>1 DEF Failing, ChainSame
  <2> QED
    BY <2>1, <2>2, <2>3
<1>10. WaitsRight'
  <2>1. \A b \in Actors : Freeing(b) => Freeing(b)'
    BY <1>3, <1>4 DEF Freeing, ChainSame
  <2> QED
    BY <1>1, <1>3, <1>4, <2>1 DEF WaitsRight, ChainSame
<1> QED
  BY <1>3, <1>8, <1>9, <1>10 DEF FramesMatch

\* send() returns the answer: nothing is left of the request.
LEMMA ReceiveCalls ==
  ASSUME Typed, LineInv, PacksInv, CallsInv, NEW a \in Actors, ReceiveResponse(a)
  PROVE  CallsInv'
<1> DEFINE p == Head(down[a])
<1>1. /\ ctx[a].phase = "up" /\ down[a] # <<>> /\ p.type = "RESPONSE"
      /\ UNCHANGED <<link, up>> /\ down' = [down EXCEPT ![a] = Tail(@)]
      /\ ctx' = [ctx EXCEPT ![a].pending = NoReq]
  BY DEF ReceiveResponse, Receives, IsNext
<1>2. /\ ctx \in [Actors -> Ctx] /\ ctx[a] \in Ctx
      /\ down \in [Actors -> Seq(DownPack)] /\ down[a] \in Seq(DownPack)
  BY TypedParts
<1>3. /\ ctx'[a].phase = "up" /\ ctx'[a].pending = NoReq
      /\ ctx'[a].inbox = ctx[a].inbox /\ ctx'[a].job = ctx[a].job
      /\ ctx'[a].call_id = ctx[a].call_id /\ down'[a] = Tail(down[a])
  BY <1>1, <1>2 DEF Ctx
<1>4. /\ Requests(down[a]) = Requests(Tail(down[a]))
      /\ Responses(down[a]) = Responses(Tail(down[a])) \cup {p}
  BY <1>1, <1>2, KindsTail
<1>5. OwnStep(a)
  BY DEF OwnStep, ActorStep, ActorRuns
<1> HIDE DEF p
<1>6. /\ Asks(a)' = Asks(a) /\ Answers(a)' = Answers(a) /\ Works(a)' = Works(a)
      /\ Gets(a)' \subseteq Gets(a) /\ p \in Gets(a)
  BY <1>1, <1>3, <1>4, PacksPrimes DEF Asks, Answers, Works, Gets
<1>7. \A b \in Actors \ {a} :
        /\ Asks(b)' = Asks(b) /\ Answers(b)' = Answers(b)
        /\ Works(b)' = Works(b) /\ Gets(b)' = Gets(b)
        /\ ctx'[b] = ctx[b]
  BY <1>5, OthersSame
<1>8. /\ OneCall /\ Awaited /\ PlacesRight /\ ChainsRight /\ \A b \in Actors : CallIdRight(b)
  BY DEF CallsInv
<1>9. \A c \in CallIds : ~Awaits(a, c)
  BY <1>6, <1>8 DEF ChainsRight, AwaitsRight, Silent
<1>10. /\ \A c \in CallIds : ChainSame(c)
       /\ ChainsRight' /\ FramesMatch' /\ WaitsRight'
  BY <1>1, <1>3, <1>5, <1>9, TalkCalls
<1>11. \A b \in Actors : /\ Asks(b)' = Asks(b) /\ Answers(b)' = Answers(b)
                         /\ Works(b)' = Works(b) /\ Gets(b)' \subseteq Gets(b)
                         /\ Packs(b)' \subseteq Packs(b) /\ link'[b] = link[b]
                         /\ Packs(b)' = Asks(b)' \cup Answers(b)' \cup Works(b)' \cup Gets(b)'
  <2>1. \A b \in Actors : /\ Asks(b)' = Asks(b) /\ Answers(b)' = Answers(b)
                          /\ Works(b)' = Works(b) /\ Gets(b)' \subseteq Gets(b)
    BY <1>6, <1>7
  <2> QED
    BY <1>1, <2>1, PacksPrimes DEF Packs
<1>12. p.req[1] = a
  BY <1>6, <1>8 DEF PlacesRight, Getting
<1>13. ASSUME NEW b \in Actors, NEW q \in Packs(b)', q.req[1] = a
       PROVE  FALSE
  <2>1. q.req = p.req
    BY <1>6, <1>8, <1>11, <1>12, <1>13 DEF OneCall, Packs
  <2>2. CASE q \in Gets(b)'
    <3>1. q \in Requests(down'[b]) \cup Responses(down'[b])
      BY <2>2, PacksPrimes
    <3>2. q.req # p.req
      BY <1>1, <3>1, ReceiveGone DEF p
    <3> QED
      BY <2>1, <3>2
  <2>3. CASE q \in Asks(b) \cup Answers(b) \cup Works(b)
    BY <1>6, <2>1, <2>3, OnceFacts
  <2> QED
    BY <1>11, <2>2, <2>3
<1>14. OneCall' /\ Awaited'
  <2>1. OneCall'
    BY <1>8, <1>11 DEF OneCall
  <2>2. Awaited'
    BY <1>7, <1>8, <1>11, <1>13 DEF Awaited
  <2> QED
    BY <2>1, <2>2
<1>15. PlacesRight'
  <2>1. \A b \in Actors : \A q \in Asks(b) \cup Answers(b) \cup Works(b) :
          q.call \in CallIds /\ ChainSame(q.call)
    BY <1>10, PacksTyped DEF Packs
  <2>2. Placed'
    BY <1>8, <1>11, <2>1 DEF PlacesRight, Placed, ChainSame
  <2>3. Answering'
    BY <1>8, <1>11, <2>1 DEF PlacesRight, Answering, ChainSame
  <2>4. Asking'
    BY <1>8, <1>11, <2>1 DEF PlacesRight, Asking, ChainSame
  <2>5. Apart' /\ Getting' /\ LastAsk'
    BY <1>1, <1>8, <1>11 DEF PlacesRight, Apart, Getting, LastAsk
  <2> QED
    BY <2>2, <2>3, <2>4, <2>5 DEF PlacesRight
<1>16. \A b \in Actors : CallIdRight(b)'
  BY <1>3, <1>7, <1>8 DEF CallIdRight
<1> QED
  BY <1>10, <1>14, <1>15, <1>16 DEF CallsInv

\* A process that serves a message and waits for nothing: no pack is of a
\* request of its own, and the request it serves is at the end of its chain.
LEMMA ServingFacts ==
  ASSUME Typed, LineInv, CallsInv, NEW a \in Actors, Serving(a)
  PROVE  /\ ctx[a].phase = "up" /\ ctx[a].job \in Msg
         /\ \A c \in CallIds : ~Awaits(a, c)
         /\ \A b \in Actors : \A p \in Packs(b) : p.req[1] # a
         /\ Asks(a) = {}
         /\ ctx[a].job.type = "REQUEST" =>
              /\ ctx[a].job \in Works(a) /\ ctx[a].job \in Request /\ link[a] = "open"
              /\ Joined(ctx[a].job.call) /\ Last(ctx[a].job.call) = a
              /\ Prev(ctx[a].job.call) = ctx[a].job.req[1]
<1>1. /\ OneCall /\ Awaited /\ PlacesRight /\ ChainsRight /\ LinkRight(a)
      /\ ctx[a].phase = "up" /\ ctx[a].pending = NoReq /\ ctx[a].job # NoMsg
      /\ ctx[a] \in Ctx
  BY TypedParts DEF CallsInv, LineInv, Serving
<1>2. ctx[a].job \in Msg
  BY <1>1, CtxFields
<1>3. \A c \in CallIds : ~Awaits(a, c)
  BY <1>1 DEF ChainsRight, AwaitsRight, Silent
<1>4. ASSUME NEW b \in Actors, NEW p \in Packs(b), p.req[1] = a PROVE FALSE
  <2>1. p.req = NoReq
    BY <1>1, <1>4 DEF Awaited
  <2>2. p.req \in Reqs
    BY PacksTyped
  <2> QED
    BY <2>1, <2>2, CallConstantsAssumption
<1>5. Asks(a) = {}
  <2>1. \A p \in Asks(a) : p \in Packs(a) /\ p.req[1] = a
    BY <1>1 DEF Packs, PlacesRight, Asking
  <2> QED
    BY <1>4, <2>1
<1>6. ASSUME ctx[a].job.type = "REQUEST"
      PROVE  /\ ctx[a].job \in Works(a) /\ ctx[a].job \in Request /\ link[a] = "open"
             /\ Joined(ctx[a].job.call) /\ Last(ctx[a].job.call) = a
             /\ Prev(ctx[a].job.call) = ctx[a].job.req[1]
  <2> DEFINE j == ctx[a].job
  <2>1. j \in Works(a)
    <3>1. j \in Items(JobLine(j))
      BY <1>1, ItemsOf DEF JobLine
    <3> QED
      BY <1>6, <3>1 DEF Works, Requests
  <2>2. j \in Request /\ link[a] = "open"
    BY <1>1, <1>2, <1>6, PackKinds DEF LinkRight
  <2>3. Behind(j.req[1], a, j.call)
    BY <1>1, <2>1, <2>2 DEF PlacesRight, Placed
  <2>4. j.call \in CallIds
    BY <2>2, RequestFields
  <2> HIDE DEF j
  <2>5. /\ Joined(j.call) /\ a = Last(j.call) /\ j.req[1] = Prev(j.call)
    BY <1>3, <2>3, <2>4, ChainView
  <2> QED
    BY <2>1, <2>2, <2>5 DEF j
<1> QED
  BY <1>1, <1>2, <1>3, <1>4, <1>5, <1>6

\* A pack at the end of a connection that holds no request.
LEMMA LastAskAppend ==
  ASSUME Typed, LastAsk, NEW a \in Actors, NEW p \in UpPack, Asks(a) = {},
         up' = [up EXCEPT ![a] = Append(@, p)]
  PROVE  LastAsk'
<1> DEFINE s == up[a]
           t == up'[a]
<1>1. /\ s \in Seq(UpPack) /\ t = Append(s, p)
      /\ \A b \in Actors \ {a} : up'[b] = up[b]
  BY TypedParts
<1>2. \A i \in DOMAIN s : s[i].type # "REQUEST"
  BY DEF Asks, Requests, Items
<1> HIDE DEF s, t
<1>3. /\ DOMAIN t = 1 .. Len(s) + 1 /\ Len(t) = Len(s) + 1 /\ DOMAIN s = 1 .. Len(s)
      /\ Len(s) \in Nat /\ \A i \in DOMAIN s : t[i] = s[i]
  BY <1>1, AppendFacts
<1>4. ASSUME NEW i \in DOMAIN t, t[i].type = "REQUEST" PROVE i = Len(t)
  <2>1. i \notin DOMAIN s
    BY <1>2, <1>3, <1>4
  <2> QED
    BY <1>3, <1>4, <2>1
<1> QED
  BY <1>1, <1>4 DEF LastAsk, t

\* The call id of a request that is sent: it begins or ends the chain.
LEMMA SentCallFacts ==
  ASSUME Typed, LineInv, PacksInv, CallsInv, NEW a \in Actors, NEW s \in Services,
         Send(a, s)
  PROVE  /\ ~Opened(SentCall(a)) => SentCall(a)[1] = a
         /\ Opened(SentCall(a)) => Last(SentCall(a)) = a
         /\ \A q \in Answers(a) : q.call # SentCall(a)
<1> DEFINE c == SentCall(a)
           j == ctx[a].job
<1>1. Serving(a) /\ c \in CallIds
  BY SendFacts DEF Send
<1>2. /\ \A d \in CallIds : ~Awaits(a, d)
      /\ j.type = "REQUEST" =>
           /\ j \in Works(a) /\ j \in Request /\ Joined(j.call)
           /\ Last(j.call) = a /\ Prev(j.call) = j.req[1]
  BY <1>1, ServingFacts
<1>3. /\ ChainsRight /\ PlacesRight /\ OneCall /\ CallIdRight(a)
  BY DEF CallsInv
<1>4. c[1] = a \/ (j.type = "REQUEST" /\ j.call = c)
  BY <1>3 DEF SentCall, CallIdRight
<1> HIDE DEF c, j
<1>5. CASE c[1] = a
  <2>1. Opened(c) => Last(c) = a /\ ~Joined(c)
    <3>1. Opened(c) => call_chain[c][1] = a
      BY <1>1, <1>3, <1>5 DEF ChainsRight, Starts
    <3> QED
      BY <1>1, <1>2, <3>1, ChainView
  <2>2. ~Joined(c)
    BY <1>1, <2>1, ChainView
  <2>3. \A q \in Answers(a) : Joined(q.call)
    BY <1>3 DEF PlacesRight, Answering
  <2> QED
    BY <1>5, <2>1, <2>2, <2>3 DEF c
<1>6. CASE j.type = "REQUEST" /\ j.call = c
  <2>1. Opened(c) /\ Last(c) = a
    BY <1>1, <1>2, <1>6, ChainView
  <2>2. ASSUME NEW q \in Answers(a), q.call = c PROVE FALSE
    <3>1. Prev(c) = q.req[1] /\ Prev(c) = j.req[1]
      BY <1>2, <1>3, <1>6, <2>2 DEF PlacesRight, Answering
    <3>2. q \in Packs(a) /\ j \in Packs(a)
      BY <1>2, <1>6, <2>2 DEF Packs
    <3>3. q.req = j.req
      BY ONLY <1>3, <3>1, <3>2, a \in Actors DEF OneCall
    <3> QED
      BY <1>2, <1>6, <2>2, <3>3, OnceFacts
  <2> QED
    BY <2>1, <2>2 DEF c
<1> QED
  BY <1>4, <1>5, <1>6

LEMMA SendCalls ==
  ASSUME Typed, LineInv, PacksInv, CallsInv, NEW a \in Actors, NEW s \in Services,
         Send(a, s), link[a] = "open"
  PROVE  CallsInv'
<1> SUFFICES ASSUME NEW p, p = SentPack(a, s), NEW c, c = SentCall(a)
             PROVE  CallsInv'
  OBVIOUS
<1>1. /\ p \in Request /\ SentReq(a) \in Reqs /\ c \in CallIds /\ Sent(a) \in Ctx
      /\ ctx[a].phase = "up" /\ Sent(a).phase = "up" /\ Sent(a).inbox = ctx[a].inbox
      /\ Sent(a).job = ctx[a].job
      /\ ctx' = [ctx EXCEPT ![a] = [Sent(a) EXCEPT !.pending = SentReq(a)]]
      /\ up' = [up EXCEPT ![a] = Append(@, p)] /\ UNCHANGED <<link, down>>
  BY SendFacts
<1>2. /\ p.type = "REQUEST" /\ p.pid = a /\ p.call = c /\ p.req = SentReq(a)
      /\ p.req[1] = a
  BY DEF SentPack, SentReq
<1>3. /\ ctx \in [Actors -> Ctx] /\ ctx[a] \in Ctx
      /\ up \in [Actors -> Seq(UpPack)] /\ up[a] \in Seq(UpPack)
  BY TypedParts
<1>4. /\ ctx'[a].phase = "up" /\ ctx'[a].pending = SentReq(a)
      /\ ctx'[a].inbox = ctx[a].inbox /\ ctx'[a].job = ctx[a].job
      /\ ctx'[a].call_id = c
  <2>1. Sent(a).call_id = c
    BY <1>3 DEF Sent, Ctx
  <2> QED
    BY <1>1, <1>3, <2>1 DEF Ctx
<1>5. OwnStep(a) /\ Serving(a)
  BY DEF OwnStep, ActorStep, Send
<1>6. /\ \A d \in CallIds : ~Awaits(a, d)
      /\ \A b \in Actors : \A q \in Packs(b) : q.req[1] # a
      /\ Asks(a) = {}
  BY <1>5, ServingFacts
<1>7. /\ ~Opened(c) => c[1] = a
      /\ Opened(c) => Last(c) = a
      /\ \A q \in Answers(a) : q.call # c
  BY SentCallFacts
<1>8. /\ OneCall /\ Awaited /\ PlacesRight /\ ChainsRight /\ CallIdRight(a)
      /\ \A b \in Actors : CallIdRight(b)
  BY DEF CallsInv
<1>9. c[1] = a \/ (ctx[a].job.type = "REQUEST" /\ ctx[a].job.call = c /\ ctx[a].job # NoMsg)
  BY <1>8 DEF SentCall, CallIdRight
<1>10. p \in UpPack
  BY <1>1 DEF UpPack
<1>11. /\ Requests(up'[a]) = Requests(up[a]) \cup {p}
       /\ Responses(up'[a]) = Responses(up[a])
  <2>1. /\ Requests(Append(up[a], p)) =
             Requests(up[a]) \cup (IF p.type = "REQUEST" THEN {p} ELSE {})
        /\ Responses(Append(up[a], p)) =
             Responses(up[a]) \cup (IF p.type = "RESPONSE" THEN {p} ELSE {})
    BY <1>3, <1>10, KindsAppend
  <2>2. up'[a] = Append(up[a], p)
    BY <1>1, <1>3
  <2> QED
    BY <1>2, <2>1, <2>2
<1>12. /\ Asks(a)' = {p} /\ Answers(a)' = Answers(a) /\ Works(a)' = Works(a)
       /\ Gets(a)' = Gets(a)
  BY <1>1, <1>4, <1>6, <1>11, PacksPrimes DEF Asks, Answers, Works, Gets
<1>13. \A b \in Actors \ {a} :
         /\ Asks(b)' = Asks(b) /\ Answers(b)' = Answers(b)
         /\ Works(b)' = Works(b) /\ Gets(b)' = Gets(b)
         /\ ctx'[b] = ctx[b]
  BY <1>5, OthersSame
<1>14. /\ \A d \in CallIds : ChainSame(d)
       /\ ChainsRight' /\ FramesMatch' /\ WaitsRight'
  BY <1>1, <1>4, <1>5, <1>6, TalkCalls
<1>15. \A b \in Actors : \A q \in Packs(b)' : q \in Packs(b) \/ q = p
  BY <1>12, <1>13, PacksPrimes DEF Packs
<1>16. OneCall' /\ Awaited'
  <2>1. OneCall'
    BY <1>2, <1>6, <1>8, <1>15 DEF OneCall
  <2>2. Awaited'
    BY <1>2, <1>4, <1>6, <1>8, <1>13, <1>15 DEF Awaited
  <2> QED
    BY <2>1, <2>2
<1>17. PlacesRight'
  <2>1. \A b \in Actors : \A q \in Asks(b) \cup Answers(b) \cup Works(b) :
          q.call \in CallIds /\ ChainSame(q.call)
    BY <1>14, PacksTyped DEF Packs
  <2>2. Placed'
    BY <1>1, <1>8, <1>12, <1>13, <2>1 DEF PlacesRight, Placed, ChainSame
  <2>3. Answering'
    BY <1>8, <1>12, <1>13, <2>1 DEF PlacesRight, Answering, ChainSame
  <2>4. Asking'
    <3>1. /\ ChainSame(c) /\ p.pid = a /\ p.req[1] = a /\ p.call = c
          /\ ~Opened(c) => c[1] = a
          /\ Opened(c) => Last(c) = a
      BY <1>1, <1>2, <1>7, <1>14
    <3>2. /\ p.pid = a /\ p.req[1] = a
          /\ ~Opened(p.call)' => p.call[1] = a
          /\ Opened(p.call)' => Last(p.call)' = a
      BY <3>1 DEF ChainSame
    <3>3. ASSUME NEW b \in Actors \ {a}, NEW q \in Asks(b)
          PROVE  /\ q.pid = b /\ q.req[1] = b
                 /\ ~Opened(q.call)' => q.call[1] = b
                 /\ Opened(q.call)' => Last(q.call)' = b
      <4>1. Asking /\ ChainSame(q.call) /\ b \in Actors
        BY <1>8, <2>1, <3>3 DEF PlacesRight
      <4>2. (Opened(q.call)' <=> Opened(q.call)) /\ Last(q.call)' = Last(q.call)
        BY <4>1 DEF ChainSame
      <4> QED
        BY <3>3, <4>1, <4>2 DEF Asking
    <3>4. \A b \in Actors : \A q \in Asks(b)' :
            /\ q.pid = b /\ q.req[1] = b
            /\ ~Opened(q.call)' => q.call[1] = b
            /\ Opened(q.call)' => Last(q.call)' = b
      BY <1>12, <1>13, <3>2, <3>3
    <3> QED
      BY <3>4 DEF Asking
  <2>5. Apart'
    BY <1>2, <1>7, <1>8, <1>12, <1>13 DEF PlacesRight, Apart
  <2>6. Getting'
    BY <1>8, <1>12, <1>13 DEF PlacesRight, Getting
  <2>7. LastAsk'
    BY <1>1, <1>6, <1>8, <1>10, LastAskAppend DEF PlacesRight
  <2> QED
    BY <2>2, <2>3, <2>4, <2>5, <2>6, <2>7 DEF PlacesRight
<1>18. \A b \in Actors : CallIdRight(b)'
  BY <1>4, <1>8, <1>9, <1>13 DEF CallIdRight
<1> QED
  BY <1>14, <1>16, <1>17, <1>18 DEF CallsInv

\* The service has returned: its request becomes an answer.
LEMMA AnswerCalls ==
  ASSUME Typed, LineInv, PacksInv, CallsInv, NEW a \in Actors, Finish(a),
         ctx[a].job.type # "CLIENT", ~ctx[a].error
  PROVE  CallsInv'
<1> SUFFICES ASSUME NEW j, j = ctx[a].job, NEW p, p = AnswerTo(j)
             PROVE  CallsInv'
  OBVIOUS
<1>1. Serving(a) /\ OwnStep(a)
  BY DEF OwnStep, ActorStep, ActorRuns, Finish
<1>2. /\ ctx[a].phase = "up" /\ j \in Msg
      /\ ctx' = [ctx EXCEPT ![a] = [ctx[a] EXCEPT !.job = NoMsg,
                                     !.call_id = NoCall, !.error = FALSE]]
      /\ UNCHANGED <<link, down>> /\ up' = [up EXCEPT ![a] = Append(@, p)]
  BY FinishFacts DEF Finish, AnswerTo
<1>3. j.type = "REQUEST"
  BY <1>2, PackKinds
<1>4. /\ \A d \in CallIds : ~Awaits(a, d)
      /\ Asks(a) = {}
      /\ j \in Works(a) /\ j \in Request /\ link[a] = "open"
      /\ Joined(j.call) /\ Last(j.call) = a /\ Prev(j.call) = j.req[1]
  BY <1>1, <1>3, ServingFacts
<1>5. /\ ctx \in [Actors -> Ctx] /\ ctx[a] \in Ctx
      /\ up \in [Actors -> Seq(UpPack)] /\ up[a] \in Seq(UpPack)
  BY TypedParts
<1>6. /\ ctx'[a].phase = "up" /\ ctx'[a].pending = ctx[a].pending
      /\ ctx'[a].inbox = ctx[a].inbox /\ ctx'[a].job = NoMsg
      /\ ctx'[a].call_id = NoCall
  BY <1>2, <1>5 DEF Ctx
<1>7. /\ p \in Response /\ p \in UpPack /\ p.type = "RESPONSE"
      /\ p.call = j.call /\ p.req = j.req
  BY <1>4, AnswerFacts DEF UpPack
<1>8. Works(a)' \subseteq Works(a) /\ Gets(a)' = Gets(a)
  <2>1. JobLine(NoMsg) = <<>>
    BY DEF JobLine
  <2> QED
    BY <1>2, <1>6, <2>1, PacksPrimes, KindsNone DEF Works, Gets
<1>9. /\ Requests(up'[a]) = Requests(up[a])
      /\ Responses(up'[a]) = Responses(up[a]) \cup {p}
  <2>0. p \in UpPack /\ up[a] \in Seq(UpPack)
    BY <1>5, <1>7
  <2>1. /\ Requests(Append(up[a], p)) =
             Requests(up[a]) \cup (IF p.type = "REQUEST" THEN {p} ELSE {})
        /\ Responses(Append(up[a], p)) =
             Responses(up[a]) \cup (IF p.type = "RESPONSE" THEN {p} ELSE {})
    BY ONLY <2>0, KindsAppend
  <2>2. up'[a] = Append(up[a], p)
    BY <1>2, <1>5
  <2> QED
    BY <1>7, <2>1, <2>2
<1>10. Asks(a)' = {} /\ Answers(a)' = Answers(a) \cup {p}
  BY <1>4, <1>9, PacksPrimes DEF Asks, Answers
<1>11. \A b \in Actors \ {a} :
         /\ Asks(b)' = Asks(b) /\ Answers(b)' = Answers(b)
         /\ Works(b)' = Works(b) /\ Gets(b)' = Gets(b)
         /\ ctx'[b] = ctx[b]
  BY <1>1, OthersSame
<1>12. /\ \A d \in CallIds : ChainSame(d)
       /\ ChainsRight' /\ FramesMatch' /\ WaitsRight'
  BY <1>1, <1>2, <1>4, <1>6, TalkCalls
<1>13. /\ OneCall /\ Awaited /\ PlacesRight /\ \A b \in Actors : CallIdRight(b)
  BY DEF CallsInv
<1>14. \A b \in Actors : \A q \in Packs(b)' :
         \E d \in Actors : \E r \in Packs(d) : r.req = q.req
  <2>1. \A b \in Actors : \A q \in Packs(b)' : q \in Packs(b) \/ q = p
    BY <1>4, <1>8, <1>10, <1>11, PacksPrimes DEF Packs
  <2>2. j \in Packs(a) /\ j.req = p.req
    BY <1>4, <1>7 DEF Packs
  <2> QED
    BY <2>1, <2>2
<1>15. OneCall' /\ Awaited'
  <2>1. OneCall'
    BY <1>13, <1>14 DEF OneCall
  <2>2. \A b \in Actors : ctx'[b].phase # "dead" =>
          ctx[b].phase # "dead" /\ ctx'[b].pending = ctx[b].pending
    BY <1>2, <1>6, <1>11
  <2>3. Awaited'
    BY <1>13, <1>14, <2>2 DEF Awaited
  <2> QED
    BY <2>1, <2>3
<1>16. PlacesRight'
  <2>1. \A b \in Actors : \A q \in Asks(b) \cup Answers(b) \cup Works(b) :
          q.call \in CallIds /\ ChainSame(q.call)
    BY <1>12, PacksTyped DEF Packs
  <2>2. Placed'
    BY <1>2, <1>8, <1>11, <1>13, <2>1 DEF PlacesRight, Placed, ChainSame
  <2>3. Answering'
    <3>1. ChainSame(p.call) /\ Joined(p.call) /\ Last(p.call) = a
          /\ Prev(p.call) = p.req[1]
      BY <1>4, <1>7, <1>12, RequestFields
    <3>2. Joined(p.call)' /\ Last(p.call)' = a /\ Prev(p.call)' = p.req[1]
      BY <3>1 DEF ChainSame
    <3>3. ASSUME NEW b \in Actors, NEW q \in Answers(b)
          PROVE  Joined(q.call)' /\ Last(q.call)' = b /\ Prev(q.call)' = q.req[1]
      BY <1>13, <2>1, <3>3 DEF PlacesRight, Answering, ChainSame
    <3>4. \A b \in Actors : \A q \in Answers(b)' :
            Joined(q.call)' /\ Last(q.call)' = b /\ Prev(q.call)' = q.req[1]
      BY <1>10, <1>11, <3>2, <3>3
    <3> QED
      BY <3>4 DEF Answering
  <2>4. Asking'
    BY <1>10, <1>11, <1>13, <2>1 DEF PlacesRight, Asking, ChainSame
  <2>5. Apart'
    BY <1>10, <1>11, <1>13 DEF PlacesRight, Apart
  <2>6. Getting'
    BY <1>8, <1>11, <1>13 DEF PlacesRight, Getting
  <2>7. LastAsk'
    BY <1>2, <1>4, <1>7, <1>13, LastAskAppend DEF PlacesRight
  <2> QED
    BY <2>2, <2>3, <2>4, <2>5, <2>6, <2>7 DEF PlacesRight
<1>17. \A b \in Actors : CallIdRight(b)'
  BY <1>6, <1>11, <1>13 DEF CallIdRight
<1> QED
  BY <1>12, <1>15, <1>16, <1>17 DEF CallsInv


LEMMA OwnCalls ==
  ASSUME Typed, AckInv, LineInv, PacksInv, CallsInv, NEW a \in Actors, OwnStep(a)
  PROVE  CallsInv'
<1>1. CASE QuietStep(a)
  <2>1. QuietAt(a)
    BY <1>1, QuietSteps
  <2>2. Quiet /\ LastAsk'
    BY <2>1, AtQuiet
  <2> QED
    BY <2>2, QuietCalls
<1>2. CASE ReceiveResponse(a)
  BY <1>2, ReceiveCalls
<1>3. CASE link[a] = "open" /\ \E s \in Services : Send(a, s)
  BY <1>3, SendCalls
<1>4. CASE Finish(a) /\ ctx[a].job.type # "CLIENT" /\ ~ctx[a].error
  BY <1>4, AnswerCalls
<1> QED
  BY <1>1, <1>2, <1>3, <1>4 DEF OwnStep, ActorStep, ActorRuns, QuietStep
-----------------------------------------------------------------------------
(* The steps of the proxy that move no pack of a request.                  *)

\* A coroutine that has written a response stays before that of another.
LEMMA EarlierStays ==
  ASSUME Typed, LineInv, NEW a \in Actors, ResumedStep(a),
         NEW x \in Actors \ {a}, NEW y \in Actors,
         coro'[x].at = "reply", coro'[y].at = "read", up'[y] # <<>>,
         (coro[y].at = "read" /\ up[y] # <<>>) => Earlier(x, y)
  PROVE  Earlier(x, y)'
<1>1. /\ runq # <<>> /\ Head(runq) = a /\ Ends(a) /\ Distinct(runq)
      /\ \A b \in Actors \ {a} : up'[b] = up[b]
  BY ResumedFacts DEF LineInv
<1>2. /\ \A b \in Actors \ {a} : coro'[b] = coro[b]
      /\ \/ /\ coro'[a].at \in {"read", "closed"}
            /\ a \notin Items(runq)' /\ runq' = Tail(runq)
         \/ /\ coro'[a].at \in {"connack", "request", "reply", "self"}
            /\ a \in Items(runq)' /\ runq' = Append(Tail(runq), a)
      /\ Distinct(runq)' /\ Items(runq)' \subseteq Actors
  BY <1>1, EndsFacts
<1>3. runq \in Seq(Actors) /\ Tail(runq) \in Seq(Actors)
  BY <1>1, TypedParts, TailFacts
<1>4. runq' \in Seq(Actors) /\ Items(runq)' = Items(runq')
  BY <1>2, <1>3 DEF Items
<1>5. Earlier(x, y)' <=> Ahead(runq', x, y)
  BY DEF Earlier, Ahead
<1>6. CASE y = a
  <2>1. y \notin Items(runq')
    BY <1>2, <1>4, <1>6
  <2> QED
    BY <1>4, <1>5, <2>1, AheadFacts
<1>7. CASE y # a
  <2>1. Ahead(runq, x, y)
    BY <1>1, <1>2, <1>7 DEF Earlier
  <2>2. Ahead(Tail(runq), x, y)
    BY <1>1, <1>3, <2>1, AheadFacts
  <2>3. x \in Items(Tail(runq))
    <3>1. x \in Items(runq)
      BY <1>2 DEF LineInv, RunqRight
    <3> QED
      BY <1>1, <1>3, <3>1, ItemsTail
  <2>4. Ahead(Append(Tail(runq), a), x, y)
    BY <1>3, <2>2, <2>3, AheadFacts
  <2> QED
    BY <1>2, <1>5, <2>2, <2>4
<1> QED
  BY <1>6, <1>7

LEMMA LastAskTail ==
  ASSUME Typed, LastAsk, NEW a \in Actors, up[a] # <<>>,
         up' = [up EXCEPT ![a] = Tail(@)]
  PROVE  LastAsk'
<1> DEFINE s == up[a]
           t == up'[a]
<1>1. /\ s \in Seq(UpPack) /\ s # <<>> /\ t = Tail(s)
      /\ \A b \in Actors \ {a} : up'[b] = up[b]
  BY TypedParts
<1>2. \A i \in DOMAIN s : s[i].type = "REQUEST" => i = Len(s)
  BY DEF LastAsk
<1> HIDE DEF s, t
<1>3. ASSUME NEW i \in DOMAIN t, t[i].type = "REQUEST" PROVE i = Len(t)
  <2>1. /\ i + 1 \in DOMAIN s /\ t[i] = s[i + 1] /\ Len(t) = Len(s) - 1
        /\ i \in Nat /\ Len(s) \in Nat
    BY <1>1, TailFacts
  <2>2. i + 1 = Len(s)
    BY <1>2, <1>3, <2>1
  <2> QED
    BY <2>1, <2>2
<1> QED
  BY <1>1, <1>3 DEF LastAsk, t

\* A resumed coroutine that reads no request and no response, and writes none.
LEMMA ResumedStill ==
  ASSUME Typed, LineInv, NEW a \in Actors, ResumedStep(a),
         UNCHANGED <<ctx, link, call_chain>>, LastAsk',
         \A b \in Actors : /\ Asks(b)' = Asks(b) /\ Answers(b)' = Answers(b)
                           /\ Works(b)' = Works(b) /\ Gets(b)' = Gets(b)
                           /\ up[b] = <<>> => up'[b] = <<>>,
         coro'[a].at \in {"read", "closed", "connack"},
         \A b \in Actors : Waiting(b)' => Waiting(b),
         \A b \in Actors : (Waiting(b) /\ ~Waiting(b)') =>
           link[b] = "cut" \/ \A c \in CallIds : Awaits(b, c) => Spent(c),
         coro[a].at = "reply" =>
           \A c \in CallIds : coro[a].call = c =>
             \A b \in Actors : Last(c) = b => ~Waiting(b)'
  PROVE  Still(a)
<1>1. \A b \in Actors \ {a} : coro'[b] = coro[b]
  <2>1. /\ runq # <<>> /\ Head(runq) = a /\ Ends(a) /\ Distinct(runq)
    BY ResumedFacts DEF LineInv
  <2> QED
    BY <2>1, EndsFacts
<1>2. ASSUME NEW x \in Actors, NEW y \in Actors,
             coro'[x].at = "reply", coro[x] = coro'[x],
             coro'[y].at = "read", up'[y] # <<>>,
             (coro[y].at = "read" /\ up[y] # <<>>) => Earlier(x, y)
      PROVE  Earlier(x, y)'
  <2>1. x # a
    BY <1>2
  <2> QED
    BY <1>2, <2>1, EarlierStays
<1> QED
  BY <1>1, <1>2 DEF Still

LEMMA PacksSame ==
  ASSUME UNCHANGED <<ctx, up, down>>
  PROVE  \A b \in Actors : /\ Asks(b)' = Asks(b) /\ Answers(b)' = Answers(b)
                           /\ Works(b)' = Works(b) /\ Gets(b)' = Gets(b)
                           /\ up[b] = <<>> => up'[b] = <<>>
  BY PacksPrimes DEF Asks, Answers, Works, Gets

LEMMA MapsWaiting ==
  ASSUME NEW m \in MapsType, NEW b \in Actors
  PROVE  /\ Waiting(b) <=> Waits(Maps)[b]
         /\ actor_info' = m.info => (Waiting(b)' <=> Waits(m)[b])
         /\ actor_info' = actor_info => (Waiting(b)' <=> Waiting(b))
  BY DEF Waiting, Waits, Maps

LEMMA StillStart ==
  ASSUME Typed, LineInv, CallsInv, NEW a \in Actors, Proxies(a),
         Accept(a) \/ Arrive(a)
  PROVE  Still(a)
<1>1. /\ UNCHANGED <<actor_info, ctx, link, call_chain, up, down>>
      /\ \A b \in Actors \ {a} : coro'[b] = coro[b]
      /\ coro'[a] = coro[a] \/ (coro[a].at = "accept" /\ coro'[a].at = "read")
  BY TypedParts DEF Proxies, Accept, Arrive, Idle
<1>2. LastAsk'
  BY <1>1 DEF CallsInv, PlacesRight, LastAsk
<1>3. \A b \in Actors : Waiting(b)' <=> Waiting(b)
  BY <1>1 DEF Waiting
<1>4. ASSUME NEW x \in Actors, NEW y \in Actors,
             coro'[x].at = "reply", coro[x] = coro'[x],
             coro'[y].at = "read", up'[y] # <<>>,
             (coro[y].at = "read" /\ up[y] # <<>>) => Earlier(x, y)
      PROVE  Earlier(x, y)'
  <2>1. runq \in Seq(Actors) /\ x \in Items(runq)
    BY <1>4, TypedParts DEF LineInv, RunqRight
  <2>2. CASE Accept(a)
    <3>1. runq' = runq
      BY <2>2 DEF Accept
    <3>2. Earlier(x, y)
      <4>1. CASE y = a
        <5>1. y \notin Items(runq)
          BY <2>2, <4>1 DEF Accept, LineInv, RunqRight
        <5> QED
          BY <2>1, <5>1, AheadFacts DEF Earlier
      <4>2. CASE y # a
        BY <1>1, <1>4, <4>2
      <4> QED
        BY <4>1, <4>2
    <3> QED
      BY <3>1, <3>2 DEF Earlier, Ahead
  <2>3. CASE Arrive(a)
    <3>1. runq' = Append(runq, a) /\ coro' = coro
      BY <2>3 DEF Arrive
    <3>2. Ahead(runq, x, y)
      BY <1>1, <1>4, <3>1 DEF Earlier
    <3>3. Ahead(Append(runq, a), x, y)
      BY <2>1, <3>2, AheadFacts
    <3> QED
      BY <3>1, <3>3 DEF Earlier, Ahead
  <2> QED
    BY <2>2, <2>3
<1> QED
  BY <1>1, <1>2, <1>3, <1>4, PacksSame DEF Still

LEMMA StillWritten ==
  ASSUME Typed, LineInv, CallsInv, NEW a \in Actors, Proxies(a),
         ConnackWritten(a) \/ ReadEof(a) \/ RequestDone(a)
  PROVE  Still(a)
<1>1. ResumedStep(a) /\ UNCHANGED <<ctx, link, up, down>>
  BY DEF Proxies, ResumedStep, ConnackWritten, ReadEof, RequestDone
<1>2. LastAsk'
  BY <1>1 DEF CallsInv, PlacesRight, LastAsk
<1>3. coro \in [Actors -> Frame] /\ FrameSet(coro[a])
  BY TypedParts
<1>4. coro'[a].at \in {"read", "closed"} /\ coro[a].at # "reply"
  BY <1>3 DEF ConnackWritten, ReadEof, RequestDone, Resumes, AwaitPack, Idle
<1>5. /\ call_chain' = call_chain
      /\ \A b \in Actors : Waiting(b)' => Waiting(b)
      /\ \A b \in Actors : (Waiting(b) /\ ~Waiting(b)') =>
           link[b] = "cut" \/ \A c \in CallIds : Awaits(b, c) => Spent(c)
  <2>1. CASE ConnackWritten(a) \/ ReadEof(a)
    BY <2>1 DEF ConnackWritten, ReadEof, Waiting
  <2>2. CASE RequestDone(a)
    <3> DEFINE f == coro[a]
               m == RequestWritten(Maps, f)
               first == UpdateActorInfo(Maps, f.pack.pid, NoCall, FALSE)
    <3>1. /\ f.at = "request" /\ actor_info' = m.info /\ call_chain' = m.chain
      BY <2>2 DEF RequestDone, Resumes
    <3>2. /\ f \in Frame /\ f.who \in Actors /\ f.pack \in Request
          /\ Maps \in MapsType /\ Maps.chain = call_chain
      BY <1>3, <3>1, TypedParts DEF FrameSet
    <3>3. m \in MapsType /\ m.chain = call_chain
      BY <3>2, RequestWrittenFacts
    <3>4. CASE f.ok
      <4>1. actor_info' = actor_info
        BY <3>1, <3>4, TypedParts DEF RequestWritten
      <4> QED
        BY <3>1, <3>3, <4>1 DEF Waiting
    <3>5. CASE ~f.ok
      <4>1. /\ f.pack.pid = a /\ link[f.who] = "cut"
            /\ \A c \in CallIds : Awaits(a, c) => Spent(c)
        BY <3>1, <3>5 DEF CallsInv, FramesMatch, Failing
      <4>2. m = UpdateActorInfo(first, f.who, NoCall, FALSE)
        BY <3>5 DEF RequestWritten
      <4>3. /\ first \in MapsType /\ Waits(first) = [Waits(Maps) EXCEPT ![f.pack.pid] = FALSE]
        BY <3>2, <4>1, UpdateFacts, UpdateWaits
      <4>4. Waits(m) = [Waits(first) EXCEPT ![f.who] = FALSE]
        <5>1. /\ first \in MapsType /\ f.who \in Actors /\ NoCall \in CallIds \cup {NoCall}
              /\ FALSE \in BOOLEAN /\ m = UpdateActorInfo(first, f.who, NoCall, FALSE)
          BY <3>2, <4>2, <4>3
        <5> HIDE DEF first, m, f
        <5> QED
          BY ONLY <5>1, UpdateWaits
      <4> HIDE DEF first
      <4>5. Waits(Maps) \in [Actors -> BOOLEAN] /\ Waits(first) \in [Actors -> BOOLEAN]
        BY <3>2, <4>3, WaitsTyped
      <4>6. \A b \in Actors : Waits(m)[b] = (Waits(Maps)[b] /\ b # a /\ b # f.who)
        <5> DEFINE w == Waits(Maps)
                   w1 == Waits(first)
                   w2 == Waits(m)
                   e == f.who
        <5>1. /\ w \in [Actors -> BOOLEAN] /\ w1 = [w EXCEPT ![a] = FALSE]
              /\ w2 = [w1 EXCEPT ![e] = FALSE] /\ e \in Actors
          BY <3>2, <4>1, <4>3, <4>4, <4>5
        <5> HIDE DEF w, w1, w2, e
        <5>2. \A b \in Actors : w2[b] = (w[b] /\ b # a /\ b # e)
          BY <5>1
        <5> QED
          BY <5>2 DEF w, w2, e
      <4> HIDE DEF m
      <4>7. \A b \in Actors : (Waiting(b)' <=> Waiting(b) /\ b # a /\ b # f.who)
        BY <3>1, <3>3, <4>6, MapsWaiting
      <4> QED
        BY <3>1, <3>3, <4>1, <4>7
    <3> QED
      BY <3>4, <3>5
  <2> QED
    BY <2>1, <2>2
<1>6. \A b \in Actors : /\ Asks(b)' = Asks(b) /\ Answers(b)' = Answers(b)
                        /\ Works(b)' = Works(b) /\ Gets(b)' = Gets(b)
                        /\ up[b] = <<>> => up'[b] = <<>>
  BY <1>1, PacksSame
<1> QED
  BY <1>1, <1>2, <1>4, <1>5, <1>6, ResumedStill

LEMMA StillConnect ==
  ASSUME Typed, LineInv, CallsInv, NEW a \in Actors, Proxies(a), ReadConnect(a)
  PROVE  Still(a)
<1> DEFINE n == [call_id |-> NoCall, is_waiting |-> FALSE, msg_queue |-> <<>>]
<1>1. /\ ResumedStep(a) /\ UNCHANGED <<ctx, link, call_chain>>
      /\ Reads(a, "CONNECT") /\ Transmit(a, Connack) /\ AwaitWrite(a, Idle("connack"))
      /\ actor_info' = [actor_info EXCEPT ![a] = n]
  BY DEF Proxies, ResumedStep, ReadConnect
<1>2. /\ up[a] # <<>> /\ Head(up[a]).type = "CONNECT" /\ coro[a].at = "read"
      /\ up' = [up EXCEPT ![a] = Tail(@)]
  BY <1>1 DEF Reads, Resumes
<1>3. /\ up \in [Actors -> Seq(UpPack)] /\ up[a] \in Seq(UpPack)
      /\ down \in [Actors -> Seq(DownPack)] /\ down[a] \in Seq(DownPack)
      /\ coro \in [Actors -> Frame] /\ actor_info \in [Actors -> Info]
  BY TypedParts
<1>4. LastAsk'
  BY <1>2, LastAskTail DEF CallsInv, PlacesRight
<1>5. coro'[a].at = "connack"
  BY <1>1, <1>3 DEF AwaitWrite, Idle
<1>6. n.is_waiting = FALSE
  OBVIOUS
<1> HIDE DEF n
<1>7. \A b \in Actors : Waiting(b)' = (Waiting(b) /\ b # a)
  <2>1. \A b \in Actors : actor_info'[b] = IF b = a THEN n ELSE actor_info[b]
    BY <1>1, <1>3
  <2>2. \A b \in Actors : actor_info[b].is_waiting \in BOOLEAN
    BY <1>3 DEF Info
  <2> QED
    BY <1>6, <2>1, <2>2 DEF Waiting
<1>8. \A c \in CallIds : ~Awaits(a, c)
  BY <1>2 DEF CallsInv, ChainsRight, AwaitsRight, Silent
<1>9. /\ Requests(up'[a]) = Requests(up[a]) /\ Responses(up'[a]) = Responses(up[a])
  <2>1. up'[a] = Tail(up[a])
    BY <1>2, <1>3
  <2>2. /\ Requests(up[a]) = Requests(Tail(up[a]))
               \cup (IF Head(up[a]).type = "REQUEST" THEN {Head(up[a])} ELSE {})
        /\ Responses(up[a]) = Responses(Tail(up[a]))
               \cup (IF Head(up[a]).type = "RESPONSE" THEN {Head(up[a])} ELSE {})
    BY <1>2, <1>3, KindsTail
  <2> QED
    BY <1>2, <2>1, <2>2
<1>10. /\ Requests(down'[a]) = Requests(down[a]) /\ Responses(down'[a]) = Responses(down[a])
  <2>1. Connack \in DownPack /\ Connack.type = "CONNACK"
    BY DEF DownPack, Connack
  <2>2. /\ Requests(Append(down[a], Connack)) = Requests(down[a])
        /\ Responses(Append(down[a], Connack)) = Responses(down[a])
    <3>1. /\ Requests(Append(down[a], Connack)) = Requests(down[a])
               \cup (IF Connack.type = "REQUEST" THEN {Connack} ELSE {})
          /\ Responses(Append(down[a], Connack)) = Responses(down[a])
               \cup (IF Connack.type = "RESPONSE" THEN {Connack} ELSE {})
      BY <1>3, <2>1, KindsAppend
    <3> QED
      BY <2>1, <3>1
  <2>3. down'[a] = down[a] \/ down'[a] = Append(down[a], Connack)
    BY <1>1, <1>3 DEF Transmit
  <2> QED
    BY <2>2, <2>3
<1>11. \A b \in Actors \ {a} : up'[b] = up[b] /\ down'[b] = down[b]
  BY <1>1, <1>2, <1>3 DEF Transmit
<1>12. \A b \in Actors : /\ Asks(b)' = Asks(b) /\ Answers(b)' = Answers(b)
                         /\ Works(b)' = Works(b) /\ Gets(b)' = Gets(b)
                         /\ up[b] = <<>> => up'[b] = <<>>
  BY <1>1, <1>2, <1>9, <1>10, <1>11, PacksPrimes DEF Asks, Answers, Works, Gets
<1> QED
  BY <1>1, <1>2, <1>4, <1>5, <1>7, <1>8, <1>12, ResumedStill

\* With no request waiting in the proxy the coroutine goes back to its socket.
LEMMA StillReply ==
  ASSUME Typed, LineInv, CallsInv, NoRequestWaits, NEW a \in Actors, Proxies(a),
         ReplyWritten(a)
  PROVE  Still(a) /\ NoRequestWaits'
<1>1. SUFFICES ASSUME NEW call, call = coro[a].call, NEW who, who = coro[a].who,
                      NEW m, m = UpdateActorInfo(Maps, who, NoCall, FALSE),
                      NEW r, r = HandleRequest(m, who),
                      NEW caller, caller = Back(m.chain[call]),
                      NEW n, n = UpdateActorInfo(m, caller, call, FALSE),
                      NEW t, t = HandleRequest(n, caller)
               PROVE  Still(a) /\ NoRequestWaits'
  OBVIOUS
<1>2. /\ ResumedStep(a) /\ UNCHANGED <<ctx, link, up>> /\ coro[a].at = "reply"
      /\ call_chain[call] # <<>>
      /\ IF r.writes THEN Suspend(a, r, "self", call) ELSE ResumeCaller(a, r.maps, call)
  BY <1>1 DEF Proxies, ResumedStep, ReplyWritten, Resumes
<1>3. /\ call \in CallIds /\ who \in Actors /\ Maps \in MapsType
      /\ Maps.chain = call_chain /\ Maps.info = actor_info
      /\ NoCall \in CallIds \cup {NoCall} /\ FALSE \in BOOLEAN
      /\ call \in CallIds \cup {NoCall} /\ coro \in [Actors -> Frame]
  BY <1>1, <1>2, TypedParts DEF FrameSet
<1>4. \A b \in Actors : Queues(Maps)[b] = <<>>
  BY <1>3, MapsFields DEF NoRequestWaits
<1>5. /\ m \in MapsType /\ Queues(m) = Queues(Maps) /\ m.chain = call_chain
      /\ Waits(m) = [Waits(Maps) EXCEPT ![who] = FALSE]
  BY <1>1, <1>3, UpdateFacts, UpdateWaits
<1>6. r.maps = m /\ ~r.writes
  <2>1. Queues(m)[who] = <<>> /\ m \in MapsType /\ who \in Actors
    BY <1>3, <1>4, <1>5
  <2> QED
    BY <1>1, <2>1, HandleNone
<1>7. /\ caller = Last(call) /\ caller \in Actors
  BY <1>1, <1>2, <1>3, <1>5, ChainView DEF Last, Opened
<1>8. /\ n \in MapsType /\ Queues(n) = Queues(m) /\ n.chain = m.chain
      /\ Waits(n) = [Waits(m) EXCEPT ![caller] = FALSE]
  <2>1. /\ m \in MapsType /\ caller \in Actors /\ call \in CallIds \cup {NoCall}
        /\ FALSE \in BOOLEAN /\ n = UpdateActorInfo(m, caller, call, FALSE)
    BY <1>1, <1>3, <1>5, <1>7
  <2> QED
    BY ONLY <2>1, UpdateFacts, UpdateWaits
<1>9. t.maps = n /\ ~t.writes
  <2>1. Queues(n)[caller] = <<>> /\ n \in MapsType /\ caller \in Actors
    BY <1>4, <1>5, <1>7, <1>8
  <2> QED
    BY <1>1, <2>1, HandleNone, ZenonT(30)
<1>10. Suspend(a, t, "request", call) \/ Suspend(a, t, "request", NoCall)
  BY <1>1, <1>2, <1>6 DEF ResumeCaller
<1>11. /\ actor_info' = n.info /\ call_chain' = call_chain /\ down' = down
       /\ AwaitPack(a)
  BY <1>5, <1>8, <1>9, <1>10 DEF Suspend
<1>12. coro'[a].at = "read"
  BY <1>3, <1>11 DEF AwaitPack, Idle
<1>13. \A b \in Actors : Waiting(b)' <=> (Waiting(b) /\ b # who /\ b # caller)
  <2>1. Waits(Maps) \in [Actors -> BOOLEAN]
    BY <1>3, WaitsTyped
  <2>2. \A b \in Actors : Waits(n)[b] <=> (Waits(Maps)[b] /\ b # who /\ b # caller)
    BY <1>3, <1>5, <1>7, <1>8, <2>1
  <2> QED
    BY <1>8, <1>11, <2>2, MapsWaiting
<1>14. /\ who = a /\ \A c \in CallIds : ~Awaits(caller, c)
  BY <1>1, <1>2, <1>3, <1>7 DEF CallsInv, FramesMatch, Replying
<1>15. \A c \in CallIds : ~Awaits(a, c)
  BY <1>2 DEF CallsInv, ChainsRight, AwaitsRight, Silent
<1>16. LastAsk'
  BY <1>2 DEF CallsInv, PlacesRight, LastAsk
<1>17. \A b \in Actors : /\ Asks(b)' = Asks(b) /\ Answers(b)' = Answers(b)
                         /\ Works(b)' = Works(b) /\ Gets(b)' = Gets(b)
                         /\ up[b] = <<>> => up'[b] = <<>>
  BY <1>2, <1>11, PacksSame
<1>18. \A c \in CallIds : coro[a].call = c =>
         \A b \in Actors : Last(c) = b => ~Waiting(b)'
  BY <1>1, <1>7, <1>13
<1>19. NoRequestWaits'
  <2>1. \A b \in Actors : n.info[b].msg_queue = <<>>
    BY <1>4, <1>5, <1>8, MapsFields
  <2> QED
    BY <1>11, <2>1 DEF NoRequestWaits
<1>20. Still(a)
  BY <1>2, <1>11, <1>12, <1>13, <1>14, <1>15, <1>16, <1>17, <1>18, ResumedStill
<1> QED
  BY <1>19, <1>20


\* A response taken from connection a: its process is last in the chain, and
\* the one before it waits for this response and nothing else.
LEMMA ResponseFacts ==
  ASSUME Typed, LineInv, PacksInv, CallsInv, NEW a \in Actors, ReadResponse(a),
         ctx' = ctx, NEW p, p = Head(up[a]), NEW c, c = p.call,
         NEW r, r = Prev(c)
  PROVE  /\ p \in Answers(a) /\ c \in CallIds /\ r \in Actors /\ r # a /\ p.req[1] = r
         /\ Joined(c) /\ Opened(c) /\ Last(c) = a /\ Awaits(r, c) /\ ~Spent(c)
         /\ up[a] # <<>> /\ up' = [up EXCEPT ![a] = Tail(@)]
         /\ coro[a].at = "read" /\ coro'[a].at = "reply"
         /\ coro'[a].call = c /\ coro'[a].who = a
         /\ \A x \in Actors \ {a} : coro'[x] = coro[x]
         /\ call_chain' = [call_chain EXCEPT ![c] = Popped(@)]
         /\ Transmit(r, p) /\ UNCHANGED <<actor_info, link>>
         /\ ResumedStep(a)
<1>1. /\ Reads(a, "RESPONSE") /\ Len(call_chain[c]) >= 2
      /\ call_chain' = [call_chain EXCEPT ![c] = Popped(@)]
      /\ Transmit(Back(Popped(call_chain[c])), p)
      /\ AwaitWrite(a, [at |-> "reply", call |-> c, who |-> Back(call_chain[c]),
                        pack |-> NoRequest, ok |-> TRUE])
      /\ UNCHANGED <<actor_info, link>> /\ ResumedStep(a)
  BY DEF ReadResponse, ResumedStep
<1>2. /\ up[a] # <<>> /\ p.type = "RESPONSE" /\ coro[a].at = "read"
      /\ up' = [up EXCEPT ![a] = Tail(@)]
  BY <1>1 DEF Reads, Resumes
<1>3. up[a] \in Seq(UpPack) /\ coro \in [Actors -> Frame]
  BY TypedParts
<1>4. p \in Answers(a)
  <2>1. p \in Items(up[a])
    BY <1>2, <1>3, ItemsTail
  <2> QED
    BY <1>2, <2>1 DEF Answers, Responses
<1>5. p \in Packs(a) /\ c \in CallIds
  BY <1>4, PacksTyped DEF Packs
<1>6. Joined(c) /\ Last(c) = a /\ p.req[1] = r
  BY <1>4 DEF CallsInv, PlacesRight, Answering
<1>7. Opened(c) /\ Awaits(r, c) /\ r \in Actors
  BY <1>5, <1>6, ChainView
<1>8. r # a
  BY <1>2, <1>5, <1>7 DEF CallsInv, ChainsRight, AwaitsRight, Silent
<1>9. ~Spent(c)
  BY <1>4, <1>6 DEF Spent
<1>10. Back(Popped(call_chain[c])) = r /\ Back(call_chain[c]) = a
  <2>1. call_chain[c] \in Seq(Actors)
    BY <1>5, TypedParts
  <2> QED
    BY <1>1, <1>6, <2>1, ChainPopped DEF Prev, Last
<1>11. coro'[a] = [at |-> "reply", call |-> c, who |-> a, pack |-> NoRequest, ok |-> TRUE]
       /\ \A x \in Actors \ {a} : coro'[x] = coro[x]
  BY <1>1, <1>3, <1>10 DEF AwaitWrite
<1>12. Transmit(r, p)
  BY <1>1, <1>10
<1> QED
  BY ONLY <1>1, <1>2, <1>4, <1>5, <1>6, <1>7, <1>8, <1>9, <1>11, <1>12

\* The chains after the last process has left one.
LEMMA PoppedChains ==
  ASSUME Typed, NEW c \in CallIds, Joined(c), Straight(c),
         call_chain' = [call_chain EXCEPT ![c] = Popped(@)]
  PROVE  /\ \A d \in CallIds \ {c} : ChainSame(d)
         /\ Opened(c)' /\ Last(c)' = Prev(c) /\ Straight(c)'
         /\ call_chain'[c][1] = call_chain[c][1]
         /\ \A x \in Actors : Awaits(x, c)' <=> (Awaits(x, c) /\ x # Prev(c))
         /\ \A x, y : Behind(x, y, c) <=>
                        Behind(x, y, c)' \/ (x = Prev(c) /\ y = Last(c))
<1> DEFINE r == Prev(c)
           a == Last(c)
           s == call_chain[c]
           t == call_chain'[c]
<1>1. call_chain \in [CallIds -> Seq(Actors)] /\ s \in Seq(Actors) /\ t = Popped(s)
      /\ Len(s) >= 2 /\ r = Asker(s) /\ a = Back(s) /\ Simple(s)
  BY TypedParts DEF Joined, Prev, Last, Straight
<1>2. \A d \in CallIds \ {c} : ChainSame(d)
  BY <1>1, ChainsSame
<1>3. /\ Opened(c)' <=> t # <<>>
      /\ Last(c)' = Back(t) /\ (Straight(c)' <=> Simple(t))
      /\ \A x \in Actors : Awaits(x, c)' <=> x \in Inner(t)
      /\ \A x, y : Behind(x, y, c)' <=> <<x, y>> \in Pairs(t)
  BY ChainPrimes
<1>4. /\ \A x \in Actors : Awaits(x, c) <=> x \in Inner(s)
      /\ \A x, y : Behind(x, y, c) <=> <<x, y>> \in Pairs(s)
  BY DEF Awaits, Behind
<1> HIDE DEF s, t, r, a
<1>5. /\ t \in Seq(Actors) /\ t # <<>> /\ t[1] = s[1] /\ Back(t) = r
      /\ Inner(s) = Inner(t) \cup {r} /\ Pairs(s) = Pairs(t) \cup {<<r, a>>}
      /\ Simple(t) /\ r \notin Inner(t)
  BY <1>1, ChainPopped
<1>6. \A x, y : <<x, y>> = <<r, a>> => x = r /\ y = a
  OBVIOUS
<1> QED
  BY <1>2, <1>3, <1>4, <1>5, <1>6 DEF s, t, r, a

\* The packs after a response has been taken, and sent on if it can be.
LEMMA ResponsePacks ==
  ASSUME Typed, NEW a \in Actors, NEW r \in Actors, r # a, up[a] # <<>>,
         NEW p, p = Head(up[a]), p.type = "RESPONSE", p \in Response,
         up'[a] = Tail(up[a]), \A b \in Actors \ {a} : up'[b] = up[b],
         Transmit(r, p), ctx' = ctx
  PROVE  /\ \A b \in Actors :
              /\ Asks(b)' = Asks(b) /\ Answers(b)' \subseteq Answers(b)
              /\ Works(b)' = Works(b)
              /\ b # a => up'[b] = up[b] /\ Answers(b)' = Answers(b)
              /\ b # r => Gets(b)' = Gets(b)
         /\ Gets(r)' \subseteq Gets(r) \cup {p}
         /\ link[r] = "open" => Gets(r)' = Gets(r) \cup {p}
<1>1. /\ up \in [Actors -> Seq(UpPack)] /\ up[a] \in Seq(UpPack)
      /\ down \in [Actors -> Seq(DownPack)] /\ down[r] \in Seq(DownPack)
      /\ p \in DownPack
  BY TypedParts DEF DownPack
<1>2. /\ Requests(up'[a]) = Requests(up[a]) /\ Responses(up'[a]) \subseteq Responses(up[a])
  <2>1. up'[a] = Tail(up[a])
    OBVIOUS
  <2>2. /\ Requests(up[a]) = Requests(Tail(up[a]))
               \cup (IF Head(up[a]).type = "REQUEST" THEN {Head(up[a])} ELSE {})
        /\ Responses(up[a]) = Responses(Tail(up[a]))
               \cup (IF Head(up[a]).type = "RESPONSE" THEN {Head(up[a])} ELSE {})
    BY <1>1, KindsTail
  <2> QED
    BY <2>1, <2>2
<1>3. /\ Requests(down'[r]) = Requests(down[r])
      /\ Responses(down'[r]) \subseteq Responses(down[r]) \cup {p}
      /\ link[r] = "open" => Responses(down'[r]) = Responses(down[r]) \cup {p}
  <2>1. /\ Requests(Append(down[r], p)) = Requests(down[r])
             \cup (IF p.type = "REQUEST" THEN {p} ELSE {})
        /\ Responses(Append(down[r], p)) = Responses(down[r])
             \cup (IF p.type = "RESPONSE" THEN {p} ELSE {})
    BY ONLY <1>1, KindsAppend
  <2>2. down'[r] = IF link[r] = "open" THEN Append(down[r], p) ELSE down[r]
    BY <1>1 DEF Transmit
  <2> QED
    BY <2>1, <2>2
<1>4. /\ \A b \in Actors \ {a} : up'[b] = up[b]
      /\ \A b \in Actors \ {r} : down'[b] = down[b]
  BY <1>1 DEF Transmit
<1>5. \A b \in Actors : /\ Requests(up'[b]) = Requests(up[b])
                        /\ Responses(up'[b]) \subseteq Responses(up[b])
                        /\ Requests(down'[b]) = Requests(down[b])
                        /\ b # a => up'[b] = up[b] /\ Responses(up'[b]) = Responses(up[b])
                        /\ b # r => Responses(down'[b]) = Responses(down[b])
  BY <1>2, <1>3, <1>4
<1> QED
  BY <1>3, <1>5, PacksPrimes DEF Asks, Answers, Works, Gets

LEMMA ResponseCalls ==
  ASSUME Typed, LineInv, PacksInv, CallsInv, NEW a \in Actors, ReadResponse(a),
         ctx' = ctx
  PROVE  CallsInv'
<1> SUFFICES ASSUME NEW p, p = Head(up[a]), NEW c, c = p.call, NEW r, r = Prev(c)
             PROVE  CallsInv'
  OBVIOUS
<1>1. /\ p \in Answers(a) /\ c \in CallIds /\ r \in Actors /\ r # a /\ p.req[1] = r
      /\ Joined(c) /\ Opened(c) /\ Last(c) = a /\ Awaits(r, c) /\ ~Spent(c)
      /\ up[a] # <<>> /\ up' = [up EXCEPT ![a] = Tail(@)]
      /\ coro[a].at = "read" /\ coro'[a].at = "reply"
      /\ coro'[a].call = c /\ coro'[a].who = a
      /\ \A x \in Actors \ {a} : coro'[x] = coro[x]
      /\ call_chain' = [call_chain EXCEPT ![c] = Popped(@)]
      /\ Transmit(r, p) /\ UNCHANGED <<actor_info, link>>
      /\ ResumedStep(a)
  BY ResponseFacts
<1>2. /\ OneCall /\ Awaited /\ PlacesRight /\ ChainsRight
      /\ FramesMatch /\ WaitsRight /\ \A b \in Actors : CallIdRight(b)
  BY DEF CallsInv
<1>3. /\ \A d \in CallIds \ {c} : ChainSame(d)
      /\ Opened(c)' /\ Last(c)' = r /\ Straight(c)'
      /\ call_chain'[c][1] = call_chain[c][1]
      /\ \A x \in Actors : Awaits(x, c)' <=> (Awaits(x, c) /\ x # r)
      /\ \A x, y : Behind(x, y, c) => Behind(x, y, c)' \/ (x = r /\ y = a)
  <2>1. Straight(c)
    BY <1>1, <1>2 DEF ChainsRight, NoLoop
  <2>2. /\ \A d \in CallIds \ {c} : ChainSame(d)
        /\ Opened(c)' /\ Last(c)' = Prev(c) /\ Straight(c)'
        /\ call_chain'[c][1] = call_chain[c][1]
        /\ \A x \in Actors : Awaits(x, c)' <=> (Awaits(x, c) /\ x # Prev(c))
        /\ \A x, y : Behind(x, y, c) <=>
                       Behind(x, y, c)' \/ (x = Prev(c) /\ y = Last(c))
    BY <1>1, <2>1, PoppedChains
  <2>3. r = Prev(c) /\ a = Last(c)
    BY <1>1
  <2> QED
    BY ONLY <2>2, <2>3
<1>4. p.type = "RESPONSE" /\ p \in Response
  BY <1>1, PacksKinds, PacksTyped
<1>5. /\ \A b \in Actors :
           /\ Asks(b)' = Asks(b) /\ Answers(b)' \subseteq Answers(b)
           /\ Works(b)' = Works(b)
           /\ b # a => up'[b] = up[b] /\ Answers(b)' = Answers(b)
           /\ b # r => Gets(b)' = Gets(b)
      /\ Gets(r)' \subseteq Gets(r) \cup {p}
  <2>1. up'[a] = Tail(up[a]) /\ \A b \in Actors \ {a} : up'[b] = up[b]
    BY <1>1, TypedParts
  <2> QED
    BY <1>1, <1>4, <2>1, ResponsePacks
<1>6. \A b \in Actors : \A q \in Packs(b)' : \E d \in Actors : q \in Packs(d)
  <2>1. p \in Packs(a)
    BY <1>1 DEF Packs
  <2>2. \A b \in Actors : \A q \in Packs(b)' : q \in Packs(b) \/ q = p
    BY <1>5, PacksPrimes DEF Packs
  <2> QED
    BY <2>1, <2>2
<1>7. \A b \in Actors : link'[b] = link[b] /\ ctx'[b] = ctx[b]
                        /\ (Waiting(b)' <=> Waiting(b))
  BY <1>1 DEF Waiting
<1>8. \A b \in Actors : \A q \in Asks(b) \cup Answers(b) \cup Works(b) : q.call \in CallIds
  BY PacksTyped DEF Packs
<1>9. \A d \in CallIds \ {c} : Spent(d) => Spent(d)'
  BY <1>3, <1>5, <1>7, SpentStays DEF ChainSame
\* Nobody else has a pack of the request that has been answered.
<1>10. /\ \A b \in Actors : \A q \in Answers(b)' : q.req # p.req
       /\ \A b \in Actors : \A q \in Packs(b) : q.req[1] = r => q.req = p.req
  <2>1. Reads(a, "RESPONSE")
    BY DEF ReadResponse
  <2>2. \A b \in Actors : \A q \in Answers(b)' : q \in Responses(up'[b])
    BY PacksPrimes
  <2>3. \A b \in Actors : \A q \in Answers(b)' : q.req # p.req
    BY <2>1, <2>2, ReadGone
  <2>4. p \in Packs(a)
    BY <1>1 DEF Packs
  <2>5. \A b \in Actors : \A q \in Packs(b) : q.req[1] = r => q.req = p.req
    BY <1>1, <1>2, <2>4 DEF OneCall
  <2> QED
    BY <2>3, <2>5
<1>11. OneCall' /\ Awaited'
  <2>1. OneCall'
    BY <1>2, <1>6 DEF OneCall
  <2>2. Awaited'
    BY <1>2, <1>6, <1>7 DEF Awaited
  <2> QED
    BY <2>1, <2>2
<1>12. Placed'
  <2>1. SUFFICES ASSUME NEW b \in Actors, link[b] = "open", NEW q \in Works(b)
                 PROVE  Behind(q.req[1], b, q.call)'
    BY <1>5, <1>7 DEF Placed
  <2>2. Behind(q.req[1], b, q.call) /\ q.call \in CallIds /\ q \in Packs(b)
    BY <1>2, <1>8, <2>1 DEF PlacesRight, Placed, Packs
  <2>3. CASE q.call # c
    BY <1>3, <2>2, <2>3 DEF ChainSame
  <2>4. CASE q.call = c
    <3>1. ~(q.req[1] = r /\ b = a)
      <4>1. q.req # p.req
        BY <1>1, <2>1, OnceFacts
      <4> QED
        BY <1>10, <2>2, <4>1
    <3> QED
      BY <1>3, <2>2, <2>4, <3>1
  <2> QED
    BY <2>3, <2>4
<1>13. Answering'
  <2>1. SUFFICES ASSUME NEW b \in Actors, NEW q \in Answers(b)'
                 PROVE  Joined(q.call)' /\ Last(q.call)' = b /\ Prev(q.call)' = q.req[1]
    BY DEF Answering
  <2>2. /\ Joined(q.call) /\ Last(q.call) = b /\ Prev(q.call) = q.req[1]
        /\ q.call \in CallIds /\ q \in Packs(b)
    BY <1>2, <1>5, <1>8, <2>1 DEF PlacesRight, Answering, Packs
  <2>3. q.call # c
    BY <1>10, <2>1, <2>2
  <2> QED
    BY <1>3, <2>2, <2>3 DEF ChainSame
<1>14. Asking'
  <2>1. SUFFICES ASSUME NEW b \in Actors, NEW q \in Asks(b)
                 PROVE  /\ q.pid = b /\ q.req[1] = b
                        /\ ~Opened(q.call)' => q.call[1] = b
                        /\ Opened(q.call)' => Last(q.call)' = b
    BY <1>5 DEF Asking
  <2>2. /\ q.pid = b /\ q.req[1] = b /\ q.call \in CallIds
        /\ ~Opened(q.call) => q.call[1] = b
        /\ Opened(q.call) => Last(q.call) = b
    BY <1>2, <1>8, <2>1 DEF PlacesRight, Asking
  <2>3. q.call # c
    BY <1>1, <1>2, <2>1, <2>2 DEF PlacesRight, Apart
  <2> QED
    BY <1>3, <2>2, <2>3 DEF ChainSame
<1>15. PlacesRight'
  <2>1. Apart'
    BY <1>2, <1>5 DEF PlacesRight, Apart
  <2>2. Getting'
    BY <1>1, <1>2, <1>5 DEF PlacesRight, Getting
  <2>3. LastAsk'
    BY <1>1, <1>2, LastAskTail DEF PlacesRight
  <2> QED
    BY <1>12, <1>13, <1>14, <2>1, <2>2, <2>3 DEF PlacesRight
<1>16. ChainsRight'
  <2>1. Starts'
    <3>1. ASSUME NEW d \in CallIds, Opened(d)' PROVE call_chain'[d][1] = d[1]
      <4>1. Opened(d) /\ call_chain'[d][1] = call_chain[d][1]
        BY <1>1, <1>3, <3>1 DEF ChainSame
      <4> QED
        BY <1>2, <4>1 DEF ChainsRight, Starts
    <3> QED
      BY <3>1 DEF Starts
  <2>2. NoLoop'
    <3>1. SUFFICES ASSUME NEW d \in CallIds
                   PROVE  /\ Straight(d)'
                          /\ \A e \in Actors : (Opened(d)' /\ Last(d)' = e /\ Awaits(e, d)')
                                                 => Spent(d)'
      BY DEF NoLoop
    <3>2. CASE d = c
      BY <1>3, <3>2
    <3>3. CASE d # c
      BY <1>2, <1>3, <1>9, <3>3 DEF ChainsRight, NoLoop, ChainSame
    <3> QED
      BY <3>2, <3>3
  <2>3. ASSUME NEW b \in Actors, NEW d \in CallIds, Awaits(b, d)'
        PROVE  /\ Silent(b)'
               /\ \A e \in CallIds : Awaits(b, e)' => d = e
               /\ (~Waiting(b)' /\ link'[b] # "cut") => Spent(d)'
    <3>1. \A e \in CallIds : Awaits(b, e)' => Awaits(b, e)
      BY <1>3 DEF ChainSame
    <3>2. /\ Silent(b) /\ \A e \in CallIds : Awaits(b, e) => d = e
          /\ (~Waiting(b) /\ link[b] # "cut") => Spent(d)
      BY <1>2, <2>3, <3>1 DEF ChainsRight, AwaitsRight
    <3>3. b # r /\ b # a
      BY <1>1, <1>3, <2>3, <3>2 DEF Silent
    <3>4. Silent(b)'
      BY <1>1, <1>5, <1>7, <3>2, <3>3 DEF Silent
    <3> QED
      BY <1>1, <1>7, <1>9, <3>1, <3>2, <3>4
  <2>4. AwaitsRight'
    BY <2>3 DEF AwaitsRight
  <2> QED
    BY <2>1, <2>2, <2>4 DEF ChainsRight
\* No other coroutine has written a response of this call.
<1>17. ASSUME NEW x \in Actors, coro[x].at = "reply"
       PROVE  x # a /\ coro[x].call \in CallIds \ {c}
  <2>1. x # a /\ coro[x].call \in CallIds
    BY <1>1, <1>17, TypedParts DEF FrameSet
  <2>2. ASSUME coro[x].call = c PROVE FALSE
    <3>1. Earlier(x, a)
      BY <1>1, <1>2, <1>17, <2>2 DEF FramesMatch, Replying
    <3>2. runq \in Seq(Actors) /\ runq # <<>> /\ Head(runq) = a
      BY <1>1, ResumedFacts, TypedParts
    <3> QED
      BY <3>1, <3>2, AheadFacts DEF Earlier
  <2> QED
    BY <2>1, <2>2
<1>18. ASSUME NEW b \in Actors
       PROVE  Replying(b)' /\ Failing(b)' /\ coro'[b].at # "self"
  <2>1. Replying(b) /\ Failing(b) /\ coro[b].at # "self"
    BY <1>2 DEF FramesMatch
  <2>2. CASE b = a
    <3>1. Replying(a)'
      <4>1. \A d \in CallIds : ~Awaits(r, d)'
        <5>1. \A d \in CallIds : Awaits(r, d) => d = c
          BY <1>1, <1>2 DEF ChainsRight, AwaitsRight
        <5>2. ~Awaits(r, c)'
          BY <1>1, <1>3
        <5>3. \A d \in CallIds \ {c} : ~Awaits(r, d)'
          BY <1>1, <1>3, <5>1 DEF ChainSame
        <5> QED
          BY <5>2, <5>3
      <4>2. up'[r] = <<>>
        BY <1>1, <1>2, <1>5 DEF ChainsRight, AwaitsRight, Silent
      <4>3. /\ coro'[a].who = a /\ coro'[a].call = c /\ c \in CallIds
            /\ Opened(c)' /\ Last(c)' = r
        BY <1>1, <1>3
      <4>4. /\ \A d \in CallIds : coro'[a].call = d => d = c
            /\ \A e \in Actors : Last(c)' = e => e = r
        BY <4>3
      <4> QED
        BY ONLY <4>1, <4>2, <4>3, <4>4 DEF Replying
    <3> QED
      BY <1>1, <2>2, <3>1 DEF Failing
  <2>3. CASE b # a
    <3>1. coro'[b] = coro[b]
      BY <1>1, <2>3
    <3>2. Replying(b)'
      <4>1. SUFFICES ASSUME coro'[b].at = "reply", NEW d \in CallIds, coro'[b].call = d
                     PROVE  /\ coro'[b].who = b /\ Opened(d)'
                            /\ \A e \in Actors : Last(d)' = e =>
                                 /\ \A f \in CallIds : ~Awaits(e, f)'
                                 /\ (coro'[e].at = "read" /\ up'[e] # <<>>)
                                      => Earlier(b, e)'
        BY <2>1, <3>1 DEF Replying
      <4>2. d # c /\ ChainSame(d)
        BY <1>3, <1>17, <3>1, <4>1
      <4>3. /\ coro[b].who = b /\ Opened(d)
            /\ \A e \in Actors : Last(d) = e =>
                 /\ \A f \in CallIds : ~Awaits(e, f)
                 /\ (coro[e].at = "read" /\ up[e] # <<>>) => Earlier(b, e)
        BY <2>1, <3>1, <4>1 DEF Replying
      <4>4. \A e \in Actors : \A f \in CallIds : Awaits(e, f)' => Awaits(e, f)
        BY <1>3 DEF ChainSame
      <4>5. ASSUME NEW e \in Actors, coro'[e].at = "read", up'[e] # <<>>,
                   (coro[e].at = "read" /\ up[e] # <<>>) => Earlier(b, e)
            PROVE  Earlier(b, e)'
        BY <1>1, <2>3, <4>1, <4>5, EarlierStays
      <4> QED
        BY <3>1, <4>2, <4>3, <4>4, <4>5 DEF ChainSame
    <3>3. Failing(b)'
      <4>1. SUFFICES ASSUME coro[b].at = "request", ~coro[b].ok PROVE Failing(b)'
        BY <3>1 DEF Failing
      <4>2. /\ coro[b].pack.pid = b /\ link[coro[b].who] = "cut"
            /\ \A d \in CallIds : Awaits(b, d) => Spent(d)
        BY <2>1, <4>1 DEF Failing
      <4>3. \A d \in CallIds : Awaits(b, d)' => Awaits(b, d)
        BY <1>3 DEF ChainSame
      <4>4. \A d \in CallIds : Awaits(b, d)' => Spent(d)'
        BY <1>1, <1>9, <4>2, <4>3
      <4> QED
        BY <1>1, <3>1, <4>2, <4>4 DEF Failing
    <3> QED
      BY <2>1, <3>1, <3>2, <3>3
  <2> QED
    BY <2>2, <2>3
<1>19. WaitsRight'
  <2>1. SUFFICES ASSUME NEW b \in Actors, Waiting(b)
                 PROVE  (\E d \in CallIds : Awaits(b, d)') \/ Freeing(b)'
    BY <1>7 DEF WaitsRight
  <2>2. CASE \E d \in CallIds : Awaits(b, d)
    <3>1. PICK d \in CallIds : Awaits(b, d)
      BY <2>2
    <3>2. CASE d = c /\ b = r
      BY <1>1, <1>3, <3>2 DEF Freeing
    <3>3. CASE ~(d = c /\ b = r)
      BY <1>3, <3>1, <3>3 DEF ChainSame
    <3> QED
      BY <3>2, <3>3
  <2>3. CASE Freeing(b)
    <3>1. PICK x \in Actors : \E d \in CallIds :
            coro[x].at = "reply" /\ coro[x].call = d /\ Last(d) = b
      BY <2>3 DEF Freeing
    <3>2. PICK d \in CallIds : coro[x].at = "reply" /\ coro[x].call = d /\ Last(d) = b
      BY <3>1
    <3>3. coro'[x] = coro[x] /\ Last(d)' = b
      BY <1>1, <1>3, <1>17, <3>2 DEF ChainSame
    <3> QED
      BY <3>2, <3>3 DEF Freeing
  <2> QED
    BY <1>2, <2>1, <2>2, <2>3 DEF WaitsRight
<1>20. \A b \in Actors : CallIdRight(b)'
  BY <1>2, <1>7 DEF CallIdRight
<1> QED
  BY <1>11, <1>15, <1>16, <1>18, <1>19, <1>20 DEF CallsInv, FramesMatch

\* The chains after p.pid has started one, and to has joined it.
LEMMA StartedChains ==
  ASSUME Typed, NEW c \in CallIds, NEW a \in Actors, Opened(c) => Last(c) = a,
         Straight(c), call_chain' = [call_chain EXCEPT ![c] = Started(@, a)]
  PROVE  /\ \A d \in CallIds : Opened(d) \/ d # c => ChainSame(d)
         /\ ~Opened(c) => call_chain'[c][1] = a
         /\ Straight(c)'
         /\ \A d \in CallIds : \A x \in Actors : Awaits(x, d)' <=> Awaits(x, d)
         /\ \A d \in CallIds : \A x, y : Behind(x, y, d)' <=> Behind(x, y, d)
<1> DEFINE s == call_chain[c]
           t == call_chain'[c]
<1>1. call_chain \in [CallIds -> Seq(Actors)] /\ s \in Seq(Actors) /\ t = Started(s, a)
  BY TypedParts
<1>2. s # <<>> => t = s
  BY <1>1 DEF Started
<1>3. s = <<>> => t = <<a>>
  BY <1>1 DEF Started
<1>4. \A d \in CallIds : Opened(d) \/ d # c => ChainSame(d)
  <2>1. \A d \in CallIds : Opened(d) \/ d # c => call_chain'[d] = call_chain[d]
    BY <1>1, <1>2 DEF Opened
  <2> QED
    BY <2>1, ChainsSame
<1>5. /\ Straight(c)' <=> Simple(t)
      /\ \A x \in Actors : Awaits(x, c)' <=> x \in Inner(t)
      /\ \A x, y : Behind(x, y, c)' <=> <<x, y>> \in Pairs(t)
  BY ChainPrimes
<1>6. /\ \A x \in Actors : Awaits(x, c) <=> x \in Inner(s)
      /\ \A x, y : Behind(x, y, c) <=> <<x, y>> \in Pairs(s)
      /\ Straight(c) <=> Simple(s) /\ (Opened(c) <=> s # <<>>)
  BY DEF Awaits, Behind, Straight, Opened
<1>7. \A d \in CallIds \ {c} : /\ \A x \in Actors : Awaits(x, d)' <=> Awaits(x, d)
                               /\ \A x, y : Behind(x, y, d)' <=> Behind(x, y, d)
  BY <1>4 DEF ChainSame
<1> HIDE DEF s, t
<1>8. CASE s # <<>>
  BY <1>2, <1>4, <1>5, <1>6, <1>7, <1>8
<1>9. CASE s = <<>>
  <2>1. /\ Simple(t) /\ Inner(t) = {} /\ Pairs(t) = {} /\ t[1] = a
        /\ Inner(s) = {} /\ Pairs(s) = {}
    BY <1>3, <1>9, ChainOne, ChainNone
  <2> QED
    BY <1>4, <1>5, <1>6, <1>7, <1>9, <2>1 DEF t
<1> QED
  BY <1>8, <1>9

LEMMA JoinedChains ==
  ASSUME Typed, NEW c \in CallIds, NEW a \in Actors, Opened(c) => Last(c) = a,
         Straight(c), ~Awaits(a, c), NEW to \in Actors,
         call_chain' = [call_chain EXCEPT ![c] = Append(Started(@, a), to)]
  PROVE  /\ \A d \in CallIds \ {c} : ChainSame(d)
         /\ Opened(c)' /\ Last(c)' = to /\ Straight(c)'
         /\ call_chain'[c][1] = IF Opened(c) THEN call_chain[c][1] ELSE a
         /\ \A x \in Actors : Awaits(x, c)' <=> (Awaits(x, c) \/ x = a)
         /\ \A x, y : Behind(x, y, c)' <=> Behind(x, y, c) \/ (x = a /\ y = to)
<1> DEFINE s == call_chain[c]
           u == Started(s, a)
           t == call_chain'[c]
<1>1. /\ call_chain \in [CallIds -> Seq(Actors)] /\ s \in Seq(Actors) /\ t = Append(u, to)
      /\ \A d \in CallIds \ {c} : call_chain'[d] = call_chain[d]
  BY TypedParts
<1>2. /\ u \in Seq(Actors) /\ u # <<>>
      /\ s # <<>> => u = s
      /\ s = <<>> => u = <<a>>
  BY <1>1, StartedFacts
<1>3. /\ Opened(c)' <=> t # <<>>
      /\ Last(c)' = Back(t)
      /\ Straight(c)' <=> Simple(t)
      /\ \A x \in Actors : Awaits(x, c)' <=> x \in Inner(t)
      /\ \A x, y : Behind(x, y, c)' <=> <<x, y>> \in Pairs(t)
  BY ChainPrimes
<1>4. /\ \A x \in Actors : Awaits(x, c) <=> x \in Inner(s)
      /\ \A x, y : Behind(x, y, c) <=> <<x, y>> \in Pairs(s)
      /\ Straight(c) <=> Simple(s)
      /\ Opened(c) <=> s # <<>>
      /\ Last(c) = Back(s)
  BY DEF Awaits, Behind, Straight, Opened, Last
<1>5. \A d \in CallIds \ {c} : ChainSame(d)
  BY <1>1, ChainsSame
<1> HIDE DEF s, u, t
<1>6. /\ Inner(u) = Inner(s) /\ Pairs(u) = Pairs(s) /\ Simple(u) /\ Back(u) = a
      /\ u[1] = IF Opened(c) THEN s[1] ELSE a
  <2>1. CASE s # <<>>
    BY <1>2, <1>4, <2>1
  <2>2. CASE s = <<>>
    BY <1>2, <1>4, <2>2, ChainOne, ChainNone
  <2> QED
    BY <2>1, <2>2
<1>7. /\ Inner(t) = Inner(u) \cup {Back(u)}
      /\ Pairs(t) = Pairs(u) \cup {<<Back(u), to>>}
      /\ Back(t) = to /\ t # <<>> /\ t[1] = u[1]
      /\ Simple(u) /\ Back(u) \notin Inner(u) => Simple(t)
  BY <1>1, <1>2, ChainAppend
<1>8. \A x, y : <<x, y>> = <<a, to>> <=> x = a /\ y = to
  OBVIOUS
<1> QED
  BY <1>3, <1>4, <1>5, <1>6, <1>7, <1>8 DEF s, t

\* A request that is the last pack of its connection, and the only one.
LEMMA OnlyAsk ==
  ASSUME Typed, LastAsk, NEW a \in Actors, up[a] # <<>>, Head(up[a]).type = "REQUEST",
         up' = [up EXCEPT ![a] = Tail(@)]
  PROVE  up'[a] = <<>> /\ Asks(a) = {Head(up[a])} /\ Answers(a) = {}
<1> DEFINE s == up[a]
<1>1. s \in Seq(UpPack) /\ s # <<>> /\ Head(s).type = "REQUEST" /\ up'[a] = Tail(s)
  BY TypedParts
<1>2. \A i \in DOMAIN s : s[i].type = "REQUEST" => i = Len(s)
  BY DEF LastAsk
<1> HIDE DEF s
<1>3. Len(s) = 1
  <2>1. 1 \in DOMAIN s /\ Head(s) = s[1]
    BY <1>1, TailFacts
  <2> QED
    BY <1>1, <1>2, <2>1
<1>4. Tail(s) = <<>>
  <2> DEFINE t == Tail(s)
  <2>1. t \in Seq(UpPack) /\ Len(t) = 0
    BY <1>1, <1>3
  <2> HIDE DEF t
  <2>2. t # <<>> => Len(t) >= 1
    BY <2>1, TailFacts
  <2>3. t = <<>>
    BY <2>1, <2>2
  <2> QED
    BY <2>3 DEF t
<1>5. /\ Requests(s) = Requests(Tail(s))
               \cup (IF Head(s).type = "REQUEST" THEN {Head(s)} ELSE {})
      /\ Responses(s) = Responses(Tail(s))
               \cup (IF Head(s).type = "RESPONSE" THEN {Head(s)} ELSE {})
  BY <1>1, KindsTail
<1>6. Requests(s) = {Head(s)} /\ Responses(s) = {}
  BY <1>1, <1>4, <1>5, KindsNone
<1> QED
  BY <1>1, <1>4, <1>6 DEF s, Asks, Answers

\* What becomes of a request that the proxy reads: it is dropped ...
DroppedAt(a, c) ==
  /\ call_chain' = [call_chain EXCEPT ![c] = Started(@, a)]
  /\ down' = down /\ coro'[a].at = "read"
  /\ \A b \in Actors : Waiting(b)' <=> Waiting(b)

\* ... or goes to this process, which joins the chain.
HandedTo(a, p, to) ==
  /\ to # a /\ ~Waiting(to) /\ link[to] # "none"
  /\ p.svc \in DOMAIN ServiceMap /\ to \in Items(Peers(p.svc))
  /\ call_chain' = [call_chain EXCEPT ![p.call] = Append(Started(@, a), to)]
  /\ Transmit(to, p)
  /\ coro'[a].at = "request" /\ coro'[a].who = to /\ coro'[a].pack = p
  /\ coro'[a].ok <=> link[to] = "open"
  /\ \A b \in Actors : Waiting(b)' <=> (b = a \/ Waiting(b))

\* Neither the sender nor anybody who may get the request is waiting.
NobodyWaits(a, p) ==
  /\ ~Waiting(a)
  /\ p.svc \in DOMAIN ServiceMap =>
       \A q \in Items(Peers(p.svc)) : q # a /\ ~Waiting(q)

LEMMA RequestOutcome ==
  ASSUME Typed, AckInv, LineInv, NoRequestWaits, NEW a \in Actors,
         ReadRequest(a), NEW p \in Request, p = Head(up[a]), p.pid = a,
         ctx[a].phase \in {"up", "dead"}, NoRequestWaits' \/ NobodyWaits(a, p)
  PROVE  /\ DroppedAt(a, p.call) \/ \E to \in Actors : HandedTo(a, p, to)
         /\ NoRequestWaits'
<1> SUFFICES ASSUME NEW m, m = Queued(p), NEW r, r = HandleRequest(m, a)
             PROVE  /\ DroppedAt(a, p.call) \/ \E to \in Actors : HandedTo(a, p, to)
                    /\ NoRequestWaits'
  OBVIOUS
<1>1. /\ m \in MapsType
      /\ m = [[Maps EXCEPT !.chain[p.call] = Started(@, p.pid)]
                EXCEPT !.info[p.pid].msg_queue = Append(@, p)]
      /\ Queues(m) = [Queues(Maps) EXCEPT ![a] = Append(@, p)]
      /\ m.chain = [call_chain EXCEPT ![p.call] = Started(@, a)]
  BY QueuedFacts
<1>2. Suspend(a, r, "request", NoCall)
  BY <1>1 DEF ReadRequest
<1>3. /\ Maps \in MapsType /\ Maps.info = actor_info /\ coro \in [Actors -> Frame]
      /\ actor_info_map \in [Nodes -> Seq(Actors)] /\ p.call \in CallIds
      /\ call_chain \in [CallIds -> Seq(Actors)]
  BY TypedParts, RequestFields
<1>4. Queues(m)[a] = <<p>>
  <2>1. Queues(Maps) \in [Actors -> Seq(Request)] /\ Queues(Maps)[a] = <<>>
    BY <1>3, MapsFields DEF NoRequestWaits
  <2>2. Queues(m)[a] = Append(<<>>, p)
    BY <1>1, <2>1
  <2>3. Append(<<>>, p) = <<p>>
    OBVIOUS
  <2> QED
    BY <2>2, <2>3
<1>5. /\ r \in ResultType /\ r.maps \in MapsType
      /\ actor_info' = r.maps.info /\ call_chain' = r.maps.chain
  <2>1. r \in ResultType
    BY <1>1, <1>3, HandleFacts
  <2> QED
    BY <1>2, <2>1 DEF Suspend, ResultType
<1>6. Waits(m) = Waits(Maps)
  <2> DEFINE s == Started(call_chain[p.call], p.pid)
             first == WithChain(Maps, p.call, s)
             q == Append(actor_info[p.pid].msg_queue, p)
  <2>1. s \in Seq(Actors)
    BY <1>3, StartedFacts
  <2>2. q \in Seq(Request) /\ m = WithQueue(first, a, q)
    <3>1. actor_info[p.pid].msg_queue = <<>> /\ <<>> \in Seq(Request)
      BY DEF NoRequestWaits
    <3>2. q \in Seq(Request)
      BY <3>1, AppendFacts
    <3>3. m = WithQueue(first, a, q)
      BY DEF Queued
    <3> QED
      BY <3>2, <3>3
  <2> HIDE DEF s, q
  <2>3. first \in MapsType /\ Waits(first) = Waits(Maps)
    BY <1>3, <2>1, ChainFacts, ChainWaits
  <2> HIDE DEF first
  <2> QED
    BY <2>2, <2>3, QueueWaits
<1>7. \A b \in Actors : /\ Waiting(b) <=> Waits(m)[b]
                        /\ Waiting(b)' <=> Waits(r.maps)[b]
  <2>1. \A b \in Actors : /\ Waiting(b) <=> Waits(Maps)[b]
                          /\ Waiting(b)' <=> Waits(r.maps)[b]
    BY <1>3, <1>5, MapsWaiting
  <2> QED
    BY <1>6, <2>1
<1>8. NoneQueued(r.maps) \/ FreeToTake(m, a, p)
  <2>1. CASE NoRequestWaits'
    <3>1. \A b \in Actors : r.maps.info[b].msg_queue = <<>>
      BY <1>5, <2>1 DEF NoRequestWaits
    <3> QED
      BY <1>5, <3>1, MapsFields DEF NoneQueued
  <2>2. CASE NobodyWaits(a, p)
    <3>1. ~Waits(m)[a]
      BY <1>7, <2>2 DEF NobodyWaits
    <3>2. ASSUME p.svc \in DOMAIN ServiceMap, NEW q \in Items(Peers(p.svc))
          PROVE  q # p.pid /\ ~Waits(m)[q]
      <4>1. q \in Actors
        BY <1>3, <3>2, PeersFacts DEF Items
      <4>2. q # a /\ ~Waiting(q)
        BY <2>2, <3>2 DEF NobodyWaits
      <4> QED
        BY <1>7, <4>1, <4>2
    <3> QED
      BY <3>1, <3>2 DEF FreeToTake, FreePeers
  <2> QED
    BY <2>1, <2>2
<1>9. /\ \/ ~r.writes /\ r.maps.chain = m.chain /\ Waits(r.maps) = Waits(m)
         \/ \E to \in Actors : ForwardedTo(m, p, r, to)
      /\ Queues(r.maps) = [Queues(m) EXCEPT ![a] = <<>>]
  <2>1. /\ actor_info_map \in [Nodes -> Seq(Actors)] /\ m \in MapsType /\ a \in Actors
        /\ p \in Request /\ Queues(m)[a] = <<p>> /\ r = HandleRequest(m, a)
        /\ NoneQueued(r.maps) \/ FreeToTake(m, a, p)
    BY <1>1, <1>3, <1>4, <1>8
  <2> QED
    BY ONLY <2>1, HandleWaits
<1>10. ASSUME ~r.writes, r.maps.chain = m.chain, Waits(r.maps) = Waits(m)
       PROVE  DroppedAt(a, p.call)
  <2>1. down' = down /\ AwaitPack(a)
    BY <1>2, <1>10 DEF Suspend
  <2>2. coro'[a].at = "read"
    BY <1>3, <2>1 DEF AwaitPack, Idle
  <2>3. \A b \in Actors : Waiting(b)' <=> Waiting(b)
    <3>1. \A b \in Actors : Waits(r.maps)[b] <=> Waits(m)[b]
      BY <1>10
    <3> QED
      BY <1>7, <3>1
  <2> QED
    BY <1>1, <1>5, <1>10, <2>1, <2>2, <2>3 DEF DroppedAt
<1>11. ASSUME NEW to \in Actors, ForwardedTo(m, p, r, to)
       PROVE  HandedTo(a, p, to)
  <2>0. /\ to # p.pid /\ ~Waits(m)[to] /\ r.writes /\ r.to = to /\ r.pack = p
        /\ p.svc \in DOMAIN ServiceMap /\ to \in Items(Peers(p.svc))
        /\ r.maps.chain = [m.chain EXCEPT ![p.call] = Append(@, to)]
        /\ \A b \in Actors : Waits(r.maps)[b] = (b = p.pid \/ Waits(m)[b])
    BY <1>11 DEF ForwardedTo
  <2>1. /\ to # a /\ ~Waits(m)[to] /\ r.writes /\ r.to = to /\ r.pack = p
        /\ p.svc \in DOMAIN ServiceMap /\ to \in Items(Peers(p.svc))
        /\ r.maps.chain = [m.chain EXCEPT ![p.call] = Append(@, to)]
        /\ \A b \in Actors : Waits(r.maps)[b] = (b = a \/ Waits(m)[b])
    BY <2>0
  <2>2. /\ Transmit(to, p)
        /\ AwaitWrite(a, [at |-> "request", call |-> NoCall, who |-> to,
                          pack |-> p, ok |-> link[to] = "open"])
    BY <1>2, <2>1 DEF Suspend
  <2>3. /\ coro'[a].at = "request" /\ coro'[a].who = to /\ coro'[a].pack = p
        /\ coro'[a].ok <=> link[to] = "open"
    BY <1>3, <2>2 DEF AwaitWrite
  <2>4. /\ \A b \in Actors : Waiting(b)' <=> (b = a \/ Waiting(b))
        /\ ~Waiting(to)
    BY <1>7, <2>1
  <2>5. link[to] # "none"
    <3>1. AckedChains(m.chain)
      <4>1. Acked(a) /\ AckedChains(call_chain)
        BY DEF Acked, AckInv
      <4>2. ASSUME NEW c \in CallIds, NEW i \in DOMAIN m.chain[c]
            PROVE  Acked(m.chain[c][i])
        <5>1. m.chain[c] = call_chain[c] \/ m.chain[c] = <<a>>
          BY <1>1, <1>3 DEF Started
        <5> QED
          BY <4>1, <4>2, <5>1 DEF AckedChains
      <4> QED
        BY <4>2 DEF AckedChains
    <3>2. Acked(to)
      BY <1>1, <2>1, <3>1, HandleAcked
    <3> QED
      BY <3>2 DEF Acked, LineInv, LinkRight
  <2>6. call_chain' = [call_chain EXCEPT ![p.call] = Append(Started(@, a), to)]
    <3> DEFINE f == call_chain
               g == m.chain
               h == call_chain'
               i == p.call
               u == Started(f[i], a)
    <3>1. /\ f \in [CallIds -> Seq(Actors)] /\ i \in CallIds /\ g = [f EXCEPT ![i] = u]
          /\ h = [g EXCEPT ![i] = Append(@, to)]
      BY <1>1, <1>3, <1>5, <2>1
    <3> HIDE DEF f, g, h, i, u
    <3>2. h = [f EXCEPT ![i] = Append(u, to)]
      BY <3>1
    <3> QED
      BY <3>2 DEF f, h, i, u
  <2> QED
    BY <2>1, <2>2, <2>3, <2>4, <2>5, <2>6 DEF HandedTo
<1>12. NoRequestWaits'
  <2>1. \A b \in Actors : Queues(r.maps)[b] = <<>>
    <3>1. \A b \in Actors \ {a} : Queues(m)[b] = <<>>
      <4>1. Queues(Maps) \in [Actors -> Seq(Request)] /\ \A b \in Actors : Queues(Maps)[b] = <<>>
        BY <1>3, MapsFields DEF NoRequestWaits
      <4> QED
        BY <1>1, <4>1
    <3>2. Queues(m) \in [Actors -> Seq(Request)]
      BY <1>1, MapsFields
    <3> QED
      BY <1>9, <3>1, <3>2
  <2>2. \A b \in Actors : actor_info'[b].msg_queue = Queues(r.maps)[b]
    BY <1>5, MapsFields
  <2> QED
    BY <2>1, <2>2 DEF NoRequestWaits
<1> QED
  BY <1>9, <1>10, <1>11, <1>12

\* A request taken from connection a: its process waits for nobody else in a
\* chain, and is at the end of the chain of this call if there is one.
LEMMA RequestFacts ==
  ASSUME Typed, AckInv, LineInv, PacksInv, CallsInv, NEW a \in Actors,
         ReadRequest(a), NEW p, p = Head(up[a]), NEW c, c = p.call
  PROVE  /\ p \in Asks(a) /\ p \in Request /\ p.type = "REQUEST" /\ c \in CallIds
         /\ p.pid = a /\ p.req[1] = a
         /\ ~Opened(c) => c[1] = a
         /\ Opened(c) => Last(c) = a /\ ~Spent(c)
         /\ \A d \in CallIds : ~Awaits(a, d)
         /\ up[a] # <<>> /\ up' = [up EXCEPT ![a] = Tail(@)] /\ up'[a] = <<>>
         /\ Asks(a) = {p} /\ Answers(a) = {}
         /\ coro[a].at = "read" /\ link' = link /\ ResumedStep(a)
         /\ ctx[a].phase \in {"up", "dead"}
<1>1. Reads(a, "REQUEST") /\ link' = link /\ ResumedStep(a)
  BY DEF ReadRequest, ResumedStep
<1>2. /\ up[a] # <<>> /\ p.type = "REQUEST" /\ coro[a].at = "read"
      /\ up' = [up EXCEPT ![a] = Tail(@)]
  BY <1>1 DEF Reads, Resumes
<1>3. up[a] \in Seq(UpPack)
  BY TypedParts
<1>4. up'[a] = <<>> /\ Asks(a) = {p} /\ Answers(a) = {}
  BY <1>2, OnlyAsk DEF CallsInv, PlacesRight
<1>5. p \in Request /\ p \in Packs(a) /\ c \in CallIds
  BY <1>4, PacksTyped DEF Packs
<1>6. /\ p.pid = a /\ p.req[1] = a
      /\ ~Opened(c) => c[1] = a
      /\ Opened(c) => Last(c) = a
  BY <1>4 DEF CallsInv, PlacesRight, Asking
<1>7. \A d \in CallIds : ~Awaits(a, d)
  BY <1>2 DEF CallsInv, ChainsRight, AwaitsRight, Silent
<1>8. Opened(c) => ~Spent(c)
  BY <1>4, <1>6 DEF Spent
<1>9. ctx[a].phase \in {"up", "dead"}
  <2>1. 1 \in DOMAIN up[a] /\ up[a][1] = p
    BY <1>2, <1>3, TailFacts
  <2> QED
    BY <1>2, <2>1 DEF AckInv, AckedAsk
<1> QED
  BY <1>1, <1>2, <1>4, <1>5, <1>6, <1>7, <1>8, <1>9

\* The packs after a request has been taken, and sent on if it can be.
LEMMA AskedPacks ==
  ASSUME Typed, NEW a \in Actors, \A b \in Actors \ {a} : up'[b] = up[b],
         up'[a] = <<>>, ctx' = ctx, NEW p \in Request, NEW to \in Actors,
         down' = down \/ Transmit(to, p)
  PROVE  /\ Asks(a)' = {} /\ Answers(a)' = {}
         /\ \A b \in Actors :
              /\ b # a => /\ up'[b] = up[b] /\ Asks(b)' = Asks(b)
                          /\ Answers(b)' = Answers(b)
              /\ Gets(b)' = Gets(b)
              /\ Works(b) \subseteq Works(b)' /\ Works(b)' \subseteq Works(b) \cup {p}
              /\ b # to \/ down' = down => Works(b)' = Works(b)
         /\ (Transmit(to, p) /\ link[to] = "open") => p \in Works(to)'
<1>1. /\ up \in [Actors -> Seq(UpPack)]
      /\ down \in [Actors -> Seq(DownPack)] /\ down[to] \in Seq(DownPack)
      /\ p \in DownPack /\ p.type = "REQUEST"
  BY TypedParts DEF DownPack, Request
<1>2. \A b \in Actors \ {a} : up'[b] = up[b]
  OBVIOUS
<1>3. Requests(up'[a]) = {} /\ Responses(up'[a]) = {}
  BY KindsNone
<1>4. /\ Requests(Append(down[to], p)) = Requests(down[to]) \cup {p}
      /\ Responses(Append(down[to], p)) = Responses(down[to])
  <2>0. p \in DownPack /\ down[to] \in Seq(DownPack)
    BY <1>1
  <2>1. /\ Requests(Append(down[to], p)) = Requests(down[to])
             \cup (IF p.type = "REQUEST" THEN {p} ELSE {})
        /\ Responses(Append(down[to], p)) = Responses(down[to])
             \cup (IF p.type = "RESPONSE" THEN {p} ELSE {})
    BY ONLY <2>0, KindsAppend
  <2> QED
    BY <1>1, <2>1
<1>5. \A b \in Actors :
        /\ Responses(down'[b]) = Responses(down[b])
        /\ Requests(down[b]) \subseteq Requests(down'[b])
        /\ Requests(down'[b]) \subseteq Requests(down[b]) \cup {p}
        /\ b # to => down'[b] = down[b]
  <2>1. \A b \in Actors : /\ b # to => down'[b] = down[b]
                          /\ down'[b] = down[b] \/ down'[b] = Append(down[to], p)
    BY <1>1 DEF Transmit
  <2> QED
    BY <1>4, <2>1
<1>6. (Transmit(to, p) /\ link[to] = "open") => p \in Requests(down'[to])
  BY <1>1, <1>4 DEF Transmit
<1> QED
  BY <1>2, <1>3, <1>5, <1>6, PacksPrimes DEF Asks, Answers, Works, Gets

\* What the two outcomes have in common: a pack of the request is read, and
\* none of another.
LEMMA AskedCalls ==
  ASSUME Typed, AckInv, LineInv, PacksInv, CallsInv, NEW a \in Actors,
         ReadRequest(a), ctx' = ctx, NEW p, p = Head(up[a]),
         NEW to \in Actors, down' = down \/ Transmit(to, p)
  PROVE  /\ OneCall' /\ Awaited' /\ LastAsk' /\ Apart' /\ Getting'
         /\ \A b \in Actors : CallIdRight(b)'
<1>1. /\ p \in Asks(a) /\ p \in Request
      /\ up' = [up EXCEPT ![a] = Tail(@)] /\ up'[a] = <<>> /\ up[a] # <<>>
  BY RequestFacts
<1>2. /\ OneCall /\ Awaited /\ PlacesRight /\ \A b \in Actors : CallIdRight(b)
  BY DEF CallsInv
<1>3. /\ Asks(a)' = {} /\ Answers(a)' = {}
      /\ \A b \in Actors :
           /\ b # a => Asks(b)' = Asks(b) /\ Answers(b)' = Answers(b)
           /\ Gets(b)' = Gets(b) /\ Works(b)' \subseteq Works(b) \cup {p}
  <2>1. \A b \in Actors \ {a} : up'[b] = up[b]
    BY <1>1, TypedParts
  <2> QED
    BY <1>1, <2>1, AskedPacks
<1>4. \A b \in Actors : \A q \in Packs(b)' : \E d \in Actors : q \in Packs(d)
  <2>1. p \in Packs(a)
    BY <1>1 DEF Packs
  <2>2. \A b \in Actors : \A q \in Packs(b)' : q \in Packs(b) \/ q = p
    BY <1>3, PacksPrimes DEF Packs
  <2> QED
    BY <2>1, <2>2
<1>5. OneCall'
  BY <1>2, <1>4 DEF OneCall
<1>6. Awaited'
  BY <1>2, <1>4 DEF Awaited
<1>7. LastAsk'
  BY <1>1, <1>2, LastAskTail DEF PlacesRight
<1>8. Apart' /\ Getting'
  BY <1>2, <1>3 DEF PlacesRight, Apart, Getting
<1>9. \A b \in Actors : CallIdRight(b)'
  BY <1>2 DEF CallIdRight
<1> QED
  BY <1>5, <1>6, <1>7, <1>8, <1>9

\* A coroutine that has written a response frees somebody else, of another
\* call than the one of the request that is read.
LEMMA RepliesApart ==
  ASSUME Typed, CallsInv, NEW a \in Actors, ResumedStep(a), up[a] # <<>>,
         coro[a].at = "read", NEW x \in Actors, coro[x].at = "reply"
  PROVE  x # a /\ coro[x].call \in CallIds /\ Last(coro[x].call) # a
<1>1. x # a /\ coro[x].call \in CallIds
  BY TypedParts DEF FrameSet
<1>2. ASSUME Last(coro[x].call) = a PROVE FALSE
  <2>1. Earlier(x, a)
    BY <1>1, <1>2 DEF CallsInv, FramesMatch, Replying
  <2>2. runq \in Seq(Actors) /\ runq # <<>> /\ Head(runq) = a
    BY ResumedFacts, TypedParts
  <2> QED
    BY <2>1, <2>2, AheadFacts DEF Earlier
<1> QED
  BY <1>1, <1>2

LEMMA DroppedCalls ==
  ASSUME Typed, AckInv, LineInv, PacksInv, CallsInv, NEW a \in Actors,
         ReadRequest(a), UNCHANGED ctx, DroppedAt(a, Head(up[a]).call)
  PROVE  CallsInv'
<1> SUFFICES ASSUME NEW p, p = Head(up[a]), NEW c, c = p.call
             PROVE  CallsInv'
  OBVIOUS
<1>1. /\ p \in Asks(a) /\ p \in Request /\ c \in CallIds
      /\ ~Opened(c) => c[1] = a
      /\ Opened(c) => Last(c) = a
      /\ \A d \in CallIds : ~Awaits(a, d)
      /\ up[a] # <<>> /\ up' = [up EXCEPT ![a] = Tail(@)] /\ up'[a] = <<>>
      /\ coro[a].at = "read" /\ link' = link /\ ResumedStep(a)
  BY RequestFacts
<1>2. /\ call_chain' = [call_chain EXCEPT ![c] = Started(@, a)]
      /\ down' = down /\ coro'[a].at = "read"
      /\ \A b \in Actors : (Waiting(b)' <=> Waiting(b)) /\ link'[b] = link[b]
  BY <1>1 DEF DroppedAt
<1>3. /\ PlacesRight /\ ChainsRight /\ FramesMatch /\ WaitsRight
  BY DEF CallsInv
<1>4. /\ \A d \in CallIds : Opened(d) \/ d # c => ChainSame(d)
      /\ ~Opened(c) => call_chain'[c][1] = a
      /\ Straight(c)'
      /\ \A d \in CallIds : \A x \in Actors : Awaits(x, d)' <=> Awaits(x, d)
      /\ \A d \in CallIds : \A x, y : Behind(x, y, d)' <=> Behind(x, y, d)
  <2>1. Straight(c)
    BY <1>1, <1>3 DEF ChainsRight, NoLoop
  <2> QED
    BY <1>1, <1>2, <2>1, StartedChains
<1>5. /\ OneCall' /\ Awaited' /\ LastAsk' /\ Apart' /\ Getting'
      /\ \A b \in Actors : CallIdRight(b)'
  BY <1>1, <1>2, AskedCalls
<1>6. /\ Asks(a)' = {} /\ Answers(a)' = {}
      /\ \A b \in Actors :
           /\ b # a => /\ up'[b] = up[b] /\ Asks(b)' = Asks(b)
                       /\ Answers(b)' = Answers(b)
           /\ Gets(b)' = Gets(b) /\ Works(b)' = Works(b)
  <2>1. \A b \in Actors \ {a} : up'[b] = up[b]
    BY <1>1, TypedParts
  <2> QED
    BY <1>1, <1>2, <2>1, AskedPacks
<1>7. \A b \in Actors \ {a} : coro'[b] = coro[b]
  <2>1. /\ runq # <<>> /\ Head(runq) = a /\ Ends(a) /\ Distinct(runq)
    BY <1>1, ResumedFacts DEF LineInv
  <2> QED
    BY <2>1, EndsFacts
<1>8. \A d \in CallIds : Opened(d) /\ Spent(d) => Spent(d)'
  <2>1. \A b \in Actors : Asks(b)' \subseteq Asks(b) /\ Answers(b)' \subseteq Answers(b)
    BY <1>6
  <2> QED
    BY <1>2, <1>4, <2>1, SpentStays DEF ChainSame
<1>9. \A b \in Actors : \A d \in CallIds : Awaits(b, d) => Opened(d) /\ ChainSame(d)
  BY <1>4, ChainView
<1>10. PlacesRight'
  <2>1. \A b \in Actors : \A q \in Asks(b) \cup Answers(b) \cup Works(b) : q.call \in CallIds
    BY PacksTyped DEF Packs
  <2>2. Placed'
    BY <1>2, <1>3, <1>4, <1>6, <2>1 DEF PlacesRight, Placed
  <2>3. Answering'
    <3>1. SUFFICES ASSUME NEW b \in Actors, NEW q \in Answers(b)'
                   PROVE  Joined(q.call)' /\ Last(q.call)' = b /\ Prev(q.call)' = q.req[1]
      BY DEF Answering
    <3>2. /\ Joined(q.call) /\ Last(q.call) = b /\ Prev(q.call) = q.req[1]
          /\ q.call \in CallIds
      BY <1>3, <1>6, <2>1, <3>1 DEF PlacesRight, Answering
    <3>3. ChainSame(q.call)
      BY <1>4, <3>2, ChainView
    <3> QED
      BY <3>2, <3>3 DEF ChainSame
  <2>4. Asking'
    <3>1. SUFFICES ASSUME NEW b \in Actors, NEW q \in Asks(b)'
                   PROVE  /\ q.pid = b /\ q.req[1] = b
                          /\ ~Opened(q.call)' => q.call[1] = b
                          /\ Opened(q.call)' => Last(q.call)' = b
      BY DEF Asking
    <3>2. /\ b # a /\ q.pid = b /\ q.req[1] = b /\ q.call \in CallIds
          /\ ~Opened(q.call) => q.call[1] = b
          /\ Opened(q.call) => Last(q.call) = b
      BY <1>3, <1>6, <2>1, <3>1 DEF PlacesRight, Asking
    <3>3. ChainSame(q.call)
      BY <1>1, <1>4, <3>2
    <3> QED
      BY <3>2, <3>3 DEF ChainSame
  <2> QED
    BY <1>5, <2>2, <2>3, <2>4 DEF PlacesRight
<1>11. ChainsRight'
  <2>1. Starts'
    <3>1. ASSUME NEW d \in CallIds, Opened(d)' PROVE call_chain'[d][1] = d[1]
      <4>1. CASE Opened(d) \/ d # c
        <5>1. Opened(d) /\ call_chain'[d] = call_chain[d]
          BY <1>4, <3>1, <4>1 DEF ChainSame
        <5> QED
          BY <1>3, <5>1 DEF ChainsRight, Starts
      <4>2. CASE ~Opened(d) /\ d = c
        BY <1>1, <1>4, <4>2
      <4> QED
        BY <4>1, <4>2
    <3> QED
      BY <3>1 DEF Starts
  <2>2. NoLoop'
    <3>1. SUFFICES ASSUME NEW d \in CallIds
                   PROVE  /\ Straight(d)'
                          /\ \A e \in Actors : (Opened(d)' /\ Last(d)' = e /\ Awaits(e, d)')
                                                 => Spent(d)'
      BY DEF NoLoop
    <3>2. Straight(d)'
      BY <1>3, <1>4 DEF ChainsRight, NoLoop, ChainSame
    <3>3. ASSUME NEW e \in Actors, Last(d)' = e, Awaits(e, d)' PROVE Spent(d)'
      <4>1. Awaits(e, d) /\ Opened(d) /\ ChainSame(d)
        BY <1>4, <1>9, <3>3
      <4>2. Last(d) = e
        BY <3>3, <4>1 DEF ChainSame
      <4> QED
        BY <1>3, <1>8, <4>1, <4>2 DEF ChainsRight, NoLoop
    <3> QED
      BY <3>2, <3>3
  <2>3. ASSUME NEW b \in Actors, NEW d \in CallIds, Awaits(b, d)'
        PROVE  /\ Silent(b)'
               /\ \A e \in CallIds : Awaits(b, e)' => d = e
               /\ (~Waiting(b)' /\ link'[b] # "cut") => Spent(d)'
    <3>1. /\ Silent(b) /\ \A e \in CallIds : Awaits(b, e) => d = e
          /\ (~Waiting(b) /\ link[b] # "cut") => Spent(d)
      BY <1>3, <1>4, <2>3 DEF ChainsRight, AwaitsRight
    <3>2. b # a
      BY <1>1, <3>1 DEF Silent
    <3>3. Silent(b)'
      BY <1>2, <1>6, <1>7, <3>1, <3>2 DEF Silent
    <3> QED
      BY <1>2, <1>4, <1>8, <1>9, <2>3, <3>1, <3>3
  <2>4. AwaitsRight'
    BY <2>3 DEF AwaitsRight
  <2> QED
    BY <2>1, <2>2, <2>4 DEF ChainsRight
<1>12. ASSUME NEW b \in Actors
       PROVE  Replying(b)' /\ Failing(b)' /\ coro'[b].at # "self"
  <2>1. Replying(b) /\ Failing(b) /\ coro[b].at # "self"
    BY <1>3 DEF FramesMatch
  <2>2. CASE b = a
    BY <1>2, <2>2 DEF Replying, Failing
  <2>3. CASE b # a
    <3>1. coro'[b] = coro[b]
      BY <1>7, <2>3
    <3>2. Replying(b)'
      <4>1. SUFFICES ASSUME coro'[b].at = "reply", NEW d \in CallIds, coro'[b].call = d
                     PROVE  /\ coro'[b].who = b /\ Opened(d)'
                            /\ \A e \in Actors : Last(d)' = e =>
                                 /\ \A f \in CallIds : ~Awaits(e, f)'
                                 /\ (coro'[e].at = "read" /\ up'[e] # <<>>)
                                      => Earlier(b, e)'
        BY <2>1, <3>1 DEF Replying
      <4>2. /\ coro[b].who = b /\ Opened(d)
            /\ \A e \in Actors : Last(d) = e =>
                 /\ \A f \in CallIds : ~Awaits(e, f)
                 /\ (coro[e].at = "read" /\ up[e] # <<>>) => Earlier(b, e)
        BY <2>1, <3>1, <4>1 DEF Replying
      <4>3. ChainSame(d)
        BY <1>4, <4>2
      <4>4. ASSUME NEW e \in Actors, coro'[e].at = "read", up'[e] # <<>>,
                   (coro[e].at = "read" /\ up[e] # <<>>) => Earlier(b, e)
            PROVE  Earlier(b, e)'
        BY <1>1, <2>3, <4>1, <4>4, EarlierStays
      <4> QED
        BY <1>4, <3>1, <4>2, <4>3, <4>4 DEF ChainSame
    <3>3. Failing(b)'
      <4>1. SUFFICES ASSUME coro[b].at = "request", ~coro[b].ok PROVE Failing(b)'
        BY <3>1 DEF Failing
      <4>2. /\ coro[b].pack.pid = b /\ link[coro[b].who] = "cut"
            /\ \A d \in CallIds : Awaits(b, d) => Spent(d)
        BY <2>1, <4>1 DEF Failing
      <4>3. \A d \in CallIds : Awaits(b, d)' => Spent(d)'
        BY <1>4, <1>8, <1>9, <4>2
      <4> QED
        BY <1>1, <3>1, <4>2, <4>3 DEF Failing
    <3> QED
      BY <2>1, <3>1, <3>2, <3>3
  <2> QED
    BY <2>2, <2>3
<1>13. WaitsRight'
  <2>1. SUFFICES ASSUME NEW b \in Actors, Waiting(b)
                 PROVE  (\E d \in CallIds : Awaits(b, d)') \/ Freeing(b)'
    BY <1>2 DEF WaitsRight
  <2>2. CASE \E d \in CallIds : Awaits(b, d)
    BY <1>4, <2>2
  <2>3. CASE Freeing(b)
    <3>1. PICK x \in Actors : \E d \in CallIds :
            coro[x].at = "reply" /\ coro[x].call = d /\ Last(d) = b
      BY <2>3 DEF Freeing
    <3>2. PICK d \in CallIds : coro[x].at = "reply" /\ coro[x].call = d /\ Last(d) = b
      BY <3>1
    <3>3. coro'[x] = coro[x]
      BY <1>1, <1>7, <3>2
    <3>4. Opened(d)
      BY <1>3, <3>2 DEF FramesMatch, Replying
    <3>5. Last(d)' = b
      BY <1>4, <3>2, <3>4 DEF ChainSame
    <3> QED
      BY <3>2, <3>3, <3>5 DEF Freeing
  <2> QED
    BY <1>3, <2>1, <2>2, <2>3 DEF WaitsRight
<1> QED
  BY <1>5, <1>10, <1>11, <1>12, <1>13 DEF CallsInv, FramesMatch

\* The process that the request is handed to waits in no chain that somebody
\* will pop, so the chain does not come back to it.
LEMMA HandedCalls ==
  ASSUME Typed, AckInv, LineInv, PacksInv, CallsInv, NEW a \in Actors,
         ReadRequest(a), UNCHANGED ctx, NEW to \in Actors,
         HandedTo(a, Head(up[a]), to)
  PROVE  CallsInv'
<1> SUFFICES ASSUME NEW p, p = Head(up[a]), NEW c, c = p.call
             PROVE  CallsInv'
  OBVIOUS
<1>1. /\ p \in Asks(a) /\ p \in Request /\ c \in CallIds /\ p.req[1] = a
      /\ ~Opened(c) => c[1] = a
      /\ Opened(c) => Last(c) = a /\ ~Spent(c)
      /\ \A d \in CallIds : ~Awaits(a, d)
      /\ up[a] # <<>> /\ up' = [up EXCEPT ![a] = Tail(@)] /\ up'[a] = <<>>
      /\ coro[a].at = "read" /\ link' = link /\ ResumedStep(a)
      /\ ctx[a].phase \in {"up", "dead"}
  BY RequestFacts
<1>2. /\ to # a /\ ~Waiting(to) /\ link[to] # "none" /\ Transmit(to, p)
      /\ call_chain' = [call_chain EXCEPT ![c] = Append(Started(@, a), to)]
      /\ coro'[a].at = "request" /\ coro'[a].who = to /\ coro'[a].pack = p
      /\ coro'[a].ok <=> link[to] = "open"
      /\ \A b \in Actors : (Waiting(b)' <=> (b = a \/ Waiting(b))) /\ link'[b] = link[b]
  BY <1>1 DEF HandedTo
<1>3. /\ OneCall /\ Awaited /\ PlacesRight /\ ChainsRight /\ FramesMatch /\ WaitsRight
  BY DEF CallsInv
<1>4. /\ \A d \in CallIds \ {c} : ChainSame(d)
      /\ Opened(c)' /\ Last(c)' = to /\ Straight(c)'
      /\ call_chain'[c][1] = IF Opened(c) THEN call_chain[c][1] ELSE a
      /\ \A x \in Actors : Awaits(x, c)' <=> (Awaits(x, c) \/ x = a)
      /\ \A x, y : Behind(x, y, c)' <=> Behind(x, y, c) \/ (x = a /\ y = to)
  <2>1. Straight(c) /\ (Opened(c) => Last(c) = a) /\ ~Awaits(a, c)
    BY <1>1, <1>3 DEF ChainsRight, NoLoop
  <2>2. /\ Typed /\ c \in CallIds /\ a \in Actors /\ to \in Actors
        /\ call_chain' = [call_chain EXCEPT ![c] = Append(Started(@, a), to)]
    BY <1>1, <1>2
  <2> QED
    BY ONLY <2>1, <2>2, JoinedChains
<1>5. /\ OneCall' /\ Awaited' /\ LastAsk' /\ Apart' /\ Getting'
      /\ \A b \in Actors : CallIdRight(b)'
  BY <1>1, <1>2, AskedCalls
<1>6. /\ Asks(a)' = {} /\ Answers(a)' = {}
      /\ \A b \in Actors :
           /\ b # a => /\ up'[b] = up[b] /\ Asks(b)' = Asks(b)
                       /\ Answers(b)' = Answers(b)
           /\ Gets(b)' = Gets(b) /\ Works(b)' \subseteq Works(b) \cup {p}
           /\ b # to => Works(b)' = Works(b)
  <2>1. \A b \in Actors \ {a} : up'[b] = up[b]
    BY <1>1, TypedParts
  <2>2. ctx' = ctx /\ Transmit(to, p)
    BY <1>2
  <2> QED
    BY <1>1, <2>1, <2>2, AskedPacks
<1>7. \A b \in Actors \ {a} : coro'[b] = coro[b]
  <2>1. /\ runq # <<>> /\ Head(runq) = a /\ Ends(a) /\ Distinct(runq)
    BY <1>1, ResumedFacts DEF LineInv
  <2> QED
    BY <2>1, EndsFacts
<1>8. \A b \in Actors : \A q \in Asks(b) \cup Answers(b) \cup Works(b) : q.call \in CallIds
  BY PacksTyped DEF Packs
<1>9. \A b \in Actors \ {a} : \A q \in Asks(b) \cup Answers(b) : q.call # c
  <2>1. ASSUME NEW b \in Actors \ {a}, NEW q \in Asks(b), q.call = c PROVE FALSE
    <3>1. /\ ~Opened(c) => c[1] = b
          /\ Opened(c) => Last(c) = b
      BY <1>3, <2>1 DEF PlacesRight, Asking
    <3> QED
      BY <1>1, <3>1
  <2>2. ASSUME NEW b \in Actors \ {a}, NEW q \in Answers(b), q.call = c PROVE FALSE
    <3>1. Joined(c) /\ Last(c) = b
      BY <1>3, <2>2 DEF PlacesRight, Answering
    <3>2. Opened(c)
      BY <1>1, <3>1, ChainView
    <3> QED
      BY <1>1, <3>1, <3>2
  <2> QED
    BY <2>1, <2>2
<1>10. /\ \A b \in Actors : \A d \in CallIds :
            /\ Awaits(b, d)' <=> (Awaits(b, d) \/ (b = a /\ d = c))
            /\ Awaits(b, d) => Opened(d)
            /\ Awaits(b, d) /\ Spent(d) => Spent(d)'
       /\ \A d \in CallIds \ {c} : Spent(d) => Spent(d)'
       /\ link[to] = "cut" => Spent(c)'
  <2>1. \A d \in CallIds \ {c} : Spent(d) => Spent(d)'
    <3>1. \A b \in Actors : Asks(b)' \subseteq Asks(b) /\ Answers(b)' \subseteq Answers(b)
      BY <1>6
    <3> QED
      BY <1>2, <1>4, <3>1, SpentStays DEF ChainSame
  <2>2. \A b \in Actors : \A d \in CallIds : Awaits(b, d) => Opened(d)
    BY ChainView
  <2>3. \A b \in Actors : \A d \in CallIds :
          Awaits(b, d)' <=> (Awaits(b, d) \/ (b = a /\ d = c))
    BY <1>1, <1>4 DEF ChainSame
  <2>4. ASSUME link[to] = "cut" PROVE Spent(c)'
    <3>1. \A q \in Asks(to)' \cup Answers(to)' : q.call # c
      BY <1>2, <1>6, <1>9
    <3>2. Last(c)' = to /\ link'[to] = "cut"
      BY <1>2, <1>4, <2>4
    <3> QED
      BY <3>1, <3>2 DEF Spent
  <2> QED
    BY <1>1, <2>1, <2>2, <2>3, <2>4
<1>11. PlacesRight'
  <2>1. Placed'
    <3>1. SUFFICES ASSUME NEW b \in Actors, link[b] = "open", NEW q \in Works(b)'
                   PROVE  Behind(q.req[1], b, q.call)'
      BY <1>2 DEF Placed
    <3>2. CASE q \in Works(b)
      <4>1. Behind(q.req[1], b, q.call) /\ q.call \in CallIds
        BY <1>3, <1>8, <3>1, <3>2 DEF PlacesRight, Placed
      <4> QED
        BY <1>4, <4>1 DEF ChainSame
    <3>3. CASE q = p /\ b = to
      BY <1>1, <1>4, <3>3
    <3> QED
      BY <1>6, <3>1, <3>2, <3>3
  <2>2. Answering'
    <3>1. SUFFICES ASSUME NEW b \in Actors, NEW q \in Answers(b)'
                   PROVE  Joined(q.call)' /\ Last(q.call)' = b /\ Prev(q.call)' = q.req[1]
      BY DEF Answering
    <3>2. b # a /\ q \in Answers(b)
      BY <1>6, <3>1
    <3>3. /\ Joined(q.call) /\ Last(q.call) = b /\ Prev(q.call) = q.req[1]
      BY <1>3, <3>2 DEF PlacesRight, Answering
    <3>4. ChainSame(q.call)
      BY <1>4, <1>8, <1>9, <3>2
    <3> QED
      BY <3>3, <3>4 DEF ChainSame
  <2>3. Asking'
    <3>1. SUFFICES ASSUME NEW b \in Actors, NEW q \in Asks(b)'
                   PROVE  /\ q.pid = b /\ q.req[1] = b
                          /\ ~Opened(q.call)' => q.call[1] = b
                          /\ Opened(q.call)' => Last(q.call)' = b
      BY DEF Asking
    <3>2. b # a /\ q \in Asks(b)
      BY <1>6, <3>1
    <3>3. /\ q.pid = b /\ q.req[1] = b
          /\ ~Opened(q.call) => q.call[1] = b
          /\ Opened(q.call) => Last(q.call) = b
      BY <1>3, <3>2 DEF PlacesRight, Asking
    <3>4. ChainSame(q.call)
      BY <1>4, <1>8, <1>9, <3>2
    <3> QED
      BY <3>3, <3>4 DEF ChainSame
  <2> QED
    BY <1>5, <2>1, <2>2, <2>3 DEF PlacesRight
<1>12. ChainsRight'
  <2>1. Starts'
    <3>1. ASSUME NEW d \in CallIds, Opened(d)' PROVE call_chain'[d][1] = d[1]
      <4>1. CASE d = c
        BY <1>1, <1>3, <1>4, <4>1 DEF ChainsRight, Starts
      <4>2. CASE d # c
        <5>1. Opened(d) /\ call_chain'[d] = call_chain[d]
          BY <1>4, <3>1, <4>2 DEF ChainSame
        <5> QED
          BY <1>3, <5>1 DEF ChainsRight, Starts
      <4> QED
        BY <4>1, <4>2
    <3> QED
      BY <3>1 DEF Starts
  <2>2. NoLoop'
    <3>1. ASSUME NEW d \in CallIds PROVE Straight(d)'
      BY <1>3, <1>4 DEF ChainsRight, NoLoop, ChainSame
    <3>2. ASSUME NEW d \in CallIds, NEW e \in Actors, Last(d)' = e, Awaits(e, d)'
          PROVE  Spent(d)'
      <4>1. CASE d = c
        <5>1. e = to /\ Awaits(to, c)
          BY <1>2, <1>4, <1>10, <3>2, <4>1
        <5>2. link[to] # "cut" => Spent(c)
          BY <1>1, <1>2, <1>3, <5>1 DEF ChainsRight, AwaitsRight
        <5>3. ~Spent(c)
          BY <1>1, <1>10, <5>1
        <5> QED
          BY <1>10, <4>1, <5>2, <5>3
      <4>2. CASE d # c
        <5>1. Awaits(e, d) /\ Opened(d) /\ Last(d) = e
          BY <1>4, <1>10, <3>2, <4>2 DEF ChainSame
        <5> QED
          BY <1>3, <1>10, <4>2, <5>1 DEF ChainsRight, NoLoop
      <4> QED
        BY <4>1, <4>2
    <3> QED
      BY <3>1, <3>2 DEF NoLoop
  <2>3. Silent(a)'
    <3>1. Gets(a) = {}
      <4>1. ASSUME NEW q \in Gets(a) PROVE FALSE
        <5>1. q.req[1] = p.req[1] /\ q \in Packs(a) /\ p \in Packs(a)
          BY <1>1, <1>3, <4>1 DEF PlacesRight, Getting, Packs
        <5>2. q.req = p.req
          BY <1>3, <5>1 DEF OneCall
        <5> QED
          BY <1>1, <4>1, <5>2, OnceFacts
      <4> QED
        BY <4>1
    <3>2. link[a] # "none"
      BY <1>1 DEF LineInv, LinkRight
    <3>3. ctx[a].phase = "up" => ctx[a].pending # NoReq
      <4>1. ASSUME ctx[a].phase = "up" PROVE ctx[a].pending = p.req
        BY <1>1, <1>3, <4>1 DEF Awaited, Packs
      <4>2. p.req \in Reqs
        BY <1>1, PacksTyped DEF Packs
      <4> QED
        BY <4>1, <4>2, CallConstantsAssumption
    <3> QED
      BY <1>1, <1>2, <1>6, <3>1, <3>2, <3>3 DEF Silent
  <2>4. ASSUME NEW b \in Actors \ {a}, NEW d \in CallIds, Awaits(b, d)
        PROVE  /\ Silent(b)'
               /\ \A e \in CallIds : Awaits(b, e)' => d = e
               /\ (~Waiting(b)' /\ link'[b] # "cut") => Spent(d)'
    <3>1. /\ Silent(b) /\ \A e \in CallIds : Awaits(b, e) => d = e
          /\ (~Waiting(b) /\ link[b] # "cut") => Spent(d)
      BY <1>3, <2>4 DEF ChainsRight, AwaitsRight
    <3>2. Silent(b)'
      BY <1>2, <1>6, <1>7, <3>1 DEF Silent
    <3> QED
      BY <1>2, <1>10, <2>4, <3>1, <3>2
  <2>5. AwaitsRight'
    BY <1>1, <1>2, <1>10, <2>3, <2>4 DEF AwaitsRight
  <2> QED
    BY <2>1, <2>2, <2>5 DEF ChainsRight
<1>13. ASSUME NEW b \in Actors
       PROVE  Replying(b)' /\ Failing(b)' /\ coro'[b].at # "self"
  <2>1. Replying(b) /\ Failing(b) /\ coro[b].at # "self"
    BY <1>3 DEF FramesMatch
  <2>2. CASE b = a
    <3>1. Failing(a)'
      <4>1. SUFFICES ASSUME link[to] # "open" PROVE Failing(a)'
        BY <1>2 DEF Failing
      <4>2. link[to] = "cut"
        BY <1>2, <4>1, TypedParts
      <4>3. p.pid = a
        BY <1>1, <1>3 DEF PlacesRight, Asking
      <4>4. \A d \in CallIds : Awaits(a, d)' => Spent(d)'
        BY <1>1, <1>10, <4>2
      <4> QED
        BY <1>2, <4>2, <4>3, <4>4 DEF Failing
    <3> QED
      BY <1>2, <2>2, <3>1 DEF Replying
  <2>3. CASE b # a
    <3>1. coro'[b] = coro[b]
      BY <1>7, <2>3
    <3>2. Replying(b)'
      <4>1. SUFFICES ASSUME coro'[b].at = "reply", NEW d \in CallIds, coro'[b].call = d
                     PROVE  /\ coro'[b].who = b /\ Opened(d)'
                            /\ \A e \in Actors : Last(d)' = e =>
                                 /\ \A f \in CallIds : ~Awaits(e, f)'
                                 /\ (coro'[e].at = "read" /\ up'[e] # <<>>)
                                      => Earlier(b, e)'
        BY <2>1, <3>1 DEF Replying
      <4>2. /\ coro[b].who = b /\ Opened(d)
            /\ \A e \in Actors : Last(d) = e =>
                 /\ \A f \in CallIds : ~Awaits(e, f)
                 /\ (coro[e].at = "read" /\ up[e] # <<>>) => Earlier(b, e)
        BY <2>1, <3>1, <4>1 DEF Replying
      <4>3. Last(d) # a
        BY <1>1, <3>1, <4>1, RepliesApart
      <4>4. ChainSame(d)
        BY <1>1, <1>4, <4>2, <4>3
      <4>5. ASSUME NEW e \in Actors, coro'[e].at = "read", up'[e] # <<>>,
                   (coro[e].at = "read" /\ up[e] # <<>>) => Earlier(b, e)
            PROVE  Earlier(b, e)'
        BY <1>1, <2>3, <4>1, <4>5, EarlierStays
      <4>6. ASSUME NEW e \in Actors, Last(d)' = e
            PROVE  /\ \A f \in CallIds : ~Awaits(e, f)'
                   /\ (coro'[e].at = "read" /\ up'[e] # <<>>) => Earlier(b, e)'
        <5>1. Last(d) = e /\ e # a
          BY <4>3, <4>4, <4>6 DEF ChainSame
        <5> QED
          BY <1>10, <4>2, <4>5, <5>1
      <4> QED
        BY <3>1, <4>2, <4>4, <4>6 DEF ChainSame
    <3>3. Failing(b)'
      <4>1. SUFFICES ASSUME coro[b].at = "request", ~coro[b].ok PROVE Failing(b)'
        BY <3>1 DEF Failing
      <4>2. /\ coro[b].pack.pid = b /\ link[coro[b].who] = "cut"
            /\ \A d \in CallIds : Awaits(b, d) => Spent(d)
        BY <2>1, <4>1 DEF Failing
      <4>3. \A d \in CallIds : Awaits(b, d)' => Spent(d)'
        BY <1>10, <2>3, <4>2
      <4> QED
        BY <1>1, <3>1, <4>2, <4>3 DEF Failing
    <3> QED
      BY <2>1, <3>1, <3>2, <3>3
  <2> QED
    BY <2>2, <2>3
<1>14. WaitsRight'
  <2>1. SUFFICES ASSUME NEW b \in Actors, b = a \/ Waiting(b)
                 PROVE  (\E d \in CallIds : Awaits(b, d)') \/ Freeing(b)'
    BY <1>2 DEF WaitsRight
  <2>2. CASE b = a
    BY <1>1, <1>10, <2>2
  <2>3. CASE \E d \in CallIds : Awaits(b, d)
    BY <1>10, <2>3
  <2>4. CASE b # a /\ Freeing(b)
    <3>1. PICK x \in Actors : \E d \in CallIds :
            coro[x].at = "reply" /\ coro[x].call = d /\ Last(d) = b
      BY <2>4 DEF Freeing
    <3>2. PICK d \in CallIds : coro[x].at = "reply" /\ coro[x].call = d /\ Last(d) = b
      BY <3>1
    <3>3. coro'[x] = coro[x]
      BY <1>1, <1>7, <3>2
    <3>4. Opened(d)
      BY <1>3, <3>2 DEF FramesMatch, Replying
    <3>5. Last(d)' = b
      BY <1>1, <1>4, <2>4, <3>2, <3>4 DEF ChainSame
    <3> QED
      BY <3>2, <3>3, <3>5 DEF Freeing
  <2> QED
    BY <1>3, <2>1, <2>2, <2>3, <2>4 DEF WaitsRight
<1> QED
  BY <1>5, <1>11, <1>12, <1>13, <1>14 DEF CallsInv, FramesMatch

-----------------------------------------------------------------------------
(* Every step.                                                             *)

LEMMA CallsInit == Init => CallsInv
<1> SUFFICES ASSUME Init PROVE CallsInv
  OBVIOUS
<1>1. \A b \in Actors :
        /\ up[b] = <<>> /\ down[b] = <<>> /\ ctx[b].inbox = <<>>
        /\ ctx[b].job = NoMsg /\ ctx[b].call_id = NoCall
        /\ coro[b].at = "accept" /\ ~Waiting(b)
  BY DEF Init, ProxyInit, Idle, Waiting
<1>2. \A c \in CallIds :
        /\ call_chain[c] = <<>> /\ ~Opened(c) /\ Straight(c)
        /\ \A a : ~Awaits(a, c)
        /\ \A x, y : ~Behind(x, y, c)
  <2>1. \A c \in CallIds : call_chain[c] = <<>>
    BY DEF Init, ProxyInit
  <2> QED
    BY <2>1, ChainNone DEF Opened, Straight, Awaits, Behind
<1>3. \A b \in Actors : /\ Asks(b) = {} /\ Answers(b) = {} /\ Works(b) = {}
                        /\ Gets(b) = {} /\ Packs(b) = {}
  <2>1. JobLine(NoMsg) = <<>>
    BY DEF JobLine
  <2>2. \A b \in Actors : Asks(b) = {} /\ Answers(b) = {} /\ Works(b) = {} /\ Gets(b) = {}
    BY <1>1, <2>1, KindsNone DEF Asks, Answers, Works, Gets
  <2> QED
    BY <2>2 DEF Packs
<1>4. OneCall /\ Awaited
  BY <1>3 DEF OneCall, Awaited
<1>5. PlacesRight
  <2>1. LastAsk
    BY <1>1 DEF LastAsk
  <2> QED
    BY <1>3, <2>1 DEF PlacesRight, Placed, Answering, Asking, Apart, Getting
<1>6. ChainsRight
  BY <1>2 DEF ChainsRight, Starts, NoLoop, AwaitsRight
<1>7. FramesMatch /\ WaitsRight /\ \A b \in Actors : CallIdRight(b)
  BY <1>1 DEF FramesMatch, Replying, Failing, WaitsRight, CallIdRight
<1> QED
  BY <1>4, <1>5, <1>6, <1>7 DEF CallsInv

LEMMA CallsStutter ==
  ASSUME Typed, AckInv, LineInv, CallsInv, UNCHANGED vars
  PROVE  CallsInv'
<1>1. UNCHANGED <<actor_info, call_chain, coro, runq, link, up, down, ctx>>
  BY DEF vars, proxyVars
<1>2. \A b \in Actors : /\ Asks(b)' = Asks(b) /\ Answers(b)' = Answers(b)
                        /\ Works(b)' = Works(b) /\ Gets(b)' = Gets(b)
  BY <1>1, PacksSame
<1>3. LastAsk' /\ \A b \in Actors : CallIdRight(b)'
  BY <1>1 DEF CallsInv, PlacesRight, LastAsk, CallIdRight
<1>4. \A b \in Actors : link[b] = "none" => Works(b) = {}
  BY NoneLinked
<1>5. Quiet
  BY <1>1, <1>2, <1>3, <1>4 DEF Quiet
<1> QED
  BY <1>3, <1>5, QuietCalls

\* A coroutine of the proxy takes a request: it drops it or hands it over.
LEMMA RequestCalls ==
  ASSUME Typed, AckInv, LineInv, PacksInv, CallsInv, NoRequestWaits, NoRequestWaits',
         NEW a \in Actors, ReadRequest(a), UNCHANGED ctx
  PROVE  CallsInv'
<1>1. SUFFICES ASSUME NEW p, p = Head(up[a])
               PROVE  CallsInv'
  OBVIOUS
<1>2. p \in Request /\ p.pid = a /\ ctx[a].phase \in {"up", "dead"}
  BY <1>1, RequestFacts
<1>3. DroppedAt(a, p.call) \/ \E to \in Actors : HandedTo(a, p, to)
  BY <1>1, <1>2, RequestOutcome
<1> QED
  BY <1>1, <1>3, DroppedCalls, HandedCalls

LEMMA ProxiesCalls ==
  ASSUME Typed, AckInv, LineInv, PacksInv, CallsInv, NoRequestWaits, NoRequestWaits',
         NEW a \in Actors, Proxies(a)
  PROVE  CallsInv'
<1>1. ProxyStep(a) /\ UNCHANGED ctx
  BY DEF Proxies
<1>2. Still(a) => CallsInv'
  BY StillCalls
<1>3. CASE Accept(a) \/ Arrive(a)
  BY <1>2, <1>3, StillStart
<1>4. CASE ConnackWritten(a) \/ ReadEof(a) \/ RequestDone(a)
  BY <1>2, <1>4, StillWritten
<1>5. CASE ReadConnect(a)
  BY <1>2, <1>5, StillConnect
<1>6. CASE ReplyWritten(a)
  BY <1>2, <1>6, StillReply
<1>7. CASE ReadResponse(a)
  BY <1>1, <1>7, ResponseCalls
<1>8. CASE ReadRequest(a)
  BY <1>1, <1>8, RequestCalls
<1>9. ~SelfDone(a)
  BY DEF SelfDone, Resumes, CallsInv, FramesMatch
<1> QED
  BY <1>1, <1>3, <1>4, <1>5, <1>6, <1>7, <1>8, <1>9 DEF ProxyStep

LEMMA CallsStep ==
  /\ Typed /\ AckInv /\ LineInv /\ PacksInv /\ CallsInv
  /\ NoRequestWaits /\ NoRequestWaits' /\ [Next]_vars
  => CallsInv'
<1> SUFFICES ASSUME Typed, AckInv, LineInv, PacksInv, CallsInv, NoRequestWaits,
                    NoRequestWaits', [Next]_vars
             PROVE  CallsInv'
  OBVIOUS
<1>1. CASE UNCHANGED vars
  BY <1>1, CallsStutter
<1>2. ASSUME NEW a \in Actors, Proxies(a) PROVE CallsInv'
  BY <1>2, ProxiesCalls
<1>3. ASSUME NEW a \in Actors, OwnStep(a) PROVE CallsInv'
  BY <1>3, OwnCalls
<1> QED
  BY <1>1, <1>2, <1>3 DEF Next, OwnStep

-----------------------------------------------------------------------------
(* While nobody has closed its connection or died, the request of a call   *)
(* is with the process that has joined the chain for it.                   *)

\* What a process had in hand of a call it still has, be it as an answer.
InHand ==
  \A b \in Actors : \A p \in Works(b) \cup Answers(b) :
    \E q \in Works(b)' \cup Answers(b)' : q.call = p.call

LEMMA BusyInHand ==
  ASSUME Busy, InHand, \A c \in CallIds : \A x, y : Behind(x, y, c)' => Behind(x, y, c)
  PROVE  Busy'
<1> SUFFICES ASSUME NEW c \in CallIds, NEW x \in Actors, NEW y \in Actors,
                    Behind(x, y, c)
             PROVE  \E q \in Works(y)' \cup Answers(y)' : q.call = c
  BY DEF Busy
<1>1. PICK p \in Works(y) \cup Answers(y) : p.call = c
  BY DEF Busy
<1> QED
  BY <1>1 DEF InHand

LEMMA InHandSame ==
  ASSUME \A b \in Actors : Works(b) \subseteq Works(b)' /\ Answers(b) \subseteq Answers(b)'
  PROVE  InHand
  BY DEF InHand

\* The steps of a process.
LEMMA OwnInHand ==
  ASSUME Typed, AckInv, LineInv, PacksInv, CallsInv, NobodyCut',
         NEW a \in Actors, OwnStep(a)
  PROVE  InHand
<1>1. /\ ctx \in [Actors -> Ctx] /\ ctx[a] \in Ctx
      /\ up \in [Actors -> Seq(UpPack)] /\ up[a] \in Seq(UpPack)
      /\ down \in [Actors -> Seq(DownPack)] /\ down[a] \in Seq(DownPack)
  BY TypedParts
<1>2. \A b \in Actors \ {a} : Answers(b)' = Answers(b) /\ Works(b)' = Works(b)
  BY OthersSame
<1>3. /\ Answers(a)' = Responses(up'[a])
      /\ Works(a)' = Requests(down'[a]) \cup Requests(ctx'[a].inbox)
                       \cup Requests(JobLine(ctx'[a].job))
  BY PacksPrimes
<1>4. /\ Answers(a) = Responses(up[a])
      /\ Works(a) = Requests(down[a]) \cup Requests(ctx[a].inbox)
                      \cup Requests(JobLine(ctx[a].job))
  BY DEF Answers, Works
<1>5. ASSUME NEW p \in UpPack, up' = [up EXCEPT ![a] = Append(@, p)]
      PROVE  /\ Answers(a) \subseteq Answers(a)'
             /\ p.type = "RESPONSE" => p \in Answers(a)'
  <2>1. /\ p \in UpPack /\ up[a] \in Seq(UpPack)
    BY <1>1
  <2>2. Responses(Append(up[a], p)) =
          Responses(up[a]) \cup (IF p.type = "RESPONSE" THEN {p} ELSE {})
    BY ONLY <2>1, KindsAppend
  <2>3. up'[a] = Append(up[a], p)
    BY <1>1, <1>5
  <2> QED
    BY <1>3, <1>4, <2>2, <2>3
<1>6. CASE QuietStep(a)
  <2>1. QuietAt(a) /\ link'[a] # "cut"
    BY <1>6, QuietSteps DEF NobodyCut
  <2> QED
    BY <1>2, <2>1, InHandSame DEF QuietAt
<1>7. CASE ReceiveResponse(a)
  <2>1. /\ down[a] # <<>> /\ Head(down[a]).type = "RESPONSE" /\ up' = up
        /\ down'[a] = Tail(down[a]) /\ ctx' = [ctx EXCEPT ![a].pending = NoReq]
    BY <1>1, <1>7 DEF ReceiveResponse, Receives, IsNext
  <2>2. ctx'[a].inbox = ctx[a].inbox /\ ctx'[a].job = ctx[a].job
    BY <1>1, <2>1 DEF Ctx
  <2>3. Requests(down[a]) = Requests(Tail(down[a]))
    BY <1>1, <2>1, KindsTail, ZenonT(30)
  <2>4. Works(a)' = Works(a) /\ Answers(a)' = Answers(a)
    BY <1>3, <1>4, <2>1, <2>2, <2>3
  <2> QED
    BY <1>2, <2>4, InHandSame
<1>8. ASSUME NEW s \in Services, Send(a, s), link[a] = "open" PROVE InHand
  <2>1. /\ SentPack(a, s) \in Request /\ Sent(a) \in Ctx
        /\ Sent(a).inbox = ctx[a].inbox /\ Sent(a).job = ctx[a].job
        /\ ctx' = [ctx EXCEPT ![a] = [Sent(a) EXCEPT !.pending = SentReq(a)]]
        /\ up' = [up EXCEPT ![a] = Append(@, SentPack(a, s))] /\ down' = down
    BY <1>8, SendFacts
  <2>2. ctx'[a].inbox = ctx[a].inbox /\ ctx'[a].job = ctx[a].job
    BY <1>1, <2>1 DEF Ctx
  <2>3. Works(a)' = Works(a)
    BY <1>3, <1>4, <2>1, <2>2
  <2>4. SentPack(a, s) \in UpPack
    BY <2>1 DEF UpPack
  <2>5. Answers(a) \subseteq Answers(a)'
    BY <1>5, <2>1, <2>4
  <2> QED
    BY <1>2, <2>3, <2>5, InHandSame
<1>9. CASE Finish(a) /\ ctx[a].job.type # "CLIENT" /\ ~ctx[a].error
  <2> SUFFICES ASSUME NEW j, j = ctx[a].job, NEW p, p = AnswerTo(j)
               PROVE  InHand
    OBVIOUS
  <2>1. /\ Serving(a) /\ j \in Msg
        /\ ctx' = [ctx EXCEPT ![a] = [ctx[a] EXCEPT !.job = NoMsg,
                                       !.call_id = NoCall, !.error = FALSE]]
        /\ down' = down /\ up' = [up EXCEPT ![a] = Append(@, p)]
    BY <1>9, FinishFacts DEF Finish, AnswerTo
  <2>2. j \in Request /\ j.type = "REQUEST"
    <3>1. j.type = "REQUEST"
      BY <1>9, <2>1, PackKinds
    <3> QED
      BY <2>1, <3>1, ServingFacts
  <2>3. ctx'[a].inbox = ctx[a].inbox /\ ctx'[a].job = NoMsg
    BY <1>1, <2>1 DEF Ctx
  <2>4. p \in UpPack /\ p.type = "RESPONSE" /\ p.call = j.call
    BY <2>2, AnswerFacts DEF UpPack
  <2>5. Answers(a) \subseteq Answers(a)' /\ p \in Answers(a)'
    BY <1>5, <2>1, <2>4
  <2>6. Works(a) \subseteq Works(a)' \cup {j}
    <3>1. Requests(JobLine(j)) \subseteq {j}
      BY ItemsOf DEF JobLine, Requests
    <3> QED
      BY <1>3, <1>4, <2>1, <2>3, <3>1
  <2> QED
    BY <1>2, <2>4, <2>5, <2>6 DEF InHand
<1> QED
  BY <1>6, <1>7, <1>8, <1>9 DEF OwnStep, ActorStep, ActorRuns, QuietStep

\* A response leaves the hands of the process that is taken off the chain.
LEMMA ResponseBusy ==
  ASSUME Typed, LineInv, PacksInv, CallsInv, Busy, NEW a \in Actors,
         ReadResponse(a), ctx' = ctx
  PROVE  Busy'
<1> SUFFICES ASSUME NEW p, p = Head(up[a]), NEW c, c = p.call, NEW r, r = Prev(c)
             PROVE  Busy'
  OBVIOUS
<1>1. /\ p \in Answers(a) /\ c \in CallIds /\ r \in Actors /\ r # a
      /\ Joined(c) /\ Last(c) = a
      /\ up[a] # <<>> /\ up' = [up EXCEPT ![a] = Tail(@)]
      /\ call_chain' = [call_chain EXCEPT ![c] = Popped(@)] /\ Transmit(r, p)
  BY ResponseFacts
<1>2. ChainsRight
  BY DEF CallsInv
<1>3. /\ \A d \in CallIds \ {c} : ChainSame(d)
      /\ Last(c)' = Prev(c)
      /\ \A x \in Actors : Awaits(x, c)' <=> (Awaits(x, c) /\ x # Prev(c))
      /\ \A x, y : Behind(x, y, c) <=>
                     Behind(x, y, c)' \/ (x = Prev(c) /\ y = Last(c))
  <2>1. Straight(c)
    BY <1>1, <1>2 DEF ChainsRight, NoLoop
  <2> QED
    BY <1>1, <2>1, PoppedChains
<1>4. \A d \in CallIds : \A x, y : Behind(x, y, d)' => Behind(x, y, d)
  BY <1>3 DEF ChainSame
<1>5. p.type = "RESPONSE" /\ p \in Response
  BY <1>1, PacksKinds, PacksTyped
<1>6. \A b \in Actors : /\ Works(b)' = Works(b)
                        /\ b # a => Answers(b)' = Answers(b)
  <2>1. up'[a] = Tail(up[a]) /\ \A b \in Actors \ {a} : up'[b] = up[b]
    BY <1>1, TypedParts
  <2> QED
    BY <1>1, <1>5, <2>1, ResponsePacks
<1>7. Answers(a) \subseteq Answers(a)' \cup {p}
  <2>1. up[a] \in Seq(UpPack) /\ up'[a] = Tail(up[a])
    BY <1>1, TypedParts
  <2>2. Responses(up[a]) = Responses(Tail(up[a])) \cup {p}
    BY <1>1, <1>5, <2>1, KindsTail
  <2> QED
    BY <2>1, <2>2, PacksPrimes DEF Answers
<1>8. ASSUME NEW x \in Actors PROVE ~Behind(x, a, c)'
  <2>1. ~Awaits(a, c)
    BY <1>1, <1>2 DEF ChainsRight, AwaitsRight, Silent
  <2>2. ASSUME Behind(x, a, c)' PROVE Last(c)' = a
    <3> DEFINE t == call_chain'[c]
    <3>1. t \in Seq(Actors)
      BY <1>1, TypedParts DEF Popped
    <3>2. /\ Behind(x, a, c)' <=> <<x, a>> \in Pairs(t)
          /\ Awaits(a, c)' <=> a \in Inner(t)
          /\ Last(c)' = Back(t)
      BY <1>1, ChainPrimes
    <3> HIDE DEF t
    <3>3. a \notin Inner(t)
      BY <1>3, <2>1, <3>2
    <3> QED
      BY <2>2, <3>1, <3>2, <3>3, PairsFacts
  <2> QED
    BY <1>1, <1>3, <2>2
<1> SUFFICES ASSUME NEW d \in CallIds, NEW x \in Actors, NEW y \in Actors,
                    Behind(x, y, d)'
             PROVE  \E q \in Works(y)' \cup Answers(y)' : q.call = d
  BY DEF Busy
<1>9. PICK q \in Works(y) \cup Answers(y) : q.call = d
  BY <1>4 DEF Busy
<1>10. y # a \/ q # p
  BY <1>1, <1>8, <1>9
<1> QED
  BY <1>6, <1>7, <1>9, <1>10

\* A request that goes to a process: it has the request now.
LEMMA RequestBusy ==
  ASSUME Typed, AckInv, LineInv, PacksInv, CallsInv, Busy, NoRequestWaits,
         NoRequestWaits', NobodyCut', NEW a \in Actors, ReadRequest(a), UNCHANGED ctx
  PROVE  Busy'
<1> SUFFICES ASSUME NEW p, p = Head(up[a]), NEW c, c = p.call
             PROVE  Busy'
  OBVIOUS
<1>1. /\ p \in Request /\ c \in CallIds /\ p.pid = a
      /\ Opened(c) => Last(c) = a
      /\ \A d \in CallIds : ~Awaits(a, d)
      /\ up' = [up EXCEPT ![a] = Tail(@)] /\ up'[a] = <<>>
      /\ Answers(a) = {} /\ link' = link /\ ctx[a].phase \in {"up", "dead"}
  BY RequestFacts
<1>2. Straight(c)
  BY <1>1 DEF CallsInv, ChainsRight, NoLoop
<1>3. \A b \in Actors \ {a} : up'[b] = up[b]
  BY <1>1, TypedParts
<1>4. CASE DroppedAt(a, c)
  <2>1. call_chain' = [call_chain EXCEPT ![c] = Started(@, a)] /\ down' = down
    BY <1>4 DEF DroppedAt
  <2>2. \A d \in CallIds : \A x, y : Behind(x, y, d)' <=> Behind(x, y, d)
    BY <1>1, <1>2, <2>1, StartedChains
  <2>3. \A b \in Actors : /\ Works(b)' = Works(b)
                          /\ b # a => Answers(b)' = Answers(b)
    BY <1>1, <1>3, <2>1, AskedPacks
  <2>4. InHand
    BY <1>1, <2>3, InHandSame
  <2> QED
    BY <2>2, <2>4, BusyInHand
<1>5. ASSUME NEW to \in Actors, HandedTo(a, p, to)
      PROVE  Busy'
  <2>1. /\ call_chain' = [call_chain EXCEPT ![c] = Append(Started(@, a), to)]
        /\ Transmit(to, p) /\ link[to] # "none"
    BY <1>5 DEF HandedTo
  <2>2. /\ Typed /\ c \in CallIds /\ a \in Actors /\ to \in Actors
        /\ Straight(c) /\ (Opened(c) => Last(c) = a) /\ ~Awaits(a, c)
        /\ call_chain' = [call_chain EXCEPT ![c] = Append(Started(@, a), to)]
    BY <1>1, <1>2, <2>1
  <2>3. /\ \A d \in CallIds \ {c} : ChainSame(d)
        /\ \A x, y : Behind(x, y, c)' <=> Behind(x, y, c) \/ (x = a /\ y = to)
    BY ONLY <2>2, JoinedChains
  <2>4. link[to] = "open"
    BY <1>1, <2>1, TypedParts DEF NobodyCut
  <2>5. /\ \A b \in Actors : /\ Works(b) \subseteq Works(b)'
                             /\ b # a => Answers(b)' = Answers(b)
        /\ p \in Works(to)'
    BY <1>1, <1>3, <2>1, <2>4, AskedPacks
  <2> SUFFICES ASSUME NEW d \in CallIds, NEW x \in Actors, NEW y \in Actors,
                      Behind(x, y, d)'
               PROVE  \E q \in Works(y)' \cup Answers(y)' : q.call = d
    BY DEF Busy
  <2>6. CASE Behind(x, y, d)
    <3>1. PICK q \in Works(y) \cup Answers(y) : q.call = d
      BY <2>6 DEF Busy
    <3> QED
      BY <1>1, <2>5, <3>1
  <2>7. CASE y = to /\ d = c
    BY <2>5, <2>7
  <2> QED
    BY <2>3, <2>6, <2>7 DEF ChainSame
<1> QED
  BY <1>1, <1>4, <1>5, RequestOutcome

LEMMA StillBusy ==
  ASSUME Busy, NEW a \in Actors, Still(a)
  PROVE  Busy'
<1>1. \A c \in CallIds : \A x, y : Behind(x, y, c)' => Behind(x, y, c)
  <2>1. \A c \in CallIds : ChainSame(c)
    BY ChainsSame DEF Still
  <2> QED
    BY <2>1 DEF ChainSame
<1>2. InHand
  BY InHandSame DEF Still
<1> QED
  BY <1>1, <1>2, BusyInHand

LEMMA ProxiesBusy ==
  ASSUME Typed, AckInv, LineInv, PacksInv, CallsInv, Busy, NoRequestWaits,
         NoRequestWaits', NobodyCut', NEW a \in Actors, Proxies(a)
  PROVE  Busy'
<1>1. ProxyStep(a) /\ UNCHANGED ctx
  BY DEF Proxies
<1>2. Still(a) => Busy'
  BY StillBusy
<1>3. CASE Accept(a) \/ Arrive(a)
  BY <1>2, <1>3, StillStart
<1>4. CASE ConnackWritten(a) \/ ReadEof(a) \/ RequestDone(a)
  BY <1>2, <1>4, StillWritten
<1>5. CASE ReadConnect(a)
  BY <1>2, <1>5, StillConnect
<1>6. CASE ReplyWritten(a)
  BY <1>2, <1>6, StillReply
<1>7. CASE ReadResponse(a)
  BY <1>1, <1>7, ResponseBusy
<1>8. CASE ReadRequest(a)
  BY <1>1, <1>8, RequestBusy
<1>9. ~SelfDone(a)
  BY DEF SelfDone, Resumes, CallsInv, FramesMatch
<1> QED
  BY <1>1, <1>3, <1>4, <1>5, <1>6, <1>7, <1>8, <1>9 DEF ProxyStep

LEMMA BusyInit == Init => Busy
<1> SUFFICES ASSUME Init PROVE Busy
  OBVIOUS
<1>1. \A c \in CallIds : call_chain[c] = <<>>
  BY DEF Init, ProxyInit
<1> QED
  BY <1>1, ChainNone DEF Busy, Behind

LEMMA BusyStep ==
  /\ Typed /\ AckInv /\ LineInv /\ PacksInv /\ CallsInv /\ Busy
  /\ NoRequestWaits /\ NoRequestWaits' /\ NobodyCut' /\ [Next]_vars
  => Busy'
<1> SUFFICES ASSUME Typed, AckInv, LineInv, PacksInv, CallsInv, Busy,
                    NoRequestWaits, NoRequestWaits', NobodyCut', [Next]_vars
             PROVE  Busy'
  OBVIOUS
<1>1. ASSUME call_chain' = call_chain, InHand PROVE Busy'
  <2>1. \A c \in CallIds : ChainSame(c)
    BY <1>1, ChainsSame
  <2>2. \A c \in CallIds : \A x, y : Behind(x, y, c)' => Behind(x, y, c)
    BY <2>1 DEF ChainSame
  <2> QED
    BY <1>1, <2>2, BusyInHand
<1>2. CASE UNCHANGED vars
  <2>1. UNCHANGED <<ctx, up, down, call_chain>>
    BY <1>2 DEF vars, proxyVars
  <2>2. InHand
    BY <2>1, PacksSame, InHandSame
  <2> QED
    BY <1>1, <2>1, <2>2
<1>3. ASSUME NEW a \in Actors, Proxies(a) PROVE Busy'
  BY <1>3, ProxiesBusy
<1>4. ASSUME NEW a \in Actors, OwnStep(a) PROVE Busy'
  BY <1>1, <1>4, OwnFacts, OwnInHand
<1> QED
  BY <1>2, <1>3, <1>4 DEF Next, OwnStep

-----------------------------------------------------------------------------
(* The theorems for as long as no request waits in the proxy: with one     *)
(* that waits and is dispatched a second time the chain of its call is no  *)
(* longer what the packs say (run wrong_result).                           *)

ChainsInv == Typed /\ AckInv /\ LineInv /\ PacksInv /\ CallsInv

LEMMA ChainsInvInit == Init => ChainsInv
  BY TypedInit, AckInit, LineInit, PacksInit, CallsInit DEF ChainsInv

LEMMA ChainsInvStep ==
  ChainsInv /\ NoRequestWaits /\ NoRequestWaits' /\ [Next]_vars => ChainsInv'
<1> SUFFICES ASSUME ChainsInv, NoRequestWaits, NoRequestWaits', [Next]_vars
             PROVE  ChainsInv'
  OBVIOUS
<1>1. Typed' /\ AckInv' /\ LineInv'
  BY TypedStep, AckStep, LineStep DEF ChainsInv
<1>2. PacksInv' /\ CallsInv'
  BY <1>1, PacksStep, CallsStep DEF ChainsInv
<1> QED
  BY <1>1, <1>2 DEF ChainsInv

LEMMA ChainsAlways == Spec /\ []NoRequestWaits => []ChainsInv
  BY ChainsInvInit, ChainsInvStep, PTL DEF Spec

\* Whom pop_back takes off the chain as the responder is the process that
\* sent the response.
THEOREM ResponderIsLast == Spec /\ []NoRequestWaits => []ResponderEndsChain
<1>1. ChainsInv => ResponderEndsChain
  <2> SUFFICES ASSUME ChainsInv, NEW a \in Actors, NEW i \in DOMAIN up[a],
                      up[a][i].type = "RESPONSE"
               PROVE  Back(call_chain[up[a][i].call]) = a
    BY DEF ResponderEndsChain
  <2>1. up[a][i] \in Answers(a)
    BY DEF Answers, Responses, Items
  <2> QED
    BY <2>1 DEF ChainsInv, CallsInv, PlacesRight, Answering, Last
<1> QED
  BY ChainsAlways, <1>1, PTL

\* Every response under way to a process answers the one request that the
\* send() of that process waits for.
THEOREM ResponsesArrive == Spec /\ []NoRequestWaits => []ResponseToRequester
<1>1. ChainsInv => ResponseToRequester
  <2> SUFFICES ASSUME ChainsInv, NEW a \in Actors, NEW i \in DOMAIN down[a],
                      down[a][i].type = "RESPONSE"
               PROVE  down[a][i].req = ctx[a].pending
    BY DEF ResponseToRequester
  <2> DEFINE p == down[a][i]
  <2>1. p \in Gets(a)
    BY DEF Gets, Responses, Items
  <2>2. p.req[1] = a /\ p \in Packs(a)
    BY <2>1 DEF ChainsInv, CallsInv, PlacesRight, Getting, Packs
  <2>3. ctx[a].phase # "dead"
    <3>1. down[a] # <<>>
      BY <2>1, KindsNone DEF Gets
    <3> QED
      BY <3>1 DEF ChainsInv, LineInv, LinkRight
  <2> HIDE DEF p
  <2>4. ctx[a].pending = p.req
    BY <2>2, <2>3 DEF ChainsInv, CallsInv, Awaited
  <2> QED
    BY <2>4 DEF p
<1> QED
  BY ChainsAlways, <1>1, PTL

\* No send() returns the answer to another request.
THEOREM ResultsAreOwn == Spec /\ []NoRequestWaits => []ResultIsOwn
<1>1. Typed /\ ResponseToRequester => ResultIsOwn
  <2> SUFFICES ASSUME Typed, ResponseToRequester, NEW a \in Actors, down[a] # <<>>,
                      Head(down[a]).type = "RESPONSE"
               PROVE  Head(down[a]).req = ctx[a].pending
    BY DEF ResultIsOwn
  <2>1. 1 \in DOMAIN down[a] /\ Head(down[a]) = down[a][1]
    BY TypedParts, TailFacts
  <2> QED
    BY <2>1 DEF ResponseToRequester
<1>2. ChainsInv => Typed
  BY DEF ChainsInv
<1> QED
  BY ChainsAlways, ResponsesArrive, <1>1, <1>2, PTL

\* Whoever the proxy takes to be waiting waits, or is about to be freed.
THEOREM WaitingIsReal == Spec /\ []NoRequestWaits => []WaitingMirror
<1>1. ChainsInv => WaitingMirror
  <2> SUFFICES ASSUME ChainsInv, NEW a \in Actors, Waiting(a), ctx[a].phase = "up",
                      ctx[a].pending = NoReq
               PROVE  \E b \in Actors : /\ coro[b].at \in {"reply", "self"}
                                        /\ Back(call_chain[coro[b].call]) = a
    BY DEF WaitingMirror, Waiting
  <2>1. \A c \in CallIds : ~Awaits(a, c)
    BY DEF ChainsInv, CallsInv, ChainsRight, AwaitsRight, Silent
  <2>2. Freeing(a)
    BY <2>1 DEF ChainsInv, CallsInv, WaitsRight
  <2> QED
    BY <2>2 DEF Freeing, Last
<1> QED
  BY ChainsAlways, <1>1, PTL

LEMMA BusyAlways ==
  Spec /\ []NoRequestWaits /\ []NobodyCut => []Busy
<1>1. /\ ChainsInv /\ Busy /\ NoRequestWaits /\ NoRequestWaits' /\ NobodyCut'
      /\ [Next]_vars
      => Busy'
  BY BusyStep DEF ChainsInv
<1> QED
  BY ChainsAlways, BusyInit, <1>1, PTL DEF Spec

LEMMA ItemsConcat ==
  ASSUME NEW S, NEW s \in Seq(S), NEW t \in Seq(S)
  PROVE  s \o t \in Seq(S) /\ Items(s \o t) = Items(s) \cup Items(t)
<1>1. /\ s \o t \in Seq(S) /\ DOMAIN (s \o t) = 1 .. Len(s) + Len(t)
      /\ DOMAIN s = 1 .. Len(s) /\ DOMAIN t = 1 .. Len(t)
      /\ Len(s) \in Nat /\ Len(t) \in Nat
  OBVIOUS
<1>2. ASSUME NEW i \in 1 .. Len(s)
      PROVE  i \in 1 .. Len(s) + Len(t) /\ (s \o t)[i] = s[i]
  BY <1>1
<1>3. ASSUME NEW i \in 1 .. Len(t)
      PROVE  Len(s) + i \in 1 .. Len(s) + Len(t) /\ (s \o t)[Len(s) + i] = t[i]
  BY <1>1
<1>4. ASSUME NEW k \in 1 .. Len(s) + Len(t)
      PROVE  \/ k \in 1 .. Len(s)
             \/ \E i \in 1 .. Len(t) : k = Len(s) + i
  <2>1. CASE k > Len(s)
    <3>1. k - Len(s) \in 1 .. Len(t) /\ k = Len(s) + (k - Len(s))
      BY <1>1, <2>1
    <3> QED
      BY <3>1
  <2>2. CASE k <= Len(s)
    BY <1>1, <2>2
  <2>3. k \in Int /\ Len(s) \in Int
    BY <1>1
  <2> QED
    BY <2>1, <2>2, <2>3
<1>5. Items(s) \cup Items(t) \subseteq Items(s \o t)
  BY <1>1, <1>2, <1>3 DEF Items
<1>6. Items(s \o t) \subseteq Items(s) \cup Items(t)
  <2> SUFFICES ASSUME NEW k \in 1 .. Len(s) + Len(t)
               PROVE  (s \o t)[k] \in Items(s) \cup Items(t)
    BY <1>1 DEF Items
  <2>1. CASE k \in 1 .. Len(s)
    BY <1>1, <1>2, <2>1 DEF Items
  <2>2. ASSUME NEW i \in 1 .. Len(t), k = Len(s) + i
        PROVE  (s \o t)[k] \in Items(s) \cup Items(t)
    BY <1>1, <1>3, <2>2 DEF Items
  <2> QED
    BY <1>4, <2>1, <2>2
<1> QED
  BY <1>1, <1>5, <1>6

\* What a process has in hand.
LEMMA HeldItems ==
  ASSUME Typed, NEW a \in Actors
  PROVE  Items(Held(a)) =
           Items(up[a]) \cup Items(actor_info[a].msg_queue) \cup Items(down[a])
             \cup Items(ctx[a].inbox) \cup Items(JobLine(ctx[a].job))
<1> DEFINE s1 == up[a]
           s2 == actor_info[a].msg_queue
           s3 == down[a]
           s4 == ctx[a].inbox
           s5 == JobLine(ctx[a].job)
<1>1. /\ s1 \in Seq(Thing) /\ s2 \in Seq(Thing) /\ s3 \in Seq(Thing)
      /\ s4 \in Seq(Thing) /\ s5 \in Seq(Thing)
  BY StateLines DEF PerActor, Queues, Maps, InboxesOf, JobsOf
<1>2. Held(a) = s1 \o (s2 \o s3 \o s4 \o s5)
  BY DEF Held, Backlog, JobLine
<1> HIDE DEF s1, s2, s3, s4, s5
<1>3. s2 \o s3 \in Seq(Thing) /\ Items(s2 \o s3) = Items(s2) \cup Items(s3)
  BY <1>1, ItemsConcat
<1>4. SUFFICES ASSUME NEW t3 \in Seq(Thing), t3 = s2 \o s3,
                      Items(t3) = Items(s2) \cup Items(s3)
               PROVE  Items(s1 \o (t3 \o s4 \o s5)) =
                        Items(s1) \cup Items(t3) \cup Items(s4) \cup Items(s5)
  BY <1>2, <1>3 DEF s1, s2, s3, s4, s5
<1>5. t3 \o s4 \in Seq(Thing) /\ Items(t3 \o s4) = Items(t3) \cup Items(s4)
  BY <1>1, ItemsConcat
<1>6. SUFFICES ASSUME NEW t4 \in Seq(Thing), t4 = t3 \o s4,
                      Items(t4) = Items(t3) \cup Items(s4)
               PROVE  Items(s1 \o (t4 \o s5)) = Items(s1) \cup Items(t4) \cup Items(s5)
  BY <1>5
<1>7. t4 \o s5 \in Seq(Thing) /\ Items(t4 \o s5) = Items(t4) \cup Items(s5)
  BY <1>1, ItemsConcat
<1>8. SUFFICES ASSUME NEW t5 \in Seq(Thing), t5 = t4 \o s5,
                      Items(t5) = Items(t4) \cup Items(s5)
               PROVE  Items(s1 \o t5) = Items(s1) \cup Items(t5)
  BY <1>7
<1> QED
  BY <1>1, ItemsConcat

LEMMA InHandHeld ==
  ASSUME Typed, NEW a \in Actors
  PROVE  /\ Works(a) \cup Answers(a) \cup Gets(a) \subseteq Items(Held(a))
         /\ \A p \in Items(Held(a)) :
              p.type = "RESPONSE" => p \in Answers(a) \cup Gets(a)
<1>1. Works(a) \cup Answers(a) \cup Gets(a) \subseteq Items(Held(a))
  BY HeldItems DEF Works, Answers, Gets, Requests, Responses
<1>2. ASSUME NEW p, \/ p \in Items(actor_info[a].msg_queue)
                    \/ p \in Items(ctx[a].inbox) \cup Items(JobLine(ctx[a].job))
      PROVE  p.type # "RESPONSE"
  <2>1. /\ actor_info[a].msg_queue \in Seq(Request)
        /\ ctx[a].inbox \in Seq(Msg) /\ ctx[a].job \in Msg \cup {NoMsg}
    BY TypedParts, CtxFields DEF Info
  <2>2. Items(JobLine(ctx[a].job)) \subseteq Msg
    BY <2>1, ItemsOf DEF JobLine
  <2>3. p \in Request \cup Msg
    BY <1>2, <2>1, <2>2, ItemsTyped
  <2> QED
    BY <2>3 DEF Msg, Request, ClientMsg
<1>3. \A p \in Items(Held(a)) : p.type = "RESPONSE" => p \in Answers(a) \cup Gets(a)
  BY <1>2, HeldItems DEF Answers, Gets, Responses
<1> QED
  BY <1>1, <1>3

\* While nobody has closed its connection or died, somebody works for every
\* call whose chain is longer than its first caller.
THEOREM ChainsHaveWork ==
  Spec /\ []NoRequestWaits /\ []NobodyCut => []ChainHasWork
<1>1. ChainsInv /\ Busy => ChainHasWork
  <2> SUFFICES ASSUME ChainsInv, Busy, NEW c \in CallIds, Len(call_chain[c]) > 1
               PROVE  \E a \in Actors : \E i \in DOMAIN Held(a) :
                        /\ Held(a)[i].type \in {"REQUEST", "RESPONSE"}
                        /\ Held(a)[i].call = c
    BY DEF ChainHasWork
  <2>1. Typed
    BY DEF ChainsInv
  <2>2. Joined(c)
    <3>1. Len(call_chain[c]) \in Nat
      BY <2>1, TypedParts
    <3> QED
      BY <3>1 DEF Joined
  <2>3. Behind(Prev(c), Last(c), c) /\ Prev(c) \in Actors /\ Last(c) \in Actors
    BY <2>1, <2>2, ChainView
  <2>4. PICK p \in Works(Last(c)) \cup Answers(Last(c)) : p.call = c
    BY <2>3 DEF Busy
  <2>5. p.type \in {"REQUEST", "RESPONSE"}
    BY <2>3, <2>4, PacksKinds
  <2>6. p \in Items(Held(Last(c)))
    BY <2>1, <2>3, <2>4, InHandHeld
  <2> QED
    BY <2>3, <2>4, <2>5, <2>6 DEF Items
<1> QED
  BY ChainsAlways, BusyAlways, <1>1, PTL

-----------------------------------------------------------------------------
(* The configurations in which no request is kept waiting: a node whose    *)
(* services ask others is asked by one process at most, and by no client.  *)

\* The services of this node ask something of another node, or of nobody.
AsksOthers(n) ==
  \E s \in DOMAIN ServiceMap :
    /\ ServiceMap[s] = n
    /\ \E t \in Calls[s] : t \in DOMAIN ServiceMap => ServiceMap[t] # n

\* A service of process a may ask for this service.
MayAsk(a, t) ==
  /\ ~Provides(a, t)
  /\ \E s \in DOMAIN ServiceMap : Provides(a, s) /\ t \in Calls[s]

MayCall(a, b) == \E t \in DOMAIN ServiceMap : MayAsk(a, t) /\ Provides(b, t)

\* A process that others call and that calls others.
Middle(b) == AsksOthers(NodeOf[b]) /\ \E a \in Actors : MayCall(a, b)

OneAsker ==
  \A b \in Actors : Middle(b) =>
    /\ NodeOf[b] \notin ClientNodes
    /\ \A a, d \in Actors : MayCall(a, b) /\ MayCall(d, b) => a = d

\* The calls that a process in the middle does not begin.
Foreign(c) == ~Middle(c[1])

\* The proxy lists a process under its node.
Grouped ==
  \A n \in Nodes : \A i \in DOMAIN actor_info_map[n] :
    NodeOf[actor_info_map[n][i]] = n

\* A process works for its own clients, and for others that may ask it, in
\* services that it provides; it asks what its services may ask for.
Clients(a) ==
  {m \in Items(ctx[a].inbox) \cup Items(JobLine(ctx[a].job)) : m.type = "CLIENT"}

Provided(a) ==
  /\ \A m \in Clients(a) : NodeOf[a] \in ClientNodes /\ Provides(a, m.svc)
  /\ \A p \in Works(a) : /\ Provides(a, p.svc) /\ MayCall(p.req[1], a)
                         /\ Foreign(p.call)
  /\ \A p \in Asks(a) : MayAsk(a, p.svc) /\ Foreign(p.call)

\* In the middle the call id is that of the request a process works on.
Threaded(a) ==
  (Middle(a) /\ ctx[a].job # NoMsg) =>
    ctx[a].job.type = "REQUEST" /\ ctx[a].call_id = ctx[a].job.call

\* Who is behind whom in a chain may be called by it, a process in the middle
\* begins no chain, and whoever waits asks others.
Linked ==
  /\ \A c \in CallIds : \A x, y \in Actors : Behind(x, y, c) => MayCall(x, y)
  /\ \A c \in CallIds : Opened(c) => Foreign(c)
  /\ \A a \in Actors : Waiting(a) => AsksOthers(NodeOf[a])

LevelInv ==
  /\ Grouped /\ Linked /\ NoRequestWaits
  /\ \A a \in Actors : Provided(a) /\ Threaded(a)

LEMMA LevelInit == Init => LevelInv
<1> SUFFICES ASSUME Init PROVE LevelInv
  OBVIOUS
<1>1. \A b \in Actors :
        /\ up[b] = <<>> /\ down[b] = <<>> /\ ctx[b].inbox = <<>>
        /\ ctx[b].job = NoMsg /\ ~Waiting(b)
  BY DEF Init, ProxyInit, Waiting
<1>2. Grouped /\ NoRequestWaits
  BY DEF Init, ProxyInit, Grouped, NoRequestWaits
<1>3. Linked
  <2>1. \A c \in CallIds : call_chain[c] = <<>>
    BY DEF Init, ProxyInit
  <2> QED
    BY <1>1, <2>1, ChainNone DEF Linked, Opened, Behind
<1>4. ASSUME NEW b \in Actors
      PROVE  Provided(b) /\ Threaded(b)
  <2>1. JobLine(NoMsg) = <<>> /\ Items(<<>>) = {}
    BY ItemsOf DEF JobLine
  <2>2. Clients(b) = {} /\ Asks(b) = {} /\ Works(b) = {}
    BY <1>1, <2>1, KindsNone DEF Clients, Asks, Works
  <2> QED
    BY <1>1, <2>2 DEF Provided, Threaded
<1> QED
  BY <1>2, <1>3, <1>4 DEF LevelInv

\* Who may ask for what a process provides is somebody else.
LEMMA Callers ==
  ASSUME NEW a \in Actors, NEW t, MayAsk(a, t)
  PROVE  /\ AsksOthers(NodeOf[a])
         /\ \A b \in Actors : Provides(b, t) => MayCall(a, b) /\ b # a
<1>1. AsksOthers(NodeOf[a])
  BY DEF MayAsk, AsksOthers, Provides
<1>2. \A b \in Actors : Provides(b, t) => MayCall(a, b) /\ b # a
  BY DEF MayAsk, MayCall, Provides
<1> QED
  BY <1>1, <1>2

\* Who has another behind it in a chain calls others.
LEMMA CallersAsk ==
  ASSUME NEW a \in Actors, NEW b \in Actors, MayCall(a, b)
  PROVE  AsksOthers(NodeOf[a])
  BY Callers DEF MayCall

\* A process in the chain of a call, but not at its beginning, is behind
\* another one.
LEMMA BehindAnother ==
  ASSUME Typed, NEW c \in CallIds, NEW b \in Actors, Opened(c), call_chain[c][1] # b,
         Awaits(b, c) \/ Last(c) = b
  PROVE  \E a \in Actors : Behind(a, b, c) /\ Awaits(a, c)
<1> DEFINE s == call_chain[c]
<1>1. s \in Seq(Actors) /\ s # <<>> /\ s[1] # b
  BY TypedParts DEF Opened
<1>2. PICK i \in 1 .. Len(s) : s[i] = b
  <2>1. Len(s) \in Nat /\ Len(s) >= 1
    BY <1>1
  <2>2. CASE Last(c) = b
    BY <2>1, <2>2 DEF Last, Back
  <2>3. CASE Awaits(b, c)
    BY <2>1, <2>3 DEF Awaits, Inner
  <2> QED
    BY <2>2, <2>3
<1> HIDE DEF s
<1>3. i - 1 \in 1 .. Len(s) - 1 /\ i - 1 + 1 = i
  BY <1>1, <1>2
<1>4. <<s[i - 1], b>> \in Pairs(s)
  BY <1>2, <1>3 DEF Pairs
<1>5. Behind(s[i - 1], b, c)
  BY <1>4 DEF Behind, s
<1> QED
  BY <1>5, ChainView

\* The one who may call a process in the middle that waits is in a chain with
\* it, and waits too.
LEMMA MiddleCaller ==
  ASSUME Typed, CallsInv, LevelInv, OneAsker, NEW a \in Actors, NEW b \in Actors,
         Waiting(b), MayCall(a, b)
  PROVE  \E c \in CallIds : Awaits(a, c)
<1>1. Middle(b) /\ \A d \in Actors : MayCall(d, b) => d = a
  <2>1. AsksOthers(NodeOf[b])
    BY DEF LevelInv, Linked
  <2> QED
    BY <2>1 DEF Middle, OneAsker
<1>2. ASSUME NEW c \in CallIds, Opened(c)
      PROVE  call_chain[c][1] # b
  <2>1. call_chain[c][1] = c[1] /\ Foreign(c)
    BY <1>2 DEF CallsInv, ChainsRight, Starts, LevelInv, Linked
  <2> QED
    BY <1>1, <2>1 DEF Foreign
<1>3. ASSUME NEW c \in CallIds, Opened(c), Awaits(b, c) \/ Last(c) = b
      PROVE  Awaits(a, c)
  <2>1. PICK x \in Actors : Behind(x, b, c) /\ Awaits(x, c)
    BY <1>2, <1>3, BehindAnother
  <2>2. x = a
    BY <1>1, <2>1 DEF LevelInv, Linked
  <2> QED
    BY <2>1, <2>2
<1>4. CASE \E c \in CallIds : Awaits(b, c)
  BY <1>3, <1>4, ChainView
<1>5. CASE Freeing(b)
  <2>1. PICK x \in Actors, c \in CallIds :
          coro[x].at = "reply" /\ coro[x].call = c /\ Last(c) = b
    BY <1>5 DEF Freeing
  <2>2. Opened(c)
    BY <2>1 DEF CallsInv, FramesMatch, Replying
  <2> QED
    BY <1>3, <2>1, <2>2
<1> QED
  BY <1>4, <1>5 DEF CallsInv, WaitsRight

\* The proxy looks for those who provide the service.
LEMMA PeersProvide ==
  ASSUME Typed, Grouped, NEW s \in DOMAIN ServiceMap, NEW q \in Items(Peers(s))
  PROVE  q \in Actors /\ Provides(q, s)
<1>1. PICK i \in DOMAIN actor_info_map[ServiceMap[s]] :
        q = actor_info_map[ServiceMap[s]][i]
  BY DEF Peers, Items
<1>2. ServiceMap[s] \in Nodes
  BY ConstantsAssumption
<1>3. actor_info_map[ServiceMap[s]] \in Seq(Actors)
  BY <1>2, TypedParts
<1>4. NodeOf[q] = ServiceMap[s]
  BY <1>1, <1>2 DEF Grouped
<1> QED
  BY <1>1, <1>3, <1>4 DEF Provides

\* A process whose request the proxy reads is in no chain with another behind
\* it: neither it nor anybody who provides the service waits.
LEMMA NobodyThere ==
  ASSUME Typed, AckInv, LineInv, PacksInv, CallsInv, LevelInv, OneAsker,
         NEW a \in Actors, ReadRequest(a), NEW p, p = Head(up[a])
  PROVE  NobodyWaits(a, p)
<1>1. /\ p \in Asks(a) /\ p.svc \in Services /\ up[a] # <<>> /\ coro[a].at = "read"
      /\ \A d \in CallIds : ~Awaits(a, d)
      /\ ResumedStep(a)
  <2>1. p \in Request
    BY RequestFacts
  <2> QED
    BY <2>1, RequestFacts DEF Request
<1>2. ~Waiting(a)
  <2>1. ~Freeing(a)
    BY <1>1, RepliesApart DEF Freeing
  <2> QED
    BY <1>1, <2>1 DEF CallsInv, WaitsRight
<1>3. MayAsk(a, p.svc)
  BY <1>1 DEF LevelInv, Provided
<1>4. ASSUME p.svc \in DOMAIN ServiceMap, NEW q \in Items(Peers(p.svc))
      PROVE  q # a /\ ~Waiting(q)
  <2>1. q \in Actors /\ Provides(q, p.svc)
    BY <1>4, PeersProvide DEF LevelInv
  <2>2. MayCall(a, q) /\ q # a
    BY <1>3, <2>1, Callers
  <2>3. ~Waiting(q)
    BY <1>1, <2>1, <2>2, MiddleCaller
  <2> QED
    BY <2>2, <2>3
<1> QED
  BY <1>2, <1>4 DEF NobodyWaits

\* What a step may add to the chains and the packs.
LEMMA LevelStays ==
  ASSUME LevelInv, Grouped', NoRequestWaits',
         \A c \in CallIds : \A x, y \in Actors :
           Behind(x, y, c)' => Behind(x, y, c) \/ MayCall(x, y),
         \A c \in CallIds : Opened(c)' => Opened(c) \/ Foreign(c),
         \A b \in Actors : Waiting(b)' => Waiting(b) \/ AsksOthers(NodeOf[b]),
         \A b \in Actors : \A m \in Clients(b)' :
           m \in Clients(b) \/ (NodeOf[b] \in ClientNodes /\ Provides(b, m.svc)),
         \A b \in Actors : \A p \in Works(b)' :
           \/ p \in Works(b)
           \/ Provides(b, p.svc) /\ MayCall(p.req[1], b) /\ Foreign(p.call),
         \A b \in Actors : \A p \in Asks(b)' :
           p \in Asks(b) \/ (MayAsk(b, p.svc) /\ Foreign(p.call)),
         \A b \in Actors : Threaded(b)'
  PROVE  LevelInv'
<1>1. Linked'
  <2>1. /\ \A c \in CallIds : \A x, y \in Actors : Behind(x, y, c)' => MayCall(x, y)
        /\ \A c \in CallIds : Opened(c)' => Foreign(c)
        /\ \A b \in Actors : Waiting(b)' => AsksOthers(NodeOf[b])
    BY DEF LevelInv, Linked
  <2> QED
    BY <2>1 DEF Linked
<1>2. ASSUME NEW b \in Actors
      PROVE  Provided(b)'
  <2>1. /\ \A m \in Clients(b)' : NodeOf[b] \in ClientNodes /\ Provides(b, m.svc)
        /\ \A p \in Works(b)' : /\ Provides(b, p.svc) /\ MayCall(p.req[1], b)
                                /\ Foreign(p.call)
        /\ \A p \in Asks(b)' : MayAsk(b, p.svc) /\ Foreign(p.call)
    BY DEF LevelInv, Provided
  <2> QED
    BY <2>1 DEF Provided
<1> QED
  BY <1>1, <1>2 DEF LevelInv

\* A step of the proxy leaves what a process does alone.
LEMMA CtxLevel ==
  ASSUME LevelInv, ctx' = ctx
  PROVE  /\ \A b \in Actors : Clients(b)' = Clients(b)
         /\ \A b \in Actors : Threaded(b)'
<1>1. \A b \in Actors : Clients(b)' = Clients(b)
  BY DEF Clients
<1>2. \A b \in Actors : Threaded(b)'
  BY DEF LevelInv, Threaded
<1> QED
  BY <1>1, <1>2

LEMMA GroupedSame ==
  ASSUME LevelInv, actor_info_map' = actor_info_map
  PROVE  Grouped'
  BY DEF LevelInv, Grouped

LEMMA StillLevel ==
  ASSUME LevelInv, NEW a \in Actors, Still(a), Grouped', NoRequestWaits'
  PROVE  LevelInv'
<1>1. \A c \in CallIds : ChainSame(c)
  BY ChainsSame DEF Still
<1>2. \A c \in CallIds : \A x, y \in Actors : Behind(x, y, c)' => Behind(x, y, c)
  BY <1>1 DEF ChainSame
<1>3. \A c \in CallIds : Opened(c)' => Opened(c)
  BY <1>1 DEF ChainSame
<1>4. /\ \A b \in Actors : Waiting(b)' => Waiting(b)
      /\ \A b \in Actors : Works(b)' = Works(b) /\ Asks(b)' = Asks(b)
      /\ ctx' = ctx
  BY DEF Still
<1> QED
  BY <1>2, <1>3, <1>4, CtxLevel, LevelStays

\* A response pops the chain of its call.
LEMMA ResponseLevel ==
  ASSUME Typed, LineInv, PacksInv, CallsInv, LevelInv, NEW a \in Actors,
         ReadResponse(a), ctx' = ctx
  PROVE  LevelInv'
<1>1. SUFFICES ASSUME NEW p, p = Head(up[a]), NEW c, c = p.call, NEW r, r = Prev(c)
               PROVE  LevelInv'
  OBVIOUS
<1>2. /\ c \in CallIds /\ r \in Actors /\ r # a /\ Joined(c) /\ Opened(c) /\ Last(c) = a
      /\ up[a] # <<>> /\ up' = [up EXCEPT ![a] = Tail(@)]
      /\ call_chain' = [call_chain EXCEPT ![c] = Popped(@)]
      /\ Transmit(r, p) /\ actor_info' = actor_info
      /\ p \in Answers(a)
  BY <1>1, ResponseFacts
<1>3. \A d \in CallIds \ {c} : ChainSame(d)
  <2>1. Straight(c)
    BY <1>2 DEF CallsInv, ChainsRight, NoLoop
  <2> QED
    BY <1>2, <2>1, PoppedChains
<1>4. \A x, y \in Actors : Behind(x, y, c)' => Behind(x, y, c)
  <2>1. Straight(c)
    BY <1>2 DEF CallsInv, ChainsRight, NoLoop
  <2> QED
    BY <1>2, <2>1, PoppedChains
<1>5. \A b \in Actors : Works(b)' = Works(b) /\ Asks(b)' = Asks(b)
  <2>1. p \in Response /\ p.type = "RESPONSE"
    BY <1>2, PacksTyped, PacksKinds
  <2>2. up'[a] = Tail(up[a]) /\ \A b \in Actors \ {a} : up'[b] = up[b]
    <3>1. up \in [Actors -> Seq(UpPack)]
      BY TypedParts
    <3> QED
      BY <1>2, <3>1
  <2> QED
    BY <1>1, <1>2, <2>1, <2>2, ResponsePacks
<1>6. Grouped' /\ NoRequestWaits'
  <2>1. actor_info_map' = actor_info_map
    BY DEF ReadResponse
  <2>2. NoRequestWaits'
    BY <1>2 DEF LevelInv, NoRequestWaits
  <2> QED
    BY <2>1, <2>2, GroupedSame
<1>7. \A b \in Actors : Waiting(b)' => Waiting(b)
  BY <1>2 DEF Waiting
<1>8. \A d \in CallIds : \A x, y \in Actors : Behind(x, y, d)' => Behind(x, y, d)
  BY <1>3, <1>4 DEF ChainSame
<1>9. \A d \in CallIds : Opened(d)' => Opened(d)
  BY <1>2, <1>3 DEF ChainSame
<1> QED
  BY <1>5, <1>6, <1>7, <1>8, <1>9, CtxLevel, LevelStays

\* A request that the proxy reads starts a chain, and whoever gets it joins.
LEMMA RequestLevel ==
  ASSUME Typed, AckInv, LineInv, PacksInv, CallsInv, LevelInv, OneAsker,
         NEW a \in Actors, ReadRequest(a), ctx' = ctx
  PROVE  LevelInv'
<1>1. SUFFICES ASSUME NEW p, p = Head(up[a]), NEW c, c = p.call
               PROVE  LevelInv'
  OBVIOUS
<1>2. /\ p \in Asks(a) /\ p \in Request /\ c \in CallIds
      /\ p.pid = a /\ p.req[1] = a
      /\ Opened(c) => Last(c) = a
      /\ ~Awaits(a, c)
      /\ up' = [up EXCEPT ![a] = Tail(@)] /\ up'[a] = <<>>
      /\ ctx[a].phase \in {"up", "dead"}
  BY <1>1, RequestFacts
<1>3. MayAsk(a, p.svc) /\ Foreign(c)
  BY <1>1, <1>2 DEF LevelInv, Provided
<1>4. /\ DroppedAt(a, c) \/ \E to \in Actors : HandedTo(a, p, to)
      /\ NoRequestWaits'
  <2>1. NobodyWaits(a, p) /\ NoRequestWaits
    BY <1>1, NobodyThere DEF LevelInv
  <2> QED
    BY <1>1, <1>2, <2>1, RequestOutcome
<1>5. Grouped'
  <2>1. actor_info_map' = actor_info_map
    BY DEF ReadRequest
  <2> QED
    BY <2>1, GroupedSame
<1>6. Straight(c)
  BY <1>2 DEF CallsInv, ChainsRight, NoLoop
<1>7. \A b \in Actors \ {a} : up'[b] = up[b]
  <2>1. up \in [Actors -> Seq(UpPack)]
    BY TypedParts
  <2> QED
    BY <1>2, <2>1
<1>8. CASE DroppedAt(a, c)
  <2>1. /\ call_chain' = [call_chain EXCEPT ![c] = Started(@, a)]
        /\ down' = down
        /\ \A b \in Actors : Waiting(b)' <=> Waiting(b)
    BY <1>8 DEF DroppedAt
  <2>2. /\ \A d \in CallIds : Opened(d) \/ d # c => ChainSame(d)
        /\ \A d \in CallIds : \A x, y : Behind(x, y, d)' <=> Behind(x, y, d)
    BY <1>2, <1>6, <2>1, StartedChains
  <2>3. \A d \in CallIds : Opened(d)' => Opened(d) \/ Foreign(d)
    BY <1>3, <2>2 DEF ChainSame
  <2>4. \A b \in Actors : Works(b)' = Works(b) /\ Asks(b)' \subseteq Asks(b)
    BY <1>2, <1>7, <2>1, AskedPacks
  <2> QED
    BY <1>4, <1>5, <2>1, <2>2, <2>3, <2>4, CtxLevel, LevelStays
<1>9. ASSUME NEW to \in Actors, HandedTo(a, p, to)
      PROVE  LevelInv'
  <2>1. /\ call_chain' = [call_chain EXCEPT ![c] = Append(Started(@, a), to)]
        /\ Transmit(to, p)
        /\ p.svc \in DOMAIN ServiceMap /\ to \in Items(Peers(p.svc))
        /\ \A b \in Actors : Waiting(b)' <=> (b = a \/ Waiting(b))
    BY <1>1, <1>9 DEF HandedTo
  <2>2. Provides(to, p.svc) /\ MayCall(a, to) /\ AsksOthers(NodeOf[a])
    BY <1>3, <2>1, PeersProvide, Callers DEF LevelInv
  <2>3. /\ \A d \in CallIds \ {c} : ChainSame(d)
        /\ \A x, y : Behind(x, y, c)' <=> Behind(x, y, c) \/ (x = a /\ y = to)
    BY <1>2, <1>6, <2>1, JoinedChains
  <2>4. \A d \in CallIds : Opened(d)' => Opened(d) \/ Foreign(d)
    BY <1>3, <2>3 DEF ChainSame
  <2>5. \A d \in CallIds : \A x, y \in Actors :
          Behind(x, y, d)' => Behind(x, y, d) \/ MayCall(x, y)
    BY <2>2, <2>3 DEF ChainSame
  <2>6. \A b \in Actors :
          /\ Works(b)' \subseteq Works(b) \cup {p}
          /\ b # to => Works(b)' = Works(b)
          /\ Asks(b)' \subseteq Asks(b)
    BY <1>2, <1>7, <2>1, AskedPacks
  <2>7. \A b \in Actors : \A q \in Works(b)' :
          \/ q \in Works(b)
          \/ Provides(b, q.svc) /\ MayCall(q.req[1], b) /\ Foreign(q.call)
    BY <1>1, <1>2, <1>3, <2>2, <2>6
  <2>8. \A b \in Actors : Waiting(b)' => Waiting(b) \/ AsksOthers(NodeOf[b])
    BY <2>1, <2>2
  <2> QED
    BY <1>4, <1>5, <2>4, <2>5, <2>6, <2>7, <2>8, CtxLevel, LevelStays
<1> QED
  BY <1>4, <1>8, <1>9

\* A process takes no request of its own accord, and asks what it sends.
LEMMA OwnAsks ==
  ASSUME Typed, AckInv, LineInv, PacksInv, CallsInv, NEW a \in Actors, OwnStep(a)
  PROVE  /\ Works(a)' \subseteq Works(a)
         /\ \/ Asks(a)' \subseteq Asks(a)
            \/ \E s \in Services :
                 Send(a, s) /\ Asks(a)' \subseteq Asks(a) \cup {SentPack(a, s)}
<1>1. CASE QuietStep(a)
  BY <1>1, QuietSteps DEF QuietAt
<1>2. /\ ctx \in [Actors -> Ctx] /\ ctx[a] \in Ctx
      /\ up \in [Actors -> Seq(UpPack)] /\ up[a] \in Seq(UpPack)
      /\ down \in [Actors -> Seq(DownPack)] /\ down[a] \in Seq(DownPack)
  BY TypedParts
<1>3. CASE ReceiveResponse(a)
  <2>1. /\ down[a] # <<>> /\ up' = up /\ down' = [down EXCEPT ![a] = Tail(@)]
        /\ ctx' = [ctx EXCEPT ![a].pending = NoReq]
    BY <1>3 DEF ReceiveResponse, Receives
  <2>2. /\ ctx'[a].inbox = ctx[a].inbox /\ ctx'[a].job = ctx[a].job
        /\ down'[a] = Tail(down[a]) /\ up'[a] = up[a]
    BY <1>2, <2>1 DEF Ctx
  <2>3. Requests(Tail(down[a])) \subseteq Requests(down[a])
    BY <1>2, <2>1, KindsTail
  <2> QED
    BY <2>2, <2>3, PacksPrimes DEF Asks, Works
<1>4. ASSUME link[a] = "open", NEW s \in Services, Send(a, s)
      PROVE  Works(a)' \subseteq Works(a) /\ Asks(a)' \subseteq Asks(a) \cup {SentPack(a, s)}
  <2> SUFFICES ASSUME NEW p, p = SentPack(a, s)
               PROVE  Works(a)' \subseteq Works(a) /\ Asks(a)' \subseteq Asks(a) \cup {p}
    OBVIOUS
  <2>1. /\ Sent(a) \in Ctx /\ Sent(a).inbox = ctx[a].inbox /\ Sent(a).job = ctx[a].job
        /\ ctx' = [ctx EXCEPT ![a] = [Sent(a) EXCEPT !.pending = SentReq(a)]]
        /\ up' = [up EXCEPT ![a] = Append(@, p)] /\ down' = down
        /\ p \in Request
    BY <1>4, SendFacts
  <2>2. /\ ctx'[a].inbox = ctx[a].inbox /\ ctx'[a].job = ctx[a].job
        /\ up'[a] = Append(up[a], p) /\ down'[a] = down[a]
    BY <1>2, <2>1 DEF Ctx
  <2>3. p \in UpPack
    BY <2>1 DEF UpPack
  <2>4. Requests(Append(up[a], p)) \subseteq Requests(up[a]) \cup {p}
    <3>1. Requests(Append(up[a], p)) =
            Requests(up[a]) \cup (IF p.type = "REQUEST" THEN {p} ELSE {})
      BY ONLY <1>2, <2>3, KindsAppend
    <3> QED
      BY <3>1
  <2>5. Works(a)' \subseteq Works(a)
    BY <2>2, PacksPrimes DEF Works
  <2>6. Asks(a)' \subseteq Asks(a) \cup {p}
    BY <2>2, <2>4, PacksPrimes DEF Asks
  <2> QED
    BY <2>5, <2>6
<1>5. CASE Finish(a) /\ ctx[a].job.type # "CLIENT" /\ ~ctx[a].error
  <2> SUFFICES ASSUME NEW p, p = AnswerTo(ctx[a].job)
               PROVE  Works(a)' \subseteq Works(a) /\ Asks(a)' \subseteq Asks(a)
    OBVIOUS
  <2>1. /\ ctx' = [ctx EXCEPT ![a] = [ctx[a] EXCEPT !.job = NoMsg,
                                       !.call_id = NoCall, !.error = FALSE]]
        /\ down' = down /\ up' = [up EXCEPT ![a] = Append(@, p)]
        /\ ctx[a].job \in Request
    BY <1>5, FinishFacts, PackKinds DEF Finish, AnswerTo
  <2>2. /\ ctx'[a].inbox = ctx[a].inbox /\ ctx'[a].job = NoMsg
        /\ up'[a] = Append(up[a], p) /\ down'[a] = down[a]
    BY <1>2, <2>1 DEF Ctx
  <2>3. p \in UpPack /\ p.type = "RESPONSE"
    BY <2>1, AnswerFacts DEF UpPack
  <2>4. Requests(Append(up[a], p)) = Requests(up[a])
    <3>1. Requests(Append(up[a], p)) =
            Requests(up[a]) \cup (IF p.type = "REQUEST" THEN {p} ELSE {})
      BY ONLY <1>2, <2>3, KindsAppend
    <3> QED
      BY <2>3, <3>1
  <2>5. Requests(JobLine(NoMsg)) = {}
    BY KindsNone DEF JobLine
  <2> QED
    BY <2>2, <2>4, <2>5, PacksPrimes DEF Asks, Works
<1> QED
  BY <1>1, <1>3, <1>4, <1>5 DEF OwnStep, ActorStep, ActorRuns, QuietStep

\* The service a process runs is one that it provides.
LEMMA ServedProvided ==
  ASSUME Typed, LineInv, CallsInv, LevelInv, NEW a \in Actors, Serving(a)
  PROVE  Provides(a, ctx[a].job.svc)
<1> DEFINE j == ctx[a].job
<1>1. j # NoMsg /\ j \in Msg /\ (j.type = "REQUEST" => j \in Works(a))
  BY ServingFacts DEF Serving
<1>2. CASE j.type = "CLIENT"
  <2>1. JobLine(j) = <<j>>
    BY <1>1 DEF JobLine
  <2>2. j \in Items(JobLine(j))
    BY <2>1, ItemsOf
  <2>3. j \in Clients(a)
    BY <1>2, <2>2 DEF Clients
  <2> QED
    BY <2>3 DEF LevelInv, Provided
<1>3. CASE j.type = "REQUEST"
  BY <1>1, <1>3 DEF LevelInv, Provided
<1> QED
  BY <1>1, <1>2, <1>3, PackKinds

\* What a process sends is what its service may ask for; in the middle it
\* sends it under the call id of the request.
LEMMA SentLevel ==
  ASSUME Typed, LineInv, PacksInv, CallsInv, LevelInv, NEW a \in Actors,
         NEW s \in Services, Send(a, s)
  PROVE  /\ MayAsk(a, s) /\ Foreign(SentCall(a))
         /\ Middle(a) => SentCall(a) = ctx[a].call_id
<1> DEFINE j == ctx[a].job
<1>1. /\ Serving(a) /\ j # NoMsg /\ s \in Calls[j.svc] /\ ~Provides(a, s)
  BY DEF Send, Serving
<1>2. j \in Msg /\ (j.type = "REQUEST" => j \in Works(a) /\ j.call \in CallIds)
  <2>1. j \in Msg /\ (j.type = "REQUEST" => j \in Works(a))
    BY <1>1, ServingFacts
  <2> QED
    BY <2>1, PackKinds, RequestFields
<1>3. Provides(a, j.svc)
  BY <1>1, ServedProvided
<1>4. MayAsk(a, s)
  BY <1>1, <1>3 DEF MayAsk, Provides
<1>5. Middle(a) => j.type = "REQUEST" /\ ctx[a].call_id = j.call
  BY <1>1 DEF LevelInv, Threaded
<1>6. Middle(a) => ctx[a].call_id # NoCall
  BY <1>2, <1>5, ConstantsAssumption
<1>7. Middle(a) => SentCall(a) = ctx[a].call_id
  BY <1>6 DEF SentCall
<1>8. j.type = "REQUEST" => Foreign(j.call)
  BY <1>2 DEF LevelInv, Provided
<1>9. Foreign(SentCall(a))
  <2>1. CASE Middle(a)
    BY <1>5, <1>7, <1>8, <2>1
  <2>2. CASE ~Middle(a) /\ SentCall(a)[1] = a
    BY <2>2 DEF Foreign
  <2>3. SentCall(a)[1] = a \/ (j.type = "REQUEST" /\ j.call = SentCall(a))
    BY DEF CallsInv, CallIdRight, SentCall
  <2> QED
    BY <1>8, <2>1, <2>2, <2>3
<1> QED
  BY <1>4, <1>7, <1>9

\* A process in the middle that serves gets no other request.
LEMMA MiddleAlone ==
  ASSUME Typed, PacksInv, CallsInv, LevelInv, OneAsker, NEW a \in Actors, Middle(a),
         ctx[a].job # NoMsg, NEW q \in Requests(down[a])
  PROVE  FALSE
<1> DEFINE j == ctx[a].job
           L == AllLines(up, Queues(Maps), down, ctx)
<1>1. j.type = "REQUEST"
  BY DEF LevelInv, Threaded
<1>2. j \in Items(JobLine(j))
  <2>1. JobLine(j) = <<j>>
    BY DEF JobLine
  <2> QED
    BY <2>1, ItemsOf
<1>3. j \in Works(a) /\ q \in Works(a)
  BY <1>1, <1>2 DEF Works, Requests
<1>4. MayCall(j.req[1], a) /\ MayCall(q.req[1], a)
  BY <1>3 DEF LevelInv, Provided
<1>5. j.req[1] \in Actors /\ q.req[1] \in Actors
  BY <1>3, PacksTyped DEF Packs
<1>6. j.req[1] = q.req[1]
  BY <1>4, <1>5 DEF OneAsker
<1>7. j.req = q.req
  <2>1. j \in Packs(a) /\ q \in Packs(a)
    BY <1>3 DEF Packs
  <2>2. OneCall
    BY DEF CallsInv
  <2> QED
    BY ONLY <1>6, <2>1, <2>2, a \in Actors DEF OneCall
<1>8. Once(L)
  BY DEF PacksInv, PacksGood, Good
<1>9. /\ <<"job", a>> \in LineNames /\ <<"down", a>> \in LineNames
      /\ InLine(L, <<"job", a>>, j) /\ InLine(L, <<"down", a>>, q)
  <2>1. /\ L[<<"job", a>>] = JobLine(j) /\ L[<<"down", a>>] = down[a]
        /\ <<"job", a>> \in LineNames /\ <<"down", a>> \in LineNames
    BY LineAt
  <2> QED
    BY <1>2, <2>1 DEF InLine, Items, Requests
<1>10. Named(j) /\ Named(q)
  BY <1>1 DEF Named, Requests
<1> HIDE DEF L, j
<1>11. <<"job", a>> = <<"down", a>>
  BY <1>7, <1>8, <1>9, <1>10, OnceInLine
<1> QED
  BY <1>11

\* What is in the hands of a process after a step of its own, apart from the
\* requests: what was, and what a client of its own brings.
LEMMA OwnThread ==
  ASSUME Typed, AckInv, LineInv, PacksInv, CallsInv, LevelInv, OneAsker,
         NEW a \in Actors, OwnStep(a)
  PROVE  /\ \A m \in Clients(a)' :
              m \in Clients(a) \/ (NodeOf[a] \in ClientNodes /\ Provides(a, m.svc))
         /\ Threaded(a)'
<1> DEFINE Had  == Items(ctx[a].inbox) \cup Items(JobLine(ctx[a].job))
           Has  == Items(ctx'[a].inbox) \cup Items(JobLine(ctx'[a].job))
           New(m) == NodeOf[a] \in ClientNodes /\ Provides(a, m.svc)
           Brings == \A m \in Has : m.type = "CLIENT" => m \in Had \/ New(m)
           Thread == (Middle(a) /\ ctx'[a].job # NoMsg) =>
                       ctx'[a].job.type = "REQUEST" /\ ctx'[a].call_id = ctx'[a].job.call
           Same == ctx'[a].job = ctx[a].job /\ ctx'[a].call_id = ctx[a].call_id
<1>1. /\ ctx \in [Actors -> Ctx] /\ ctx[a] \in Ctx
      /\ ctx[a].inbox \in Seq(Msg) /\ ctx[a].job \in Msg \cup {NoMsg}
      /\ down[a] \in Seq(DownPack)
  BY TypedParts, CtxFields
<1>2. /\ \A x \in Msg : Items(Append(ctx[a].inbox, x)) = Items(ctx[a].inbox) \cup {x}
      /\ ctx[a].inbox # <<>> =>
           /\ Items(Tail(ctx[a].inbox)) \subseteq Items(ctx[a].inbox)
           /\ Head(ctx[a].inbox) \in Items(ctx[a].inbox)
           /\ Head(ctx[a].inbox) \in Msg
      /\ down[a] # <<>> => /\ Head(down[a]) \in DownPack
                           /\ Head(down[a]) \in Items(down[a])
  BY <1>1, ItemsAppend, ItemsTail, TailFacts
<1>3. /\ JobLine(NoMsg) = <<>> /\ Items(<<>>) = {}
      /\ \A x \in Msg : Items(JobLine(x)) = {x}
  BY ItemsOf, NoMsgAssumption DEF JobLine
<1>4. Same => Thread
  BY DEF LevelInv, Threaded
<1>5. (ctx'[a].inbox = ctx[a].inbox /\ ctx'[a].job = ctx[a].job) => Brings
  OBVIOUS
<1>6. SUFFICES Brings /\ Thread
  <2>1. Brings => \A m \in Clients(a)' : m \in Clients(a) \/ New(m)
    BY DEF Clients
  <2>2. Thread => Threaded(a)'
    BY DEF Threaded
  <2> QED
    BY <2>1, <2>2
<1>7. CASE ActorConnect(a) \/ ReceiveConnack(a) \/ ReceiveResponse(a)
             \/ \E s \in Services : SendRefused(a, s)
  <2>1. ctx'[a].inbox = ctx[a].inbox /\ Same
    BY <1>1, <1>7
       DEF ActorConnect, ReceiveConnack, ReceiveResponse, SendRefused, Ctx
  <2> QED
    BY <1>4, <1>5, <2>1
<1>8. CASE ReceiveRequest(a)
  <2> DEFINE p == Head(down[a])
  <2>1. /\ down[a] # <<>> /\ p.type = "REQUEST"
        /\ ctx' = [ctx EXCEPT ![a].call_id = NoCall, ![a].inbox = Append(@, p)]
    BY <1>8 DEF ReceiveRequest, Receives, IsNext
  <2>2. ctx'[a].inbox = Append(ctx[a].inbox, p) /\ ctx'[a].job = ctx[a].job
    BY <1>1, <2>1 DEF Ctx
  <2>3. p \in Msg /\ p \in Requests(down[a])
    BY <1>2, <2>1, PackKinds DEF Msg, Requests
  <2>4. ~(Middle(a) /\ ctx[a].job # NoMsg)
    BY <2>3, MiddleAlone
  <2> HIDE DEF p
  <2>5. Has = Had \cup {p}
    BY <1>2, <2>2, <2>3
  <2>6. Brings
    BY <2>1, <2>5
  <2> QED
    BY <2>2, <2>4, <2>6
<1>9. CASE SkipStale(a)
  <2>1. ctx[a].inbox # <<>> /\ ctx' = [ctx EXCEPT ![a].inbox = Tail(@)]
    BY <1>9 DEF SkipStale, TakesMsg
  <2>2. ctx'[a].inbox = Tail(ctx[a].inbox) /\ Same
    BY <1>1, <2>1 DEF Ctx
  <2> QED
    BY <1>2, <1>4, <2>1, <2>2
<1>10. CASE StartJob(a)
  <2> DEFINE p == Head(ctx[a].inbox)
  <2>1. /\ ctx[a].inbox # <<>>
        /\ ctx' = [ctx EXCEPT ![a].inbox = Tail(@), ![a].job = p, ![a].call_id = p.call]
    BY <1>10 DEF StartJob, TakesMsg
  <2>2. /\ ctx'[a].inbox = Tail(ctx[a].inbox) /\ ctx'[a].job = p
        /\ ctx'[a].call_id = p.call
    BY <1>1, <2>1 DEF Ctx
  <2>3. p \in Msg /\ p \in Items(ctx[a].inbox)
    BY <1>2, <2>1
  <2>4. p.type = "CLIENT" => ~Middle(a)
    <3>1. p.type = "CLIENT" => p \in Clients(a)
      BY <2>3 DEF Clients
    <3>2. p.type = "CLIENT" => NodeOf[a] \in ClientNodes
      BY <3>1 DEF LevelInv, Provided
    <3> QED
      BY <3>2 DEF OneAsker
  <2>5. p.type = "CLIENT" \/ p.type = "REQUEST"
    BY <2>3, PackKinds
  <2> HIDE DEF p
  <2>6. Has \subseteq Had
    BY <1>2, <1>3, <2>1, <2>2, <2>3
  <2>7. Brings
    BY <2>6
  <2> QED
    BY <2>2, <2>4, <2>5, <2>7
<1>11. CASE Finish(a) \/ Crash(a)
  <2>1. ctx'[a].job = NoMsg /\ ctx'[a].inbox \in {ctx[a].inbox, <<>>}
    <3>1. CASE Finish(a)
      <4>1. ctx' = [ctx EXCEPT ![a] = [ctx[a] EXCEPT !.job = NoMsg,
                                         !.call_id = NoCall, !.error = FALSE]]
        BY <3>1, FinishFacts
      <4> QED
        BY <1>1, <4>1 DEF Ctx
    <3>2. CASE Crash(a)
      <4>1. ctx' = [ctx EXCEPT ![a] =
                      [@ EXCEPT !.phase = "dead", !.inbox = <<>>, !.job = NoMsg,
                                !.pending = NoReq, !.call_id = NoCall]]
        BY <3>2 DEF Crash
      <4> QED
        BY <1>1, <4>1 DEF Ctx
    <3> QED
      BY <1>11, <3>1, <3>2
  <2> QED
    BY <1>3, <2>1
<1>12. ASSUME NEW s \in Services, Send(a, s)
       PROVE  Brings /\ Thread
  <2>1. ctx'[a].inbox = ctx[a].inbox /\ ctx'[a].job = ctx[a].job
    BY <1>1, <1>12, SendFacts DEF Ctx
  <2>2. ctx'[a].call_id = SentCall(a)
    <3>1. Sent(a).call_id = SentCall(a)
      BY <1>1 DEF Sent, Ctx
    <3> QED
      BY <1>1, <1>12, <3>1, SendFacts DEF Ctx
  <2>3. Middle(a) => SentCall(a) = ctx[a].call_id
    BY <1>12, SentLevel
  <2>4. Middle(a) => Same
    BY <2>1, <2>2, <2>3
  <2> QED
    BY <1>4, <1>5, <2>1, <2>4
<1>13. ASSUME NEW s \in Services, ClientRequest(a, s)
       PROVE  Brings /\ Thread
  <2> DEFINE p == [type |-> "CLIENT", call |-> NoCall, svc |-> s]
  <2>1. /\ NodeOf[a] \in ClientNodes /\ Provides(a, s)
        /\ ctx' = [ctx EXCEPT ![a].inbox = Append(@, p)]
    BY <1>13 DEF ClientRequest
  <2>2. p \in Msg /\ p.svc = s
    BY DEF Msg, ClientMsg
  <2> HIDE DEF p
  <2>3. ctx'[a].inbox = Append(ctx[a].inbox, p) /\ Same
    BY <1>1, <2>1 DEF Ctx
  <2>4. Has = Had \cup {p} /\ New(p)
    BY <1>2, <2>1, <2>2, <2>3
  <2> QED
    BY <1>4, <2>3, <2>4
<1> QED
  BY <1>7, <1>8, <1>9, <1>10, <1>11, <1>12, <1>13 DEF OwnStep, ActorStep, ActorRuns

LEMMA OwnLevel ==
  ASSUME Typed, AckInv, LineInv, PacksInv, CallsInv, LevelInv, OneAsker,
         NEW a \in Actors, OwnStep(a)
  PROVE  LevelInv'
<1>1. UNCHANGED <<actor_info, actor_info_map, call_chain>>
  BY OwnFacts
<1>2. \A c \in CallIds : ChainSame(c)
  BY <1>1, ChainsSame
<1>3. Grouped' /\ NoRequestWaits' /\ \A b \in Actors : Waiting(b)' => Waiting(b)
  BY <1>1, GroupedSame DEF LevelInv, NoRequestWaits, Waiting
<1>4. \A b \in Actors \ {a} : /\ Asks(b)' = Asks(b) /\ Works(b)' = Works(b)
                              /\ ctx'[b] = ctx[b]
  BY OthersSame
<1>5. \A b \in Actors \ {a} : Clients(b)' = Clients(b) /\ Threaded(b)'
  BY <1>4 DEF Clients, LevelInv, Threaded
<1>6. /\ \A m \in Clients(a)' :
           m \in Clients(a) \/ (NodeOf[a] \in ClientNodes /\ Provides(a, m.svc))
      /\ Threaded(a)'
  BY OwnThread
<1>7. Works(a)' \subseteq Works(a)
  BY OwnAsks
<1>8. \A p \in Asks(a)' : p \in Asks(a) \/ (MayAsk(a, p.svc) /\ Foreign(p.call))
  <2>1. ASSUME NEW s \in Services, Send(a, s)
        PROVE  MayAsk(a, SentPack(a, s).svc) /\ Foreign(SentPack(a, s).call)
    BY <2>1, SentLevel DEF SentPack
  <2> QED
    BY <2>1, OwnAsks
<1>9. /\ \A c \in CallIds : \A x, y \in Actors : Behind(x, y, c)' => Behind(x, y, c)
      /\ \A c \in CallIds : Opened(c)' => Opened(c)
  BY <1>2 DEF ChainSame
<1>10. /\ \A b \in Actors : \A m \in Clients(b)' :
            m \in Clients(b) \/ (NodeOf[b] \in ClientNodes /\ Provides(b, m.svc))
       /\ \A b \in Actors : \A p \in Works(b)' : p \in Works(b)
       /\ \A b \in Actors : \A p \in Asks(b)' :
            p \in Asks(b) \/ (MayAsk(b, p.svc) /\ Foreign(p.call))
       /\ \A b \in Actors : Threaded(b)'
  BY <1>4, <1>5, <1>6, <1>7, <1>8
<1> QED
  BY <1>3, <1>9, <1>10, LevelStays

\* RequestDone writes that nobody waits, and leaves the queues.
LEMMA DoneQueues ==
  ASSUME Typed, NoRequestWaits, NEW a \in Actors, RequestDone(a)
  PROVE  NoRequestWaits'
<1> DEFINE m == RequestWritten(Maps, coro[a])
<1>1. coro[a].at = "request" /\ actor_info' = m.info
  BY DEF RequestDone, Resumes
<1>2. Maps \in MapsType /\ FrameSet(coro[a]) /\ Maps.info = actor_info
      /\ coro[a] \in Frame
  BY TypedParts
<1>3. m \in MapsType /\ Queues(m) = Queues(Maps)
  BY <1>1, <1>2, RequestWrittenFacts DEF FrameSet
<1> HIDE DEF m
<1>4. \A b \in Actors : m.info[b].msg_queue = actor_info[b].msg_queue
  BY <1>2, <1>3, MapsFields
<1> QED
  BY <1>1, <1>4 DEF NoRequestWaits

LEMMA GroupedAppend ==
  ASSUME Typed, Grouped, NEW a \in Actors,
         actor_info_map' = [actor_info_map EXCEPT ![NodeOf[a]] = Append(@, a)]
  PROVE  Grouped'
<1> SUFFICES ASSUME NEW n \in Nodes, NEW i \in DOMAIN actor_info_map'[n]
             PROVE  NodeOf[actor_info_map'[n][i]] = n
  BY DEF Grouped
<1>1. actor_info_map[n] \in Seq(Actors)
  BY TypedParts
<1>2. CASE n # NodeOf[a]
  <2>1. actor_info_map'[n] = actor_info_map[n]
    BY <1>2, TypedParts
  <2> QED
    BY <2>1 DEF Grouped
<1>3. CASE n = NodeOf[a]
  <2>1. actor_info_map'[n] = Append(actor_info_map[n], a)
    BY <1>3, TypedParts
  <2>2. i \in DOMAIN actor_info_map[n] => actor_info_map'[n][i] = actor_info_map[n][i]
    BY <1>1, <2>1
  <2>3. i \notin DOMAIN actor_info_map[n] => actor_info_map'[n][i] = a
    BY <1>1, <2>1
  <2> QED
    BY <1>3, <2>2, <2>3 DEF Grouped
<1> QED
  BY <1>2, <1>3

LEMMA ProxiesLevel ==
  ASSUME Typed, AckInv, LineInv, PacksInv, CallsInv, LevelInv, OneAsker,
         NEW a \in Actors, Proxies(a)
  PROVE  LevelInv'
<1>1. ProxyStep(a) /\ UNCHANGED ctx
  BY DEF Proxies
<1>2. actor_info_map' = actor_info_map => Grouped'
  BY GroupedSame
<1>3. (Still(a) /\ actor_info_map' = actor_info_map /\ NoRequestWaits') => LevelInv'
  BY <1>2, StillLevel
<1>4. CASE Accept(a) \/ Arrive(a) \/ ConnackWritten(a) \/ ReadEof(a)
  <2>1. Still(a)
    BY <1>4, StillStart, StillWritten
  <2>2. actor_info' = actor_info /\ actor_info_map' = actor_info_map
    BY <1>4 DEF Accept, Arrive, ConnackWritten, ReadEof
  <2>3. NoRequestWaits'
    BY <2>2 DEF LevelInv, NoRequestWaits
  <2> QED
    BY <1>3, <2>1, <2>2, <2>3
<1>5. CASE RequestDone(a)
  <2>1. Still(a)
    BY <1>5, StillWritten
  <2>2. actor_info_map' = actor_info_map /\ NoRequestWaits'
    BY <1>5, DoneQueues DEF LevelInv, RequestDone
  <2> QED
    BY <1>3, <2>1, <2>2
<1>6. CASE ReadConnect(a)
  <2>1. Still(a)
    BY <1>6, StillConnect
  <2>2. /\ actor_info' = [actor_info EXCEPT ![a] =
                            [call_id |-> NoCall, is_waiting |-> FALSE,
                             msg_queue |-> <<>>]]
        /\ actor_info_map' = [actor_info_map EXCEPT ![NodeOf[a]] = Append(@, a)]
    BY <1>6 DEF ReadConnect
  <2>3. NoRequestWaits'
    BY <2>2, TypedParts DEF LevelInv, NoRequestWaits
  <2>4. Grouped'
    BY <2>2, GroupedAppend DEF LevelInv
  <2> QED
    BY <2>1, <2>3, <2>4, StillLevel
<1>7. CASE ReplyWritten(a)
  <2>1. Still(a) /\ NoRequestWaits'
    BY <1>7, StillReply DEF LevelInv
  <2>2. actor_info_map' = actor_info_map
    BY <1>7 DEF ReplyWritten
  <2> QED
    BY <1>3, <2>1, <2>2
<1>8. CASE ReadResponse(a)
  BY <1>1, <1>8, ResponseLevel
<1>9. CASE ReadRequest(a)
  BY <1>1, <1>9, RequestLevel
<1>10. ~SelfDone(a)
  BY DEF SelfDone, Resumes, CallsInv, FramesMatch
<1> QED
  BY <1>1, <1>4, <1>5, <1>6, <1>7, <1>8, <1>9, <1>10 DEF ProxyStep

LEMMA LevelStep ==
  /\ Typed /\ AckInv /\ LineInv /\ PacksInv /\ CallsInv /\ LevelInv /\ OneAsker
  /\ [Next]_vars
  => LevelInv'
<1> SUFFICES ASSUME Typed, AckInv, LineInv, PacksInv, CallsInv, LevelInv, OneAsker,
                    [Next]_vars
             PROVE  LevelInv'
  OBVIOUS
<1>1. CASE UNCHANGED vars
  <2>1. UNCHANGED <<actor_info, actor_info_map, call_chain, up, down, ctx>>
    BY <1>1 DEF vars, proxyVars
  <2>2. /\ \A c \in CallIds : ChainSame(c)
        /\ \A b \in Actors : Asks(b)' = Asks(b) /\ Works(b)' = Works(b)
    BY <2>1, ChainsSame, PacksSame
  <2>3. Grouped' /\ NoRequestWaits' /\ \A b \in Actors : Waiting(b)' => Waiting(b)
    BY <2>1, GroupedSame DEF LevelInv, NoRequestWaits, Waiting
  <2>4. /\ \A c \in CallIds : \A x, y \in Actors : Behind(x, y, c)' => Behind(x, y, c)
        /\ \A c \in CallIds : Opened(c)' => Opened(c)
    BY <2>2 DEF ChainSame
  <2> QED
    BY <2>1, <2>2, <2>3, <2>4, CtxLevel, LevelStays
<1>2. ASSUME NEW a \in Actors, Proxies(a) PROVE LevelInv'
  BY <1>2, ProxiesLevel
<1>3. ASSUME NEW a \in Actors, OwnStep(a) PROVE LevelInv'
  BY <1>3, OwnLevel
<1> QED
  BY <1>1, <1>2, <1>3 DEF Next, OwnStep

-----------------------------------------------------------------------------
(* The theorems for the configurations of OneAsker: there the premise of   *)
(* the ones before is an invariant too.                                    *)

LEMMA LevelAlways ==
  ASSUME OneAsker
  PROVE  Spec => [](ChainsInv /\ LevelInv)
<1>1. Init => ChainsInv /\ LevelInv
  BY ChainsInvInit, LevelInit
<1>2. ChainsInv /\ LevelInv /\ [Next]_vars => (ChainsInv /\ LevelInv)'
  <2> SUFFICES ASSUME ChainsInv, LevelInv, [Next]_vars
               PROVE  ChainsInv' /\ LevelInv'
    OBVIOUS
  <2>1. LevelInv'
    BY LevelStep DEF ChainsInv
  <2>2. NoRequestWaits /\ NoRequestWaits'
    BY <2>1 DEF LevelInv
  <2> QED
    BY <2>1, <2>2, ChainsInvStep
<1> QED
  BY <1>1, <1>2, PTL DEF Spec

\* No request is kept in the proxy for a process that waits itself.
THEOREM NoRequestEverWaits == OneAsker => (Spec => []NoRequestWaits)
<1> SUFFICES ASSUME OneAsker
             PROVE  Spec => []NoRequestWaits
  OBVIOUS
<1>1. LevelInv => NoRequestWaits
  BY DEF LevelInv
<1> QED
  BY LevelAlways, <1>1, PTL

\* Then no answer goes to the wrong process, and the proxy knows who waits.
THEOREM CallsComeBack ==
  OneAsker => (Spec => [](/\ ResponderEndsChain /\ ResponseToRequester
                          /\ ResultIsOwn /\ WaitingMirror))
<1> SUFFICES ASSUME OneAsker
             PROVE  Spec => [](/\ ResponderEndsChain /\ ResponseToRequester
                               /\ ResultIsOwn /\ WaitingMirror)
  OBVIOUS
<1>1. Spec => []NoRequestWaits
  BY NoRequestEverWaits
<1> QED
  BY <1>1, ResponderIsLast, ResponsesArrive, ResultsAreOwn, WaitingIsReal, PTL

\* Nobody dies, and no service asks another of its own node: the error that
\* makes a worker close its connection does not occur.
NobodyFails ==
  /\ MaxCrashes = 0
  /\ \A s, t \in DOMAIN ServiceMap : t \in Calls[s] => ServiceMap[t] # ServiceMap[s]

Unbroken == NobodyCut /\ \A a \in Actors : ~ctx[a].error

LEMMA UnbrokenInit == Init => Unbroken
  BY DEF Init, ProxyInit, Unbroken, NobodyCut

LEMMA UnbrokenOwn ==
  ASSUME NobodyFails, Typed, LineInv, LevelInv, CallsInv, PacksInv, Unbroken,
         NEW a \in Actors, OwnStep(a)
  PROVE  link'[a] # "cut" /\ ~ctx'[a].error
<1>1. /\ ctx \in [Actors -> Ctx] /\ ctx[a] \in Ctx
      /\ link \in [Actors -> {"none", "open", "cut"}]
      /\ ~ctx[a].error /\ link[a] # "cut" /\ LinkRight(a)
  BY TypedParts DEF Unbroken, NobodyCut, LineInv
<1>2. CASE ActorConnect(a)
  BY <1>1, <1>2 DEF ActorConnect, Ctx
<1>3. CASE ReceiveConnack(a) \/ ReceiveRequest(a) \/ ReceiveResponse(a)
  <2>1. link' = link
    BY <1>3 DEF ReceiveConnack, ReceiveRequest, ReceiveResponse, Receives
  <2>2. CASE ReceiveConnack(a)
    BY <1>1, <2>1, <2>2 DEF ReceiveConnack, Ctx
  <2>3. CASE ReceiveRequest(a)
    <3>1. ctx' = [ctx EXCEPT ![a].call_id = NoCall,
                             ![a].inbox = Append(@, Head(down[a]))]
      BY <2>3 DEF ReceiveRequest
    <3> QED
      BY <1>1, <2>1, <3>1 DEF Ctx
  <2>4. CASE ReceiveResponse(a)
    BY <1>1, <2>1, <2>4 DEF ReceiveResponse, Ctx
  <2> QED
    BY <1>3, <2>2, <2>3, <2>4
<1>4. CASE SkipStale(a) \/ StartJob(a)
  BY <1>1, <1>4 DEF SkipStale, StartJob, proxyVars, Ctx
<1>5. CASE Finish(a)
  <2>1. ctx' = [ctx EXCEPT ![a] = [ctx[a] EXCEPT !.job = NoMsg,
                                     !.call_id = NoCall, !.error = FALSE]]
    BY <1>5, FinishFacts
  <2>2. link' = link
    BY <1>1, <1>5 DEF Finish
  <2> QED
    BY <1>1, <2>1, <2>2 DEF Ctx
<1>6. ASSUME NEW s \in Services, SendRefused(a, s) PROVE FALSE
  <2>1. Serving(a) /\ s \in Calls[ctx[a].job.svc] /\ Provides(a, s)
    BY <1>6 DEF SendRefused
  <2>2. Provides(a, ctx[a].job.svc)
    BY <2>1, ServedProvided
  <2> QED
    BY <2>1, <2>2 DEF NobodyFails, Provides
<1>7. ASSUME NEW s \in Services, Send(a, s)
      PROVE  link'[a] # "cut" /\ ~ctx'[a].error
  <2>1. link[a] = "open"
    BY <1>1, <1>7 DEF Send, Serving, LinkRight
  <2>2. /\ ctx' = [ctx EXCEPT ![a] = [Sent(a) EXCEPT !.pending = SentReq(a)]]
        /\ link' = link /\ Sent(a) \in Ctx
    BY <1>7, <2>1, SendFacts
  <2>3. Sent(a).error = ctx[a].error
    BY <1>1 DEF Sent, Ctx
  <2> QED
    BY <1>1, <2>2, <2>3 DEF Ctx
<1>8. ASSUME NEW s \in Services, ClientRequest(a, s)
      PROVE  link'[a] # "cut" /\ ~ctx'[a].error
  BY <1>1, <1>8 DEF ClientRequest, proxyVars, Ctx
<1>9. ~Crash(a)
  BY DEF Crash, NobodyFails, Typed, TypeOK
<1> QED
  BY <1>2, <1>3, <1>4, <1>5, <1>6, <1>7, <1>8, <1>9 DEF OwnStep, ActorStep, ActorRuns

LEMMA UnbrokenStep ==
  ASSUME NobodyFails, ChainsInv, LevelInv, Unbroken, [Next]_vars
  PROVE  Unbroken'
<1>1. CASE link' = link /\ ctx' = ctx
  BY <1>1 DEF Unbroken, NobodyCut
<1>2. CASE UNCHANGED vars
  BY <1>1, <1>2 DEF vars, proxyVars
<1>3. ASSUME NEW a \in Actors, Proxies(a) PROVE Unbroken'
  <2>1. ctx' = ctx /\ ProxyStep(a)
    BY <1>3 DEF Proxies
  <2>2. CASE Accept(a) \/ Arrive(a)
    BY <1>1, <2>1, <2>2 DEF Accept, Arrive
  <2>3. CASE ResumedStep(a)
    BY <1>1, <2>1, <2>3, ResumedFacts DEF ChainsInv
  <2> QED
    BY <2>1, <2>2, <2>3 DEF ProxyStep, ResumedStep
<1>4. ASSUME NEW a \in Actors, OwnStep(a) PROVE Unbroken'
  <2>1. \A b \in Actors \ {a} : ctx'[b] = ctx[b] /\ link'[b] = link[b]
    BY <1>4, OwnFacts DEF ChainsInv
  <2>2. link'[a] # "cut" /\ ~ctx'[a].error
    BY <1>4, UnbrokenOwn DEF ChainsInv
  <2> QED
    BY <2>1, <2>2 DEF Unbroken, NobodyCut
<1> QED
  BY <1>2, <1>3, <1>4 DEF Next, OwnStep

\* Then nobody is cut, and somebody works for every chain.
THEOREM NoCallIsLeft ==
  OneAsker /\ NobodyFails => (Spec => []ChainHasWork)
<1> SUFFICES ASSUME OneAsker, NobodyFails
             PROVE  Spec => []ChainHasWork
  OBVIOUS
<1>1. Spec => []NoRequestWaits
  BY NoRequestEverWaits
<1>2. ChainsInv /\ LevelInv /\ Unbroken /\ [Next]_vars => Unbroken'
  BY UnbrokenStep
<1>3. Unbroken => NobodyCut
  BY DEF Unbroken
<1>4. Spec => []NobodyCut
  BY LevelAlways, UnbrokenInit, <1>2, <1>3, PTL DEF Spec
<1> QED
  BY <1>1, <1>4, ChainsHaveWork, PTL

-----------------------------------------------------------------------------
(* The calls of the configurations of OneAsker, in which nobody fails, are *)
(* the remote procedure calls of Rpc.                                      *)

Responded(r) == \E b \in Actors : \E p \in Answers(b) \cup Gets(b) : p.req = r

\* StateOf, by the packs, and the server of ImplementsRpc.
Phase(r) ==
  IF r[2] > ctx[r[1]].sends THEN "unsent"
  ELSE IF ctx[r[1]].pending # r THEN "returned"
  ELSE IF ServerOf(r) # {} THEN "executing"
  ELSE IF Responded(r) THEN "answered"
  ELSE "sent"
NameOf(s) == IF s = {} THEN NoActor ELSE CHOOSE a \in s : TRUE

Servers == [r \in Reqs |-> NameOf(ServerOf(r))]

Seen == \A r \in Reqs : StateOf(r) = Phase(r)

LEMMA SeenAlways == Typed => Seen
<1> SUFFICES ASSUME Typed, NEW r \in Reqs
             PROVE  StateOf(r) = Phase(r)
  BY DEF Seen
<1> DEFINE HeldAnswer == \E a \in Actors : \E i \in DOMAIN Held(a) :
                           Held(a)[i].type = "RESPONSE" /\ Held(a)[i].req = r
<1>1. HeldAnswer <=> \E a \in Actors : \E p \in Items(Held(a)) :
                       p.type = "RESPONSE" /\ p.req = r
  BY DEF Items
<1>2. \A a \in Actors : \A p \in Answers(a) \cup Gets(a) :
        p.type = "RESPONSE" /\ p \in Items(Held(a))
  BY InHandHeld, PacksKinds
<1>3. HeldAnswer <=> Responded(r)
  BY <1>1, <1>2, InHandHeld DEF Responded
<1> QED
  BY <1>3 DEF StateOf, Phase

\* Steps that leave the calls alone, and steps that move one of them.
LEMMA CallsLeft ==
  ASSUME Seen, Seen', \A r \in Reqs : Phase(r)' = Phase(r) /\ ServerOf(r)' = ServerOf(r)
  PROVE  UNCHANGED Calling!rpcVars
<1>1. [r \in Reqs |-> StateOf(r)]' = [r \in Reqs |-> StateOf(r)]
  BY DEF Seen
<1>2. \A r \in Reqs : NameOf(ServerOf(r)') = NameOf(ServerOf(r))
  OBVIOUS
<1>3. [r \in Reqs |-> NameOf(ServerOf(r)')] = [r \in Reqs |-> NameOf(ServerOf(r))]
  BY <1>2
<1> QED
  BY <1>1, <1>3 DEF Calling!rpcVars, NameOf

LEMMA CallMoved ==
  ASSUME Seen, Seen', NEW r \in Reqs,
         \A q \in Reqs \ {r} : Phase(q)' = Phase(q) /\ ServerOf(q)' = ServerOf(q)
  PROVE  /\ [q \in Reqs |-> StateOf(q)]' =
              [[q \in Reqs |-> StateOf(q)] EXCEPT ![r] = Phase(r)']
         /\ Servers' = [Servers EXCEPT ![r] = NameOf(ServerOf(r)')]
<1>1. \A q \in Reqs : StateOf(q)' = IF q = r THEN Phase(r)' ELSE StateOf(q)
  BY DEF Seen
<1>2. \A q \in Reqs : NameOf(ServerOf(q)') =
                        IF q = r THEN NameOf(ServerOf(r)') ELSE NameOf(ServerOf(q))
  OBVIOUS
<1>3. Servers' = [q \in Reqs |-> NameOf(ServerOf(q)')]
  BY DEF Servers, NameOf
<1> QED
  BY <1>1, <1>2, <1>3 DEF Servers

\* A step of the proxy moves no call: a response only comes nearer.
LEMMA ProxiesRpc ==
  ASSUME Typed, AckInv, LineInv, PacksInv, CallsInv, LevelInv, OneAsker, NobodyCut,
         Seen, Seen', NEW a \in Actors, Proxies(a)
  PROVE  UNCHANGED Calling!rpcVars
<1>1. ProxyStep(a) /\ ctx' = ctx
  BY DEF Proxies
<1>2. SUFFICES \A r \in Reqs : Responded(r)' <=> Responded(r)
  <2>1. \A r \in Reqs : ServerOf(r)' = ServerOf(r)
    BY <1>1 DEF ServerOf
  <2>2. \A r \in Reqs : (Responded(r)' <=> Responded(r)) => Phase(r)' = Phase(r)
    BY <1>1, <2>1 DEF Phase
  <2> QED
    BY <2>1, <2>2, CallsLeft
<1>3. (\A b \in Actors : Answers(b)' = Answers(b) /\ Gets(b)' = Gets(b))
        => \A r \in Reqs : Responded(r)' <=> Responded(r)
  BY DEF Responded
<1>4. ASSUME Still(a)
      PROVE  \A b \in Actors : Answers(b)' = Answers(b) /\ Gets(b)' = Gets(b)
  BY <1>4 DEF Still
<1>5. CASE Accept(a) \/ Arrive(a)
  BY <1>3, <1>4, <1>5, StillStart
<1>6. CASE ConnackWritten(a) \/ ReadEof(a) \/ RequestDone(a)
  BY <1>3, <1>4, <1>6, StillWritten
<1>7. CASE ReadConnect(a)
  BY <1>3, <1>4, <1>7, StillConnect
<1>8. CASE ReplyWritten(a)
  BY <1>3, <1>4, <1>8, StillReply DEF LevelInv
<1>9. ~SelfDone(a)
  BY DEF SelfDone, Resumes, CallsInv, FramesMatch
<1>10. CASE ReadRequest(a)
  <2>1. SUFFICES ASSUME NEW p, p = Head(up[a])
                 PROVE  \A r \in Reqs : Responded(r)' <=> Responded(r)
    OBVIOUS
  <2>2. /\ p \in Request /\ p.pid = a /\ ctx[a].phase \in {"up", "dead"}
        /\ up' = [up EXCEPT ![a] = Tail(@)] /\ up'[a] = <<>> /\ Answers(a) = {}
    BY <1>10, <2>1, RequestFacts
  <2>3. \E to \in Actors : down' = down \/ Transmit(to, p)
    <3>1. NobodyWaits(a, p) /\ NoRequestWaits
      BY <1>10, <2>1, NobodyThere DEF LevelInv
    <3>2. DroppedAt(a, p.call) \/ \E to \in Actors : HandedTo(a, p, to)
      BY <1>10, <2>1, <2>2, <3>1, RequestOutcome
    <3> QED
      BY <3>2 DEF DroppedAt, HandedTo
  <2>4. \A b \in Actors \ {a} : up'[b] = up[b]
    <3>1. up \in [Actors -> Seq(UpPack)]
      BY TypedParts
    <3> QED
      BY <2>2, <3>1
  <2>5. \A b \in Actors : Answers(b)' = Answers(b) /\ Gets(b)' = Gets(b)
    BY <1>1, <2>2, <2>3, <2>4, AskedPacks
  <2> QED
    BY <1>3, <2>5
<1>11. CASE ReadResponse(a)
  <2>1. SUFFICES ASSUME NEW p, p = Head(up[a]), NEW d, d = Prev(p.call)
                 PROVE  \A r \in Reqs : Responded(r)' <=> Responded(r)
    OBVIOUS
  <2>2. /\ p \in Answers(a) /\ d \in Actors /\ d # a /\ Awaits(d, p.call)
        /\ p.call \in CallIds /\ up[a] # <<>> /\ up' = [up EXCEPT ![a] = Tail(@)]
        /\ Transmit(d, p)
    BY <1>1, <1>11, <2>1, ResponseFacts
  <2>3. p \in Response /\ p.type = "RESPONSE"
    BY <2>2, PacksTyped, PacksKinds
  <2>4. link[d] = "open"
    <3>1. link[d] # "none"
      BY <2>2 DEF CallsInv, ChainsRight, AwaitsRight, Silent
    <3>2. link \in [Actors -> {"none", "open", "cut"}]
      BY TypedParts
    <3> QED
      BY <2>2, <3>1, <3>2 DEF NobodyCut
  <2>5. up \in [Actors -> Seq(UpPack)] /\ up[a] \in Seq(UpPack)
    BY TypedParts
  <2>6. up'[a] = Tail(up[a]) /\ \A b \in Actors \ {a} : up'[b] = up[b]
    BY <2>2, <2>5
  <2>7. /\ \A b \in Actors \ {a} : Answers(b)' = Answers(b)
        /\ \A b \in Actors \ {d} : Gets(b)' = Gets(b)
        /\ Gets(d)' = Gets(d) \cup {p}
    BY <1>1, <2>1, <2>2, <2>3, <2>4, <2>6, ResponsePacks
  <2>8. Answers(a) = Answers(a)' \cup {p}
    <3>1. Responses(up[a]) = Responses(Tail(up[a])) \cup {p}
      BY <2>1, <2>2, <2>3, <2>5, KindsTail
    <3> QED
      BY <2>6, <3>1, PacksPrimes DEF Answers
  <2> QED
    BY <2>2, <2>7, <2>8 DEF Responded
<1> QED
  BY <1>1, <1>3, <1>5, <1>6, <1>7, <1>8, <1>9, <1>10, <1>11 DEF ProxyStep

Serves(j, r) == j # NoMsg /\ j.type = "REQUEST" /\ j.req = r

LEMMA ServersOf ==
  ASSUME NEW r
  PROVE  /\ ServerOf(r) = {b \in Actors : Serves(ctx[b].job, r)}
         /\ ServerOf(r)' = {b \in Actors : Serves(ctx'[b].job, r)}
  BY DEF ServerOf, Serves

\* A call that a step of process a does not concern.
LEMMA PhaseKept ==
  ASSUME Typed, NEW a \in Actors, OwnStep(a), NEW q \in Reqs,
         q[1] = a => /\ (q[2] > ctx'[a].sends <=> q[2] > ctx[a].sends)
                     /\ (ctx'[a].pending = q <=> ctx[a].pending = q),
         Serves(ctx'[a].job, q) <=> Serves(ctx[a].job, q),
         (\E p \in Answers(a)' \cup Gets(a)' : p.req = q)
           <=> (\E p \in Answers(a) \cup Gets(a) : p.req = q)
  PROVE  Phase(q)' = Phase(q) /\ ServerOf(q)' = ServerOf(q)
<1>1. \A b \in Actors \ {a} : /\ ctx'[b] = ctx[b]
                              /\ Answers(b)' = Answers(b) /\ Gets(b)' = Gets(b)
  BY OthersSame
<1>2. ServerOf(q)' = ServerOf(q)
  BY <1>1, ServersOf
<1>3. Responded(q)' <=> Responded(q)
  BY <1>1 DEF Responded
<1>4. /\ q[2] > ctx'[q[1]].sends <=> q[2] > ctx[q[1]].sends
      /\ ctx'[q[1]].pending = q <=> ctx[q[1]].pending = q
  BY <1>1 DEF Reqs
<1> QED
  BY <1>2, <1>3, <1>4 DEF Phase

\* The caller of a request that is on the way waits for its answer.
LEMMA CallerWaits ==
  ASSUME Typed, LineInv, PacksInv, CallsInv, NobodyCut, NEW b \in Actors,
         NEW p \in Packs(b)
  PROVE  /\ p.req \in Reqs /\ p.req[1] \in Actors
         /\ ~(p.req[2] > ctx[p.req[1]].sends) /\ ctx[p.req[1]].pending = p.req
<1> DEFINE L == AllLines(up, Queues(Maps), down, ctx)
<1>1. p.req \in Reqs /\ p.req[1] \in Actors /\ p.req[2] \in Nat
  BY PacksTyped DEF Reqs
<1>2. ctx[p.req[1]].pending = p.req
  <2>1. ctx[p.req[1]].phase # "dead"
    BY <1>1 DEF LineInv, LinkRight, NobodyCut
  <2> QED
    BY <1>1, <2>1 DEF CallsInv, Awaited
<1>3. p.req[2] <= ctx[p.req[1]].sends
  <2>1. Issued(L, SendsOf(ctx))
    BY DEF PacksInv, PacksGood, Good
  <2>2. \E l \in LineNames : InLine(L, l, p)
    BY PacksAt, LineAt DEF Packs
  <2>3. Named(p)
    BY PacksKinds DEF Packs, Named
  <2> HIDE DEF L
  <2>4. p.req[2] <= SendsOf(ctx)[p.req[1]]
    BY <2>1, <2>2, <2>3 DEF Issued, InLine
  <2> QED
    BY <1>1, <2>4 DEF SendsOf
<1>4. ctx[p.req[1]].sends \in Nat
  BY <1>1, TypedParts, CtxFields, ConstantsAssumption
<1> QED
  BY <1>1, <1>2, <1>3, <1>4

\* A request is served once.
LEMMA ServedOnce ==
  ASSUME Typed, PacksInv, NEW a \in Actors, NEW b \in Actors, NEW p,
         Serves(ctx[b].job, p.req)
  PROVE  /\ ctx[b].job \in Works(b)
         /\ p \notin Requests(ctx[a].inbox)
         /\ ctx[a].job = p /\ Serves(p, p.req) => a = b
<1> DEFINE L == AllLines(up, Queues(Maps), down, ctx)
           j == ctx[b].job
<1>1. JobLine(j) = <<j>> /\ j \in Items(JobLine(j)) /\ j.type = "REQUEST" /\ j.req = p.req
  <2>1. JobLine(j) = <<j>>
    BY DEF JobLine, Serves
  <2> QED
    BY <2>1, ItemsOf DEF Serves
<1>2. /\ Once(L)
      /\ <<"job", b>> \in LineNames /\ InLine(L, <<"job", b>>, j)
      /\ L[<<"job", a>>] = JobLine(ctx[a].job) /\ <<"job", a>> \in LineNames
      /\ L[<<"inbox", a>>] = ctx[a].inbox /\ <<"inbox", a>> \in LineNames
  <2>1. Once(L)
    BY DEF PacksInv, PacksGood, Good
  <2>2. L[<<"job", b>>] = JobLine(j) /\ <<"job", b>> \in LineNames
    BY LineAt
  <2>3. InLine(L, <<"job", b>>, j)
    BY <1>1, <2>2 DEF InLine, Items
  <2>4. /\ L[<<"job", a>>] = JobLine(ctx[a].job) /\ <<"job", a>> \in LineNames
        /\ L[<<"inbox", a>>] = ctx[a].inbox /\ <<"inbox", a>> \in LineNames
    BY LineAt
  <2> QED
    BY <2>1, <2>2, <2>3, <2>4
<1>3. j \in Works(b)
  BY <1>1 DEF Works, Requests
<1>4. Named(j)
  BY <1>1 DEF Named
<1> HIDE DEF L
<1>5. ASSUME p \in Requests(ctx[a].inbox)
      PROVE  FALSE
  <2>1. InLine(L, <<"inbox", a>>, p) /\ Named(p)
    BY <1>2, <1>5 DEF InLine, Requests, Items, Named
  <2>2. <<"inbox", a>> = <<"job", b>>
    BY <1>1, <1>2, <1>4, <2>1, OnceInLine
  <2> QED
    BY <2>2
<1>6. ASSUME ctx[a].job = p, Serves(p, p.req)
      PROVE  a = b
  <2>1. JobLine(p) = <<p>> /\ p \in Items(JobLine(p))
    <3>1. JobLine(p) = <<p>>
      BY <1>6 DEF JobLine, Serves
    <3> QED
      BY <3>1, ItemsOf
  <2>2. InLine(L, <<"job", a>>, p) /\ Named(p)
    BY <1>2, <1>6, <2>1 DEF InLine, Items, Named, Serves
  <2>3. <<"job", a>> = <<"job", b>>
    BY <1>1, <1>2, <1>4, <2>2, OnceInLine
  <2> QED
    BY <2>3
<1> QED
  BY <1>3, <1>5, <1>6

\* Steps of a process that concern no call.
LEMMA OwnLeft ==
  ASSUME Typed, Seen, Seen', NEW a \in Actors, OwnStep(a),
         ctx'[a].sends = ctx[a].sends, ctx'[a].pending = ctx[a].pending,
         \A q \in Reqs : Serves(ctx'[a].job, q) <=> Serves(ctx[a].job, q),
         Answers(a)' = Answers(a), Gets(a)' = Gets(a)
  PROVE  UNCHANGED Calling!rpcVars
<1>1. \A q \in Reqs : Phase(q)' = Phase(q) /\ ServerOf(q)' = ServerOf(q)
  BY PhaseKept
<1> QED
  BY <1>1, CallsLeft

LEMMA QuietRpc ==
  ASSUME Typed, AckInv, LineInv, Seen, Seen', NEW a \in Actors,
         \/ ActorConnect(a) \/ ReceiveConnack(a) \/ ReceiveRequest(a)
         \/ StartJob(a) /\ Head(ctx[a].inbox).type # "REQUEST"
         \/ Finish(a) /\ ctx[a].job.type = "CLIENT"
         \/ \E s \in Services : ClientRequest(a, s)
  PROVE  UNCHANGED Calling!rpcVars
<1>1. OwnStep(a)
  BY DEF OwnStep, ActorStep, ActorRuns
<1>2. /\ ctx \in [Actors -> Ctx] /\ ctx[a] \in Ctx
      /\ up \in [Actors -> Seq(UpPack)] /\ up[a] \in Seq(UpPack)
      /\ down \in [Actors -> Seq(DownPack)] /\ down[a] \in Seq(DownPack)
      /\ LinkRight(a)
  BY TypedParts DEF LineInv
<1>3. /\ Answers(a)' = Responses(up'[a]) /\ Gets(a)' = Responses(down'[a])
      /\ Answers(a) = Responses(up[a]) /\ Gets(a) = Responses(down[a])
  BY PacksPrimes DEF Answers, Gets
<1>4. (up'[a] = up[a] /\ down'[a] = down[a]) => Answers(a)' = Answers(a) /\ Gets(a)' = Gets(a)
  BY <1>3
<1>5. CASE ActorConnect(a)
  <2>1. /\ ctx[a].phase = "start" /\ down' = down
        /\ ctx' = [ctx EXCEPT ![a].phase = "connecting"]
        /\ up' = [up EXCEPT ![a] = <<Connect>>]
    BY <1>5 DEF ActorConnect
  <2>2. /\ ctx'[a].sends = ctx[a].sends /\ ctx'[a].pending = ctx[a].pending
        /\ ctx'[a].job = ctx[a].job /\ up'[a] = <<Connect>>
    BY <1>2, <2>1 DEF Ctx
  <2>3. Responses(<<Connect>>) = {} /\ Responses(<<>>) = {}
    BY ItemsOf DEF Responses, Connect
  <2>4. up[a] = <<>>
    BY <2>1 DEF AckInv
  <2>5. Answers(a)' = Answers(a) /\ Gets(a)' = Gets(a)
    BY <1>3, <2>1, <2>2, <2>3, <2>4
  <2> QED
    BY <1>1, <2>2, <2>5, OwnLeft
<1>6. CASE ReceiveConnack(a) \/ ReceiveRequest(a)
  <2>1. down[a] # <<>> /\ up' = up /\ down' = [down EXCEPT ![a] = Tail(@)]
    BY <1>6 DEF ReceiveConnack, ReceiveRequest, Receives
  <2>2. Head(down[a]).type # "RESPONSE"
    <3>1. CASE ReceiveConnack(a)
      BY <2>1, <3>1 DEF ReceiveConnack, AckInv, Acked, Connack
    <3>2. CASE ReceiveRequest(a)
      BY <3>2 DEF ReceiveRequest, Receives, IsNext
    <3> QED
      BY <1>6, <3>1, <3>2
  <2>3. Responses(Tail(down[a])) = Responses(down[a])
    <3>1. Responses(down[a]) = Responses(Tail(down[a]))
                                 \cup (IF Head(down[a]).type = "RESPONSE"
                                       THEN {Head(down[a])} ELSE {})
      BY <1>2, <2>1, KindsTail
    <3> QED
      BY <2>2, <3>1
  <2>4. Answers(a)' = Answers(a) /\ Gets(a)' = Gets(a)
    BY <1>2, <1>3, <2>1, <2>3
  <2>5. /\ ctx'[a].sends = ctx[a].sends /\ ctx'[a].pending = ctx[a].pending
        /\ ctx'[a].job = ctx[a].job
    <3>1. CASE ReceiveConnack(a)
      BY <1>2, <3>1 DEF ReceiveConnack, Ctx
    <3>2. CASE ReceiveRequest(a)
      <4>1. ctx' = [ctx EXCEPT ![a].call_id = NoCall,
                               ![a].inbox = Append(@, Head(down[a]))]
        BY <3>2 DEF ReceiveRequest
      <4> QED
        BY <1>2, <4>1 DEF Ctx
    <3> QED
      BY <1>6, <3>1, <3>2
  <2> QED
    BY <1>1, <2>4, <2>5, OwnLeft
<1>7. CASE StartJob(a) /\ Head(ctx[a].inbox).type # "REQUEST"
  <2> DEFINE p == Head(ctx[a].inbox)
  <2>1. /\ ctx[a].job = NoMsg /\ up' = up /\ down' = down
        /\ ctx' = [ctx EXCEPT ![a].inbox = Tail(@), ![a].job = p, ![a].call_id = p.call]
    BY <1>7 DEF StartJob, TakesMsg, proxyVars
  <2>2. /\ ctx'[a].sends = ctx[a].sends /\ ctx'[a].pending = ctx[a].pending
        /\ ctx'[a].job = p
    BY <1>2, <2>1 DEF Ctx
  <2>3. \A q : ~Serves(ctx'[a].job, q) /\ ~Serves(ctx[a].job, q)
    BY <1>7, <2>1, <2>2 DEF Serves
  <2>4. Answers(a)' = Answers(a) /\ Gets(a)' = Gets(a)
    BY <1>4, <2>1
  <2> QED
    BY <1>1, <2>2, <2>3, <2>4, OwnLeft
<1>8. CASE Finish(a) /\ ctx[a].job.type = "CLIENT"
  <2>1. /\ ctx' = [ctx EXCEPT ![a] = [ctx[a] EXCEPT !.job = NoMsg,
                                       !.call_id = NoCall, !.error = FALSE]]
    BY <1>8, FinishFacts
  <2>2. up' = up /\ down' = down
    BY <1>8 DEF Finish
  <2>3. /\ ctx'[a].sends = ctx[a].sends /\ ctx'[a].pending = ctx[a].pending
        /\ ctx'[a].job = NoMsg
    BY <1>2, <2>1 DEF Ctx
  <2>4. \A q : ~Serves(ctx'[a].job, q) /\ ~Serves(ctx[a].job, q)
    BY <1>8, <2>3 DEF Serves
  <2>5. Answers(a)' = Answers(a) /\ Gets(a)' = Gets(a)
    BY <1>4, <2>2
  <2> QED
    BY <1>1, <2>3, <2>4, <2>5, OwnLeft
<1>9. ASSUME NEW s \in Services, ClientRequest(a, s)
      PROVE  UNCHANGED Calling!rpcVars
  <2> DEFINE p == [type |-> "CLIENT", call |-> NoCall, svc |-> s]
  <2>1. up' = up /\ down' = down /\ ctx' = [ctx EXCEPT ![a].inbox = Append(@, p)]
    BY <1>9 DEF ClientRequest, proxyVars
  <2> HIDE DEF p
  <2>2. /\ ctx'[a].sends = ctx[a].sends /\ ctx'[a].pending = ctx[a].pending
        /\ ctx'[a].job = ctx[a].job
    BY <1>2, <2>1 DEF Ctx
  <2>3. Answers(a)' = Answers(a) /\ Gets(a)' = Gets(a)
    BY <1>4, <2>1
  <2> QED
    BY <1>1, <2>2, <2>3, OwnLeft
<1> QED
  BY <1>5, <1>6, <1>7, <1>8, <1>9

\* The four moves of a call.
OthersKept(r) ==
  \A q \in Reqs \ {r} : Phase(q)' = Phase(q) /\ ServerOf(q)' = ServerOf(q)

LEMMA RpcState ==
  ASSUME Seen, Seen', NEW r \in Reqs, OthersKept(r)
  PROVE  /\ Calling!RpcReqs = Reqs
         /\ \A q \in Reqs : [p \in Reqs |-> StateOf(p)][q] = Phase(q)
         /\ [p \in Reqs |-> StateOf(p)]' =
              [[p \in Reqs |-> StateOf(p)] EXCEPT ![r] = Phase(r)']
         /\ Servers' = [Servers EXCEPT ![r] = NameOf(ServerOf(r)')]
<1>1. Calling!RpcReqs = Reqs
  BY DEF Calling!RpcReqs, Reqs
<1>2. \A q \in Reqs \ {r} : Phase(q)' = Phase(q) /\ ServerOf(q)' = ServerOf(q)
  BY DEF OthersKept
<1>3. /\ [q \in Reqs |-> StateOf(q)]' =
           [[q \in Reqs |-> StateOf(q)] EXCEPT ![r] = Phase(r)']
      /\ Servers' = [Servers EXCEPT ![r] = NameOf(ServerOf(r)')]
  BY <1>2, CallMoved
<1>4. \A q \in Reqs : [p \in Reqs |-> StateOf(p)][q] = Phase(q)
  BY DEF Seen
<1> QED
  BY <1>1, <1>3, <1>4

LEMMA NamesOf ==
  ASSUME NEW s \in SUBSET Actors
  PROVE  /\ NameOf(s) \in s \cup {NoActor}
         /\ s = {} => NameOf(s) = NoActor
         /\ \A a : s = {a} => NameOf(s) = a
  BY DEF NameOf

LEMMA IssueMove ==
  ASSUME Seen, Seen', NEW r \in Reqs, OthersKept(r),
         Phase(r) = "unsent", Phase(r)' = "sent", ServerOf(r)' = ServerOf(r),
         \A q \in Reqs : (q[1] = r[1] /\ q[2] < r[2]) => Phase(q) = "returned"
  PROVE  Calling!Issue(r)
<1>1. NameOf(ServerOf(r)') = NameOf(ServerOf(r))
  OBVIOUS
<1>2. Servers' = Servers
  BY <1>1, RpcState DEF Servers
<1> QED
  BY <1>2, RpcState DEF Calling!Issue, Servers, NameOf

LEMMA ExecuteMove ==
  ASSUME Seen, Seen', NEW r \in Reqs, OthersKept(r), NEW a \in Actors,
         Phase(r) = "sent", Phase(r)' = "executing", ServerOf(r)' = {a},
         a # r[1], \A q \in Reqs : a \notin ServerOf(q)
  PROVE  Calling!Execute(r, a)
<1>1. NameOf(ServerOf(r)') = a
  BY NamesOf
<1>2. \A q \in Reqs : Servers[q] # a
  <2>1. \A q \in Reqs : ServerOf(q) \subseteq Actors
    BY DEF ServerOf
  <2>2. NoActor # a
    BY ConstantsAssumption
  <2>3. \A q \in Reqs : Servers[q] \in ServerOf(q) \cup {NoActor}
    BY <2>1, NamesOf DEF Servers
  <2> QED
    BY <2>2, <2>3
<1> QED
  BY <1>1, <1>2, RpcState DEF Calling!Execute, Servers, NameOf

LEMMA AnswerMove ==
  ASSUME Seen, Seen', NEW r \in Reqs, OthersKept(r),
         Phase(r) = "executing", Phase(r)' = "answered", ServerOf(r)' = {}
  PROVE  Calling!Answer(r)
<1>1. NameOf(ServerOf(r)') = NoActor
  BY NamesOf
<1> QED
  BY <1>1, RpcState DEF Calling!Answer, Servers, NameOf

LEMMA ReturnMove ==
  ASSUME Seen, Seen', NEW r \in Reqs, OthersKept(r),
         Phase(r) = "answered", Phase(r)' = "returned", ServerOf(r)' = ServerOf(r)
  PROVE  Calling!Return(r)
<1>1. NameOf(ServerOf(r)') = NameOf(ServerOf(r))
  OBVIOUS
<1>2. Servers' = Servers
  BY <1>1, RpcState DEF Servers
<1> QED
  BY <1>2, RpcState DEF Calling!Return, Servers, NameOf

\* A process takes a request off its queue.
LEMMA StartRpc ==
  ASSUME Typed, LineInv, PacksInv, CallsInv, LevelInv, NobodyCut, Seen, Seen',
         NEW a \in Actors, StartJob(a), NEW p, p = Head(ctx[a].inbox),
         p.type = "REQUEST"
  PROVE  p.req \in Reqs /\ Calling!Execute(p.req, a)
<1> DEFINE r == p.req
<1>1. /\ ctx[a].job = NoMsg /\ ctx[a].inbox # <<>> /\ up' = up /\ down' = down
      /\ ctx' = [ctx EXCEPT ![a].inbox = Tail(@), ![a].job = p, ![a].call_id = p.call]
  BY DEF StartJob, TakesMsg, proxyVars
<1>2. /\ ctx \in [Actors -> Ctx] /\ ctx[a] \in Ctx /\ ctx[a].inbox \in Seq(Msg)
  BY TypedParts, CtxFields
<1>3. /\ ctx'[a].sends = ctx[a].sends /\ ctx'[a].pending = ctx[a].pending
      /\ ctx'[a].job = p
  BY <1>1, <1>2 DEF Ctx
<1>4. OwnStep(a)
  BY DEF OwnStep, ActorStep, ActorRuns
<1>5. p \in Requests(ctx[a].inbox) /\ p \in Works(a)
  <2>1. p \in Requests(ctx[a].inbox)
    BY <1>1, <1>2, KindsTail
  <2> QED
    BY <2>1 DEF Works
<1>6. p # NoMsg
  <2>1. Items(ctx[a].inbox) \subseteq Msg
    BY <1>2, ItemsTyped
  <2> QED
    BY <1>5, <2>1, NoMsgAssumption DEF Requests
<1>7. p \in Packs(a)
  BY <1>5 DEF Packs
<1>8. /\ r \in Reqs /\ r[1] \in Actors
      /\ ~(r[2] > ctx[r[1]].sends) /\ ctx[r[1]].pending = r
  BY <1>7, CallerWaits
<1>9. ~Responded(r)
  <2>1. ASSUME NEW b \in Actors, NEW q \in Answers(b) \cup Gets(b)
        PROVE  q.req # r
    BY <1>5, <2>1, OnceFacts
  <2> QED
    BY <2>1 DEF Responded
<1> HIDE DEF r
<1>10. \A b \in Actors : ~Serves(ctx[b].job, r)
  BY <1>5, ServedOnce DEF r
<1>11. ServerOf(r) = {}
  BY <1>10, ServersOf
<1>12. Phase(r) = "sent"
  BY <1>8, <1>9, <1>11 DEF Phase
<1>13. \A b \in Actors : ctx'[b] = ctx[b] \/ b = a
  BY <1>4, OthersSame
<1>14. ServerOf(r)' = {a}
  <2>1. \A b \in Actors : Serves(ctx'[b].job, r) <=> b = a
    <3>1. Serves(ctx'[a].job, r)
      BY <1>3, <1>6 DEF Serves, r
    <3> QED
      BY <1>10, <1>13, <3>1
  <2> QED
    BY <2>1, ServersOf
<1>15. Phase(r)' = "executing"
  <2>1. ctx'[r[1]].sends = ctx[r[1]].sends /\ ctx'[r[1]].pending = ctx[r[1]].pending
    BY <1>3, <1>8, <1>13
  <2> QED
    BY <1>8, <1>14, <2>1 DEF Phase
<1>16. OthersKept(r)
  <2>1. Answers(a)' = Answers(a) /\ Gets(a)' = Gets(a)
    BY <1>1, PacksPrimes DEF Answers, Gets
  <2>2. \A q \in Reqs \ {r} : ~Serves(ctx'[a].job, q) /\ ~Serves(ctx[a].job, q)
    BY <1>1, <1>3 DEF Serves, r
  <2> QED
    BY <1>3, <1>4, <2>1, <2>2, PhaseKept DEF OthersKept
<1>17. a # r[1]
  BY <1>5 DEF LevelInv, Provided, MayCall, MayAsk, r
<1>18. \A q \in Reqs : a \notin ServerOf(q)
  BY <1>1 DEF ServerOf
<1>19. Calling!Execute(r, a)
  BY <1>8, <1>12, <1>14, <1>15, <1>16, <1>17, <1>18, ExecuteMove
<1> QED
  BY <1>8, <1>19 DEF r

\* The service of a request returns.
LEMMA AnswerRpc ==
  ASSUME Typed, LineInv, PacksInv, CallsInv, NobodyCut, Seen, Seen',
         NEW a \in Actors, Finish(a), ~ctx[a].error, NEW j, j = ctx[a].job,
         j.type # "CLIENT"
  PROVE  j.req \in Reqs /\ Calling!Answer(j.req)
<1> DEFINE r == j.req
           p == AnswerTo(j)
<1>1. Serving(a) /\ OwnStep(a)
  BY DEF OwnStep, ActorStep, ActorRuns, Finish
<1>2. /\ ctx[a].phase = "up" /\ j \in Msg
      /\ ctx' = [ctx EXCEPT ![a] = [ctx[a] EXCEPT !.job = NoMsg,
                                     !.call_id = NoCall, !.error = FALSE]]
      /\ down' = down /\ up' = [up EXCEPT ![a] = Append(@, p)]
  BY FinishFacts DEF Finish, AnswerTo
<1>3. j.type = "REQUEST" /\ j # NoMsg
  BY <1>2, PackKinds, NoMsgAssumption
<1>4. j \in Works(a) /\ j \in Request
  BY <1>1, <1>3, ServingFacts
<1>5. /\ ctx \in [Actors -> Ctx] /\ ctx[a] \in Ctx
      /\ up \in [Actors -> Seq(UpPack)] /\ up[a] \in Seq(UpPack)
  BY TypedParts
<1>6. /\ ctx'[a].sends = ctx[a].sends /\ ctx'[a].pending = ctx[a].pending
      /\ ctx'[a].job = NoMsg
  BY <1>2, <1>5 DEF Ctx
<1>7. /\ p \in UpPack /\ p.type = "RESPONSE" /\ p.req = r
  BY <1>4, AnswerFacts DEF UpPack
<1>8. j \in Packs(a)
  BY <1>4 DEF Packs
<1>9. /\ r \in Reqs /\ r[1] \in Actors
      /\ ~(r[2] > ctx[r[1]].sends) /\ ctx[r[1]].pending = r
  BY <1>8, CallerWaits
<1>10. Serves(ctx[a].job, r)
  BY <1>3 DEF Serves
<1> HIDE DEF r, p
<1>11. Answers(a)' = Answers(a) \cup {p} /\ Gets(a)' = Gets(a)
  <2>1. Responses(Append(up[a], p)) =
          Responses(up[a]) \cup (IF p.type = "RESPONSE" THEN {p} ELSE {})
    BY <1>5, <1>7, KindsAppend
  <2>2. up'[a] = Append(up[a], p)
    BY <1>2, <1>5
  <2> QED
    BY <1>2, <1>7, <2>1, <2>2, PacksPrimes DEF Answers, Gets
<1>12. \A b \in Actors : ctx'[b] = ctx[b] \/ b = a
  BY <1>1, OthersSame
<1>13. \A b \in Actors \ {a} : ~Serves(ctx[b].job, r)
  <2> SUFFICES ASSUME NEW b \in Actors, Serves(ctx[b].job, r) PROVE a = b
    OBVIOUS
  <2>1. Serves(ctx[b].job, j.req) /\ Serves(j, j.req)
    BY <1>10 DEF r
  <2> QED
    BY <2>1, ServedOnce
<1>14. Phase(r) = "executing"
  <2>1. ServerOf(r) # {}
    BY <1>10, ServersOf
  <2> QED
    BY <1>9, <2>1 DEF Phase
<1>15. ServerOf(r)' = {}
  <2>1. \A b \in Actors : ~Serves(ctx'[b].job, r)
    BY <1>6, <1>12, <1>13 DEF Serves
  <2> QED
    BY <2>1, ServersOf
<1>16. Phase(r)' = "answered"
  <2>1. ctx'[r[1]].sends = ctx[r[1]].sends /\ ctx'[r[1]].pending = ctx[r[1]].pending
    BY <1>6, <1>9, <1>12
  <2>2. Responded(r)'
    BY <1>7, <1>11 DEF Responded
  <2> QED
    BY <1>9, <1>15, <2>1, <2>2 DEF Phase
<1>17. OthersKept(r)
  <2>1. \A q \in Reqs \ {r} : ~Serves(ctx'[a].job, q) /\ ~Serves(ctx[a].job, q)
    BY <1>6 DEF Serves, r
  <2>2. \A q \in Reqs \ {r} : (\E x \in Answers(a)' \cup Gets(a)' : x.req = q)
                                <=> (\E x \in Answers(a) \cup Gets(a) : x.req = q)
    BY <1>7, <1>11
  <2> QED
    BY <1>1, <1>6, <2>1, <2>2, PhaseKept DEF OthersKept
<1>18. Calling!Answer(r)
  BY <1>9, <1>14, <1>15, <1>16, <1>17, AnswerMove
<1> QED
  BY <1>9, <1>18 DEF r

\* The answer arrives, and send() returns it.
LEMMA ReturnRpc ==
  ASSUME Typed, LineInv, PacksInv, CallsInv, NobodyCut, Seen, Seen',
         NEW a \in Actors, ReceiveResponse(a), NEW p, p = Head(down[a])
  PROVE  p.req \in Reqs /\ Calling!Return(p.req)
<1> DEFINE r == p.req
<1>1. /\ down[a] # <<>> /\ p.type = "RESPONSE" /\ up' = up
      /\ down' = [down EXCEPT ![a] = Tail(@)]
      /\ ctx' = [ctx EXCEPT ![a].pending = NoReq]
  BY DEF ReceiveResponse, Receives, IsNext
<1>2. /\ ctx \in [Actors -> Ctx] /\ ctx[a] \in Ctx
      /\ down \in [Actors -> Seq(DownPack)] /\ down[a] \in Seq(DownPack)
  BY TypedParts
<1>3. /\ ctx'[a].sends = ctx[a].sends /\ ctx'[a].pending = NoReq
      /\ ctx'[a].job = ctx[a].job /\ down'[a] = Tail(down[a])
  BY <1>1, <1>2 DEF Ctx
<1>4. OwnStep(a)
  BY DEF OwnStep, ActorStep, ActorRuns
<1>5. Responses(down[a]) = Responses(Tail(down[a])) \cup {p}
  BY <1>1, <1>2, KindsTail
<1>6. Answers(a)' = Answers(a) /\ Gets(a) = Gets(a)' \cup {p}
  BY <1>1, <1>3, <1>5, PacksPrimes DEF Answers, Gets
<1>7. p \in Gets(a) /\ p \in Packs(a) /\ r[1] = a
  <2>1. p \in Gets(a) /\ Getting
    BY <1>6 DEF CallsInv, PlacesRight
  <2> QED
    BY <2>1 DEF Getting, Packs
<1>8. /\ r \in Reqs /\ ~(r[2] > ctx[a].sends) /\ ctx[a].pending = r
  <2>1. /\ r \in Reqs /\ ~(r[2] > ctx[r[1]].sends) /\ ctx[r[1]].pending = r
    BY <1>7, CallerWaits
  <2> QED
    BY <1>7, <2>1
<1> HIDE DEF r
<1>9. \A q \in Reqs : q # NoReq
  BY CallConstantsAssumption
<1>10. \A b \in Actors : ~Serves(ctx[b].job, r)
  <2> SUFFICES ASSUME NEW b \in Actors, Serves(ctx[b].job, r) PROVE FALSE
    OBVIOUS
  <2>1. Serves(ctx[b].job, p.req) /\ ctx[b].job.req = p.req
    BY DEF Serves, r
  <2>2. ctx[b].job \in Works(b)
    BY <2>1, ServedOnce
  <2> QED
    BY <1>7, <2>1, <2>2, OnceFacts
<1>11. Phase(r) = "answered"
  <2>1. ServerOf(r) = {}
    BY <1>10, ServersOf
  <2>2. Responded(r)
    BY <1>7 DEF Responded, r
  <2> QED
    BY <1>7, <1>8, <2>1, <2>2 DEF Phase
<1>12. ServerOf(r)' = ServerOf(r)
  <2>1. \A b \in Actors : ctx'[b].job = ctx[b].job
    BY <1>3, <1>4, OthersSame
  <2> QED
    BY <2>1 DEF ServerOf
<1>13. Phase(r)' = "returned"
  BY <1>3, <1>7, <1>8, <1>9 DEF Phase
<1>14. OthersKept(r)
  <2>1. \A q \in Reqs \ {r} : (\E x \in Answers(a)' \cup Gets(a)' : x.req = q)
                                <=> (\E x \in Answers(a) \cup Gets(a) : x.req = q)
    BY <1>6 DEF r
  <2>2. \A q \in Reqs \ {r} : ctx'[a].pending # q /\ ctx[a].pending # q
    BY <1>3, <1>8, <1>9
  <2> QED
    BY <1>3, <1>4, <2>1, <2>2, PhaseKept DEF OthersKept
<1>15. Calling!Return(r)
  BY <1>8, <1>11, <1>12, <1>13, <1>14, ReturnMove
<1> QED
  BY <1>8, <1>15 DEF r

\* A service issues a request.
LEMMA SendRpc ==
  ASSUME Typed, LineInv, PacksInv, CallsInv, NobodyCut, Seen, Seen',
         NEW a \in Actors, NEW s \in Services, Send(a, s)
  PROVE  SentReq(a) \in Reqs /\ Calling!Issue(SentReq(a))
<1> SUFFICES ASSUME NEW r, r = SentReq(a), NEW p, p = SentPack(a, s)
             PROVE  r \in Reqs /\ Calling!Issue(r)
  OBVIOUS
<1>1. Serving(a) /\ OwnStep(a)
  BY DEF Send, OwnStep, ActorStep
<1>2. link[a] = "open" /\ ctx[a].pending = NoReq
  BY <1>1, TypedParts DEF LineInv, LinkRight, NobodyCut, Serving
<1>3. /\ p \in Request /\ r \in Reqs /\ Sent(a) \in Ctx
      /\ Sent(a).sends = ctx[a].sends + 1 /\ Sent(a).job = ctx[a].job
      /\ ctx' = [ctx EXCEPT ![a] = [Sent(a) EXCEPT !.pending = r]]
      /\ up' = [up EXCEPT ![a] = Append(@, p)] /\ down' = down
  BY <1>2, SendFacts
<1>4. /\ ctx \in [Actors -> Ctx] /\ ctx[a].sends \in Nat
      /\ up \in [Actors -> Seq(UpPack)] /\ up[a] \in Seq(UpPack)
  BY TypedParts, CtxFields, ConstantsAssumption
<1>5. /\ ctx'[a].sends = ctx[a].sends + 1 /\ ctx'[a].pending = r
      /\ ctx'[a].job = ctx[a].job
  BY <1>3, <1>4 DEF Ctx
<1>6. r[1] = a /\ r[2] = ctx[a].sends + 1
  BY DEF SentReq
<1>7. \A b \in Actors : \A q \in Packs(b) : q.req # r
  BY <1>1, <1>6, ServingFacts
<1>8. \A q \in Reqs : q # NoReq /\ q[2] \in Nat
  BY CallConstantsAssumption DEF Reqs
<1>9. \A b \in Actors : ~Serves(ctx[b].job, r)
  <2> SUFFICES ASSUME NEW b \in Actors, Serves(ctx[b].job, r) PROVE FALSE
    OBVIOUS
  <2>1. ctx[b].job.req = r /\ Serves(ctx[b].job, ctx[b].job.req)
    BY DEF Serves
  <2>2. ctx[b].job \in Works(b)
    BY <2>1, ServedOnce
  <2> QED
    BY <1>7, <2>1, <2>2 DEF Packs
<1>10. Answers(a)' = Answers(a) /\ Gets(a)' = Gets(a)
  <2>1. p \in UpPack /\ p.type # "RESPONSE"
    BY <1>3, PackKinds DEF UpPack, SentPack
  <2>2. Responses(Append(up[a], p)) =
          Responses(up[a]) \cup (IF p.type = "RESPONSE" THEN {p} ELSE {})
    BY <1>4, <2>1, KindsAppend
  <2>3. up'[a] = Append(up[a], p)
    BY <1>3, <1>4
  <2> QED
    BY <1>3, <2>1, <2>2, <2>3, PacksPrimes DEF Answers, Gets
<1>11. \A b \in Actors : /\ ctx'[b].job = ctx[b].job
                         /\ Answers(b)' = Answers(b) /\ Gets(b)' = Gets(b)
  BY <1>1, <1>5, <1>10, OthersSame
<1>12. ServerOf(r)' = ServerOf(r) /\ ServerOf(r)' = {}
  BY <1>9, <1>11, ServersOf
<1>13. Phase(r) = "unsent"
  BY <1>4, <1>6 DEF Phase
<1>14. Phase(r)' = "sent"
  <2>1. ~Responded(r)'
    <3>1. \A b \in Actors : \A q \in Answers(b) \cup Gets(b) : q.req # r
      BY <1>7 DEF Packs
    <3> QED
      BY <1>11, <3>1 DEF Responded
  <2>2. ~(r[2] > ctx'[r[1]].sends) /\ ctx'[r[1]].pending = r
    BY <1>4, <1>5, <1>6
  <2> QED
    BY <1>12, <2>1, <2>2 DEF Phase
<1>15. OthersKept(r)
  <2>1. ASSUME NEW q \in Reqs \ {r}, q[1] = a
        PROVE  /\ (q[2] > ctx'[a].sends <=> q[2] > ctx[a].sends)
               /\ (ctx'[a].pending = q <=> ctx[a].pending = q)
    <3>1. q = <<q[1], q[2]>>
      BY DEF Reqs
    <3>2. q[2] # ctx[a].sends + 1
      BY <2>1, <3>1 DEF SentReq
    <3> QED
      BY <1>2, <1>4, <1>5, <1>8, <3>2
  <2> QED
    BY <1>1, <1>5, <1>10, <2>1, PhaseKept DEF OthersKept
<1>16. ASSUME NEW q \in Reqs, q[1] = r[1], q[2] < r[2]
       PROVE  Phase(q) = "returned"
  BY <1>2, <1>4, <1>6, <1>8, <1>16 DEF Phase
<1> QED
  BY <1>3, <1>12, <1>13, <1>14, <1>15, <1>16, IssueMove

LEMMA RpcInits == Init /\ Seen => Calling!RpcInit
<1> SUFFICES ASSUME Init, Seen PROVE Calling!RpcInit
  OBVIOUS
<1>1. \A a \in Actors : ctx[a].sends = 0 /\ ctx[a].job = NoMsg
  BY DEF Init
<1>2. \A r \in Reqs : r[1] \in Actors /\ r[2] > 0
  BY ConstantsAssumption DEF Reqs
<1>3. \A r \in Reqs : StateOf(r) = "unsent"
  BY <1>1, <1>2 DEF Seen, Phase
<1>4. \A r \in Reqs : ServerOf(r) = {}
  BY <1>1 DEF ServerOf
<1>5. Calling!RpcReqs = Reqs
  BY DEF Calling!RpcReqs, Reqs
<1> QED
  BY <1>3, <1>4, <1>5 DEF Calling!RpcInit

LEMMA RpcStep ==
  ASSUME OneAsker, NobodyFails, ChainsInv, LevelInv, Unbroken, Unbroken',
         Seen, Seen', [Next]_vars
  PROVE  [Calling!RpcNext]_(Calling!rpcVars)
<1>1. Typed /\ AckInv /\ LineInv /\ PacksInv /\ CallsInv /\ NobodyCut
  BY DEF ChainsInv, Unbroken
<1>2. Calling!RpcReqs = Reqs
  BY DEF Calling!RpcReqs, Reqs
<1>3. \A r \in Reqs :
        /\ \A a \in Actors : Calling!Execute(r, a) => Calling!RpcNext
        /\ Calling!Issue(r) \/ Calling!Answer(r) \/ Calling!Return(r) => Calling!RpcNext
  BY <1>2 DEF Calling!RpcNext, Calling!Progress
<1>4. CASE UNCHANGED vars
  <2>1. \A r \in Reqs : StateOf(r)' = StateOf(r) /\ ServerOf(r)' = ServerOf(r)
    BY <1>4 DEF vars, proxyVars, StateOf, ServerOf, Held, Backlog
  <2>2. \A r \in Reqs : Phase(r)' = Phase(r)
    BY <2>1 DEF Seen
  <2> QED
    BY <2>1, <2>2, CallsLeft
<1>5. ASSUME NEW a \in Actors, Proxies(a)
      PROVE  UNCHANGED Calling!rpcVars
  BY <1>1, <1>5, ProxiesRpc
<1>6. ASSUME NEW a \in Actors, OwnStep(a)
      PROVE  [Calling!RpcNext]_(Calling!rpcVars)
  <2>1. ~ctx[a].error /\ link[a] # "cut" /\ link'[a] # "cut" /\ ~ctx'[a].error
    BY DEF Unbroken, NobodyCut
  <2>2. CASE ActorConnect(a) \/ ReceiveConnack(a) \/ ReceiveRequest(a)
             \/ \E s \in Services : ClientRequest(a, s)
    BY <1>1, <2>2, QuietRpc
  <2>3. CASE ReceiveResponse(a)
    BY <1>1, <1>3, <2>3, ReturnRpc
  <2>4. CASE StartJob(a)
    <3>1. CASE Head(ctx[a].inbox).type = "REQUEST"
      BY <1>1, <1>3, <2>4, <3>1, StartRpc
    <3>2. CASE Head(ctx[a].inbox).type # "REQUEST"
      BY <1>1, <2>4, <3>2, QuietRpc
    <3> QED
      BY <3>1, <3>2
  <2>5. CASE Finish(a)
    <3>1. CASE ctx[a].job.type = "CLIENT"
      BY <1>1, <2>5, <3>1, QuietRpc
    <3>2. CASE ctx[a].job.type # "CLIENT"
      BY <1>1, <1>3, <2>1, <2>5, <3>2, AnswerRpc
    <3> QED
      BY <3>1, <3>2
  <2>6. ASSUME NEW s \in Services, Send(a, s)
        PROVE  [Calling!RpcNext]_(Calling!rpcVars)
    BY <1>1, <1>3, <2>6, SendRpc
  <2>7. ~SkipStale(a)
    BY <2>1 DEF SkipStale, Stale
  <2>8. \A s \in Services : ~SendRefused(a, s)
    <3> SUFFICES ASSUME NEW s \in Services, SendRefused(a, s) PROVE FALSE
      OBVIOUS
    <3>1. Serving(a) /\ s \in Calls[ctx[a].job.svc] /\ Provides(a, s)
      BY DEF SendRefused
    <3>2. Provides(a, ctx[a].job.svc)
      BY <1>1, <3>1, ServedProvided
    <3> QED
      BY <3>1, <3>2 DEF NobodyFails, Provides
  <2>9. ~Crash(a)
    BY <1>1 DEF Crash, NobodyFails, Typed, TypeOK
  <2> QED
    BY <1>6, <2>2, <2>3, <2>4, <2>5, <2>6, <2>7, <2>8, <2>9
       DEF OwnStep, ActorStep, ActorRuns
<1> QED
  BY <1>4, <1>5, <1>6 DEF Next, OwnStep

\* The calls of the actor processes through the proxy are remote procedure
\* calls: a request is executed once, by one process that serves nothing else
\* meanwhile, and its answer returns to the send() that waits for it.  This is
\* all of ImplementsRpc but its promise that every request returns.
THEOREM CallsAreRpc ==
  OneAsker /\ NobodyFails =>
    (Spec => Calling!RpcInit /\ [][Calling!RpcNext]_(Calling!rpcVars))
<1> SUFFICES ASSUME OneAsker, NobodyFails
             PROVE  Spec => Calling!RpcInit /\ [][Calling!RpcNext]_(Calling!rpcVars)
  OBVIOUS
<1>1. ChainsInv => Seen
  BY SeenAlways DEF ChainsInv
<1>2. ChainsInv /\ LevelInv /\ Unbroken /\ [Next]_vars => Unbroken'
  BY UnbrokenStep
<1>3. /\ ChainsInv /\ LevelInv /\ Unbroken /\ Unbroken' /\ Seen /\ Seen' /\ [Next]_vars
      => [Calling!RpcNext]_(Calling!rpcVars)
  BY RpcStep
<1> QED
  BY LevelAlways, UnbrokenInit, RpcInits, <1>1, <1>2, <1>3, PTL DEF Spec
=============================================================================
