--------------------------- MODULE FramingProofs ---------------------------
(***************************************************************************)
(* Frames come out of a connection whole and in order, for any format, any *)
(* number of writers and any sizes of frames, buffers and pieces; and      *)
(* every step of Framing is one that FrameChannel allows.                  *)
(***************************************************************************)
EXTENDS Framing, SequenceTheorems, WellFoundedInduction, TLAPS

-----------------------------------------------------------------------------
(* Sequences in general.                                                   *)

LEMMA LeastNumber ==
  ASSUME NEW T \in SUBSET Nat, T # {}
  PROVE  \E x \in T : \A y \in T : x <= y
<1> DEFINE R == OpToRel(<, Nat)
<1>1. \A x, y \in Nat : <<y, x>> \in R <=> y < x
  BY DEF OpToRel
<1>2. IsWellFoundedOn(R, Nat)
  BY NatLessThanWellFounded
<1> HIDE DEF R
<1>3. PICK x \in T : \A y \in T : ~(<<y, x>> \in R)
  BY <1>2, WFMin
<1>4. \A y \in T : ~(y < x)
  BY <1>1, <1>3
<1>5. \A y \in T : x <= y
  BY <1>4
<1> QED
  BY <1>5

LEMMA LeastFacts ==
  ASSUME NEW T \in SUBSET Nat, T # {}
  PROVE  Least(T) \in T /\ \A n \in T : Least(T) <= n
  BY LeastNumber DEF Least

\* Two ways to cut a sequence at the same place are one.
LEMMA SameCut ==
  ASSUME NEW S, NEW a \in Seq(S), NEW b \in Seq(S), NEW c \in Seq(S), NEW d \in Seq(S),
         a \o b = c \o d, Len(a) = Len(c)
  PROVE  a = c /\ b = d
<1>1. a = c
  <2>1. \A i \in 1 .. Len(a) : a[i] = (a \o b)[i] /\ c[i] = (c \o d)[i]
    BY ConcatProperties, LenProperties
  <2>2. \A i \in 1 .. Len(a) : a[i] = c[i]
    BY <2>1
  <2> QED
    BY <2>2, SeqEqual
<1> QED
  BY <1>1, ConcatSimplifications

-----------------------------------------------------------------------------
(* The cells of a frame.                                                   *)

\* The sequences that FlattenSeq makes of the first elements of seqs.
Flattens(g, seqs) ==
  /\ g[1] = seqs[1]
  /\ \A k \in 2 .. Len(seqs) : g[k] = g[k - 1] \o seqs[k]

LEMMA FlattenExists ==
  ASSUME NEW S, NEW seqs \in Seq(Seq(S)), seqs # <<>>, NEW n \in 1 .. Len(seqs)
  PROVE  \E g \in [1 .. n -> Seq(S)] :
           g[1] = seqs[1] /\ \A k \in 2 .. n : g[k] = g[k - 1] \o seqs[k]
<1> DEFINE Good(k) == \E g \in [1 .. k -> Seq(S)] :
                        g[1] = seqs[1] /\ \A j \in 2 .. k : g[j] = g[j - 1] \o seqs[j]
           Bad == {k \in 1 .. Len(seqs) : ~Good(k)}
<1>1. /\ Len(seqs) \in Nat /\ \A k \in 1 .. Len(seqs) : seqs[k] \in Seq(S)
  BY LenProperties, ElementOfSeq
<1>2. ASSUME Bad # {}
      PROVE  FALSE
  <2>1. PICK k \in Bad : \A j \in Bad : k <= j
    <3>1. Bad \in SUBSET Nat
      <4> HIDE DEF Good
      <4> QED
        BY <1>1
    <3> HIDE DEF Bad
    <3> QED
      BY <1>2, <3>1, LeastNumber
  <2>2. k \in 1 .. Len(seqs) /\ ~Good(k)
    OBVIOUS
  <2>3. CASE k = 1
    <3> DEFINE g == [j \in 1 .. 1 |-> seqs[1]]
    <3>1. g \in [1 .. 1 -> Seq(S)] /\ g[1] = seqs[1] /\ 2 .. 1 = {}
      BY <1>1, <2>2, <2>3
    <3> HIDE DEF g
    <3>2. Good(1)
      BY <3>1
    <3> QED
      BY <2>2, <2>3, <3>2
  <2>4. CASE k > 1
    <3>1. k - 1 \in 1 .. Len(seqs) /\ ~(k <= k - 1) /\ k \in Nat
      BY <1>1, <2>2, <2>4
    <3>2. Good(k - 1)
      BY <2>1, <3>1
    <3>3. PICK h \in [1 .. k - 1 -> Seq(S)] :
            h[1] = seqs[1] /\ \A j \in 2 .. k - 1 : h[j] = h[j - 1] \o seqs[j]
      BY <3>2
    <3> DEFINE g == [j \in 1 .. k |-> IF j = k THEN h[k - 1] \o seqs[k] ELSE h[j]]
    <3>4. h[k - 1] \in Seq(S) /\ h[k - 1] \o seqs[k] \in Seq(S)
      <4>1. h[k - 1] \in Seq(S)
        BY <2>4, <3>1
      <4> QED
        BY <1>1, <2>2, <4>1, ConcatProperties
    <3>5. g \in [1 .. k -> Seq(S)]
      BY <3>1, <3>4
    <3>6. g[1] = seqs[1]
      BY <2>4, <3>1, <3>3, SMTT(60)
    <3>7. \A j \in 2 .. k : g[j] = g[j - 1] \o seqs[j]
      <4> SUFFICES ASSUME NEW j \in 2 .. k
                   PROVE  g[j] = g[j - 1] \o seqs[j]
        OBVIOUS
      <4>1. g[j - 1] = h[j - 1]
        BY <3>1
      <4>2. CASE j = k
        <5>1. g[k] = h[k - 1] \o seqs[k]
          <6>1. k \in 1 .. k
            BY <2>4, <3>1
          <6> QED
            BY <6>1
        <5> QED
          BY <4>1, <4>2, <5>1
      <4>3. CASE j # k
        <5>1. j \in 2 .. k - 1 /\ g[j] = h[j]
          BY <3>1, <4>3
        <5> QED
          BY <3>3, <4>1, <5>1
      <4> QED
        BY <4>2, <4>3
    <3> HIDE DEF g
    <3>8. Good(k)
      BY <3>5, <3>6, <3>7
    <3> QED
      BY <2>2, <3>8
  <2> QED
    BY <1>1, <2>2, <2>3, <2>4
<1>3. Good(n)
  BY <1>2
<1> QED
  BY <1>3

LEMMA FlattenFacts ==
  ASSUME NEW S, NEW seqs \in Seq(Seq(S)), seqs # <<>>
  PROVE  \E g \in [1 .. Len(seqs) -> Seq(S)] :
           Flattens(g, seqs) /\ FlattenSeq(seqs) = g[Len(seqs)]
<1> DEFINE N == Len(seqs)
           Body(f) == [i \in 1 .. N |-> IF i = 1 THEN seqs[i] ELSE f[i - 1] \o seqs[i]]
           flat == CHOOSE f : f = Body(f)
<1>1. N \in Nat /\ N # 0 /\ 1 \in 1 .. N /\ N \in 1 .. N
  BY EmptySeq, LenProperties
<1>2. PICK g \in [1 .. N -> Seq(S)] :
        g[1] = seqs[1] /\ \A k \in 2 .. N : g[k] = g[k - 1] \o seqs[k]
  BY <1>1, FlattenExists
<1>3. g = Body(g)
  <2>1. \A i \in 1 .. N : g[i] = IF i = 1 THEN seqs[i] ELSE g[i - 1] \o seqs[i]
    <3> SUFFICES ASSUME NEW i \in 1 .. N, i # 1
                 PROVE  g[i] = g[i - 1] \o seqs[i]
      BY <1>2
    <3>1. i \in 2 .. N
      BY <1>1
    <3> QED
      BY <1>2, <3>1
  <2> QED
    BY <2>1
<1>4. flat = Body(flat)
  <2> HIDE DEF Body
  <2> QED
    BY <1>3
<1>5. FlattenSeq(seqs) = flat[N]
  BY <1>1 DEF FlattenSeq
<1> HIDE DEF flat
<1>6. flat = [i \in 1 .. N |-> IF i = 1 THEN seqs[i] ELSE flat[i - 1] \o seqs[i]]
  BY <1>4
<1>7. \A i \in 1 .. N : flat[i] = IF i = 1 THEN seqs[i] ELSE flat[i - 1] \o seqs[i]
  BY <1>6
<1> DEFINE Off == {i \in 1 .. N : flat[i] # g[i]}
<1>8. ASSUME Off # {}
      PROVE  FALSE
  <2>1. PICK k \in Off : \A j \in Off : k <= j
    <3>1. Off \in SUBSET Nat
      BY <1>1
    <3> HIDE DEF Off
    <3> QED
      BY <1>8, <3>1, LeastNumber
  <2>2. k \in 1 .. N /\ flat[k] # g[k]
    OBVIOUS
  <2>3. k # 1
    BY <1>2, <1>7, <2>2
  <2>4. k \in 2 .. N /\ k - 1 \in 1 .. N /\ ~(k <= k - 1)
    BY <1>1, <2>2, <2>3
  <2>5. flat[k - 1] = g[k - 1]
    BY <2>1, <2>4
  <2> QED
    BY <1>2, <1>7, <2>2, <2>3, <2>4, <2>5
<1>9. FlattenSeq(seqs) = g[N]
  BY <1>1, <1>5, <1>8
<1> QED
  BY <1>2, <1>9 DEF Flattens

FieldCells(i, frame, f) == [p \in 1 .. frame[f] |-> <<i, f, p>>]

CellsOf(frame) == (1 .. MaxFrames) \X (DOMAIN frame) \X (Nat \ {0})

Whole(frame) == frame \in Seq(Nat) /\ frame # <<>> /\ frame[1] # 0

\* The cells of the first fields of frame i: all of Cells(i, frame) with the last.
Begun(i, frame) ==
  CHOOSE g \in [DOMAIN frame -> Seq(CellsOf(frame))] :
    /\ g[1] = FieldCells(i, frame, 1)
    /\ \A f \in 2 .. Len(frame) : g[f] = g[f - 1] \o FieldCells(i, frame, f)
    /\ Cells(i, frame) = g[Len(frame)]

LEMMA FieldFacts ==
  ASSUME NEW i \in 1 .. MaxFrames, NEW frame, Whole(frame), NEW f \in DOMAIN frame
  PROVE  /\ frame[f] \in Nat
         /\ FieldCells(i, frame, f) \in Seq(CellsOf(frame))
         /\ Len(FieldCells(i, frame, f)) = frame[f]
<1>1. frame[f] \in Nat
  BY DEF Whole
<1>2. \A p \in 1 .. frame[f] : <<i, f, p>> \in CellsOf(frame)
  BY <1>1 DEF CellsOf
<1> QED
  BY <1>1, <1>2 DEF FieldCells

LEMMA FrameFacts ==
  ASSUME NEW frame, Whole(frame)
  PROVE  /\ Len(frame) \in Nat /\ Len(frame) >= 1 /\ DOMAIN frame = 1 .. Len(frame)
         /\ 1 \in DOMAIN frame /\ Len(frame) \in DOMAIN frame
  BY SMTT(60) DEF Whole

LEMMA BegunFacts ==
  ASSUME NEW i \in 1 .. MaxFrames, NEW frame, Whole(frame)
  PROVE  /\ Begun(i, frame) \in [DOMAIN frame -> Seq(CellsOf(frame))]
         /\ Begun(i, frame)[1] = FieldCells(i, frame, 1)
         /\ \A f \in 2 .. Len(frame) :
              Begun(i, frame)[f] = Begun(i, frame)[f - 1] \o FieldCells(i, frame, f)
         /\ Cells(i, frame) = Begun(i, frame)[Len(frame)]
<1> DEFINE seqs == [f \in DOMAIN frame |-> FieldCells(i, frame, f)]
<1>1. seqs \in Seq(Seq(CellsOf(frame))) /\ Len(seqs) = Len(frame) /\ seqs # <<>>
  BY FieldFacts, FrameFacts
<1>2. Cells(i, frame) = FlattenSeq(seqs)
  BY DEF Cells, FieldCells
<1>3. \A f \in DOMAIN frame : seqs[f] = FieldCells(i, frame, f)
  OBVIOUS
<1> HIDE DEF seqs
<1>4. PICK g \in [1 .. Len(seqs) -> Seq(CellsOf(frame))] :
        Flattens(g, seqs) /\ FlattenSeq(seqs) = g[Len(seqs)]
  BY <1>1, FlattenFacts
<1>5. /\ g \in [DOMAIN frame -> Seq(CellsOf(frame))]
      /\ g[1] = FieldCells(i, frame, 1)
      /\ Cells(i, frame) = g[Len(frame)]
  BY <1>1, <1>2, <1>3, <1>4, FrameFacts DEF Flattens
<1>6. \A f \in 2 .. Len(frame) : g[f] = g[f - 1] \o FieldCells(i, frame, f)
  <2> SUFFICES ASSUME NEW f \in 2 .. Len(frame)
               PROVE  g[f] = g[f - 1] \o FieldCells(i, frame, f)
    OBVIOUS
  <2>1. g[f] = g[f - 1] \o seqs[f]
    BY <1>1, <1>4 DEF Flattens
  <2>2. f \in DOMAIN frame
    BY FrameFacts
  <2> QED
    BY <1>3, <2>1, <2>2
<1> QED
  BY <1>5, <1>6 DEF Begun

\* What has been begun goes on to the whole frame.
LEMMA BegunGoesOn ==
  ASSUME NEW i \in 1 .. MaxFrames, NEW frame, Whole(frame), NEW f \in DOMAIN frame
  PROVE  \E more \in Seq(CellsOf(frame)) : Cells(i, frame) = Begun(i, frame)[f] \o more
<1> DEFINE N == Len(frame)
           C == CellsOf(frame)
           g == Begun(i, frame)
           Goes(k) == \E more \in Seq(C) : Cells(i, frame) = g[k] \o more
           Stuck == {d \in 0 .. N - 1 : ~Goes(N - d)}
<1>1. N \in Nat /\ N >= 1 /\ DOMAIN frame = 1 .. N
  BY FrameFacts
<1>2. /\ \A k \in 1 .. N : g[k] \in Seq(C)
      /\ \A k \in 2 .. N : g[k] = g[k - 1] \o FieldCells(i, frame, k)
      /\ Cells(i, frame) = g[N]
  BY <1>1, BegunFacts
<1>3. \A k \in 1 .. N : FieldCells(i, frame, k) \in Seq(C)
  BY <1>1, FieldFacts
<1> HIDE DEF g, C, N
<1>4. ASSUME Stuck # {}
      PROVE  FALSE
  <2>1. Stuck \in SUBSET Nat
    <3> HIDE DEF Goes
    <3> QED
      BY <1>1
  <2>2. PICK d \in Stuck : \A e \in Stuck : d <= e
    <3> HIDE DEF Stuck
    <3> QED
      BY <1>4, <2>1, LeastNumber
  <2>3. d \in 0 .. N - 1 /\ ~Goes(N - d)
    OBVIOUS
  <2>4. CASE d = 0
    <3>1. <<>> \in Seq(C) /\ g[N] \o <<>> = g[N]
      BY <1>1, <1>2, ConcatEmptySeq, EmptySeq
    <3>2. Goes(N)
      BY <1>2, <3>1
    <3>3. N - d = N
      BY <1>1, <2>4
    <3> QED
      BY <2>3, <3>2, <3>3
  <2>5. CASE d # 0
    <3>1. d - 1 \in 0 .. N - 1 /\ ~(d <= d - 1)
      BY <1>1, <2>3, <2>5
    <3>2. Goes(N - (d - 1))
      <4> HIDE DEF Goes
      <4> QED
        BY <2>2, <3>1
    <3> DEFINE k == N - d
    <3>3. k \in 1 .. N /\ k + 1 \in 2 .. N /\ N - (d - 1) = k + 1 /\ (k + 1) - 1 = k
      BY <1>1, <2>3, <2>5
    <3> HIDE DEF k
    <3>4. PICK more \in Seq(C) : Cells(i, frame) = g[k + 1] \o more
      BY <3>2, <3>3
    <3> DEFINE next == FieldCells(i, frame, k + 1)
    <3>5. next \in Seq(C) /\ g[k] \in Seq(C) /\ g[k + 1] = g[k] \o next
      <4>1. k + 1 \in 1 .. N
        BY <1>1, <3>3
      <4> QED
        BY <1>2, <1>3, <3>3, <4>1
    <3> HIDE DEF next
    <3>6. next \o more \in Seq(C) /\ Cells(i, frame) = g[k] \o (next \o more)
      <4> DEFINE b == g[k]
      <4>1. b \in Seq(C) /\ Cells(i, frame) = (b \o next) \o more
        BY <3>4, <3>5
      <4> HIDE DEF b
      <4>2. (b \o next) \o more = b \o (next \o more)
        <5>1. b \in Seq(C) /\ next \in Seq(C) /\ more \in Seq(C)
          BY <3>5, <4>1
        <5> QED
          BY ONLY <5>1, ConcatAssociative, SMTT(60)
      <4>3. next \o more \in Seq(C)
        BY <3>5, ConcatProperties
      <4> QED
        BY <4>1, <4>2, <4>3 DEF b
    <3>7. Goes(k)
      BY <3>6
    <3> QED
      BY <2>3, <3>7 DEF k
  <2> QED
    BY <2>4, <2>5
<1>5. f \in 1 .. N /\ N - f \in 0 .. N - 1 /\ N - (N - f) = f
  BY <1>1
<1>6. Goes(f)
  <2> HIDE DEF Goes
  <2>1. N - f \notin Stuck
    BY <1>4
  <2> QED
    BY <1>5, <2>1
<1> QED
  BY <1>6 DEF g, C

\* The first cell of a frame tells which it is.
LEMMA FirstCell ==
  ASSUME NEW i \in 1 .. MaxFrames, NEW frame, Whole(frame)
  PROVE  /\ Cells(i, frame) \in Seq(CellsOf(frame))
         /\ Cells(i, frame) # <<>>
         /\ Cells(i, frame)[1] = <<i, 1, 1>>
<1>1. 1 \in DOMAIN frame /\ Len(frame) \in DOMAIN frame
  BY FrameFacts
<1>2. PICK more \in Seq(CellsOf(frame)) :
        Cells(i, frame) = Begun(i, frame)[1] \o more
  BY <1>1, BegunGoesOn
<1> DEFINE first == FieldCells(i, frame, 1)
<1>3. first \in Seq(CellsOf(frame)) /\ Len(first) = frame[1] /\ frame[1] \in Nat
  BY <1>1, FieldFacts
<1>4. frame[1] >= 1
  BY <1>3 DEF Whole
<1>5. first[1] = <<i, 1, 1>>
  BY <1>3, <1>4 DEF FieldCells
<1>6. Cells(i, frame) = first \o more
  BY <1>2, BegunFacts
<1> HIDE DEF first
<1>7. 1 \in 1 .. Len(first) + Len(more) /\ Len(first \o more) >= 1
  BY <1>3, <1>4, ConcatProperties, LenProperties
<1>8. (first \o more)[1] = <<i, 1, 1>>
  BY <1>3, <1>4, <1>5, <1>7, ConcatProperties
<1>9. first \o more # <<>> /\ first \o more \in Seq(CellsOf(frame))
  BY <1>3, <1>7, ConcatProperties, EmptySeq
<1> QED
  BY <1>6, <1>8, <1>9

-----------------------------------------------------------------------------
(* Type correctness.                                                       *)

LEMMA FormatFacts ==
  ASSUME format \in Formats
  PROVE  /\ Len(format) \in Nat /\ Len(format) >= 1 /\ DOMAIN format = 1 .. Len(format)
         /\ \A f \in DOMAIN format : format[f] \in Nat
         /\ format[1] # Sized /\ 1 \in DOMAIN format
         /\ \A f \in DOMAIN format : format[f] = Sized => f > 1 /\ format[f - 1] # Sized
<1>1. /\ format \in Seq(Nat) /\ format # <<>>
      /\ \A f \in DOMAIN format : format[f] = Sized => f > 1 /\ format[f - 1] # Sized
  BY FramingAssumption
<1>2. /\ Len(format) \in Nat /\ Len(format) >= 1 /\ DOMAIN format = 1 .. Len(format)
      /\ \A f \in DOMAIN format : format[f] \in Nat
  BY <1>1
<1>3. 1 \in DOMAIN format
  BY <1>2
<1> QED
  BY <1>1, <1>2, <1>3

LEMMA FramesFacts ==
  ASSUME format \in Formats, NEW frame \in Frames
  PROVE  /\ Whole(frame) /\ DOMAIN frame = DOMAIN format /\ Len(frame) = Len(format)
         /\ \A f \in DOMAIN format : frame[f] \in Nat
         /\ \A f \in DOMAIN format : format[f] # Sized => frame[f] = format[f]
         /\ CellsOf(frame) = Cell
<1> DEFINE sized == {f \in DOMAIN format : format[f] = Sized}
<1>1. PICK size \in [sized -> 0 .. MaxBody] :
        frame = [f \in DOMAIN format |-> IF f \in sized THEN size[f] ELSE format[f]]
  BY DEF Frames
<1>2. \A f \in DOMAIN format : frame[f] \in Nat
  BY <1>1, FormatFacts, FramingAssumption
<1>3. \A f \in DOMAIN format : format[f] # Sized => frame[f] = format[f]
  BY <1>1
<1>4. DOMAIN frame = 1 .. Len(format) /\ DOMAIN frame = DOMAIN format
  BY <1>1, FormatFacts
<1>5. frame = [f \in 1 .. Len(format) |-> frame[f]]
  BY <1>1, <1>4
<1>6. frame \in Seq(Nat) /\ Len(frame) = Len(format)
  <2>1. \A f \in 1 .. Len(format) : frame[f] \in Nat
    BY <1>2, FormatFacts
  <2>2. frame \in [1 .. Len(format) -> Nat]
    BY <1>5, <2>1
  <2> QED
    BY <2>2, FormatFacts
<1>7. frame # <<>>
  BY <1>6, FormatFacts
<1>8. frame[1] # 0
  BY <1>3, FormatFacts DEF Sized
<1> QED
  BY <1>2, <1>3, <1>4, <1>6, <1>7, <1>8 DEF Whole, CellsOf, Cell

LEMMA WrittenFacts ==
  ASSUME TypeOK, NEW i \in DOMAIN written
  PROVE  /\ i \in 1 .. MaxFrames /\ written[i] \in Frames
         /\ Cells(i, written[i]) \in Seq(Cell)
<1>1. i \in 1 .. MaxFrames /\ written[i] \in Frames
  <2>1. written \in Seq(Frames) /\ Len(written) <= MaxFrames /\ MaxFrames \in Nat
    BY FramingAssumption DEF TypeOK
  <2> HIDE DEF Frames
  <2> QED
    BY <2>1, LenProperties, ElementOfSeq
<1>2. Whole(written[i]) /\ CellsOf(written[i]) = Cell
  BY <1>1, FramesFacts DEF TypeOK
<1>3. Cells(i, written[i]) \in Seq(CellsOf(written[i]))
  BY <1>1, <1>2, FirstCell
<1> QED
  BY <1>1, <1>2, <1>3

\* A sequence in two pieces.
LEMMA Pieces ==
  ASSUME NEW S, NEW s \in Seq(S), NEW n \in 0 .. Len(s)
  PROVE  /\ SubSeq(s, 1, n) \in Seq(S) /\ SubSeq(s, n + 1, Len(s)) \in Seq(S)
         /\ Len(SubSeq(s, 1, n)) = n
         /\ SubSeq(s, 1, n) \o SubSeq(s, n + 1, Len(s)) = s
<1>1. Len(s) \in Nat /\ n \in Nat /\ n <= Len(s)
  BY LenProperties
<1>2. /\ \A i \in 1 .. n : s[i] \in S
      /\ \A i \in n + 1 .. Len(s) : s[i] \in S
  BY <1>1, ElementOfSeq
<1>3. SubSeq(s, 1, n) \in Seq(S) /\ Len(SubSeq(s, 1, n)) = n
  BY <1>1, <1>2, SubSeqProperties
<1>4. SubSeq(s, n + 1, Len(s)) \in Seq(S)
  BY <1>1, <1>2, SubSeqProperties
<1>5. SubSeq(s, 1, n) \o SubSeq(s, n + 1, Len(s)) = SubSeq(s, 1, Len(s))
  <2>1. 1 \in 1 .. Len(s) + 1 /\ n \in 1 - 1 .. Len(s) /\ Len(s) \in n .. Len(s)
    BY <1>1
  <2> QED
    BY <2>1, ConcatAdjacentSubSeq
<1> QED
  BY <1>3, <1>4, <1>5, SubSeqFull

LEMMA SendableFacts ==
  ASSUME TypeOK, NEW cells \in Seq(Cell)
  PROVE  /\ Sendable(cells) \in 0 .. Len(cells)
         /\ Len(wire) + Sendable(cells) <= Capacity
<1> DEFINE T == {Len(cells), Transfer, Capacity - Len(wire)}
<1>1. /\ Len(cells) \in Nat /\ Len(wire) \in Nat /\ Len(wire) <= Capacity
      /\ Capacity \in Nat /\ Transfer \in Nat
  BY FramingAssumption, LenProperties DEF TypeOK
<1>2. T \in SUBSET Nat /\ T # {}
  BY <1>1
<1>3. Sendable(cells) = Least(T)
  BY DEF Sendable
<1>4. Least(T) \in Nat /\ Least(T) <= Len(cells) /\ Least(T) <= Capacity - Len(wire)
  <2>1. Len(cells) \in T /\ Capacity - Len(wire) \in T
    OBVIOUS
  <2> HIDE DEF T
  <2> QED
    BY <1>2, <2>1, LeastFacts
<1> QED
  BY <1>1, <1>3, <1>4

\* Nothing is lost between the buffers and what is still to be handed over.
LEMMA HandOverFacts ==
  ASSUME TypeOK, NEW w \in Writers, NEW cells \in Seq(Cell), HandOver(w, cells)
  PROVE  /\ wire' \in Seq(Cell) /\ Len(wire') <= Capacity
         /\ unsent' \in [Writers -> Seq(Cell)]
         /\ \A v \in Writers \ {w} : unsent'[v] = unsent[v]
         /\ wire' \o unsent'[w] = wire \o cells
<1> DEFINE n == Sendable(cells)
           now == SubSeq(cells, 1, n)
           later == SubSeq(cells, n + 1, Len(cells))
<1>1. n \in 0 .. Len(cells) /\ Len(wire) + n <= Capacity
  BY SendableFacts
<1>2. /\ wire' = wire \o now
      /\ unsent' = [unsent EXCEPT ![w] = later]
  BY DEF HandOver, Rest
<1> HIDE DEF n
<1>3. /\ now \in Seq(Cell) /\ later \in Seq(Cell) /\ Len(now) = n
      /\ now \o later = cells
  BY <1>1, Pieces
<1> HIDE DEF now, later
<1>4. wire \in Seq(Cell) /\ unsent \in [Writers -> Seq(Cell)]
  BY DEF TypeOK
<1>5. wire' \in Seq(Cell) /\ Len(wire') <= Capacity
  BY <1>1, <1>2, <1>3, <1>4, ConcatProperties
<1>6. /\ unsent' \in [Writers -> Seq(Cell)] /\ unsent'[w] = later
      /\ \A v \in Writers \ {w} : unsent'[v] = unsent[v]
  BY <1>2, <1>3, <1>4
<1>7. (wire \o now) \o later = wire \o (now \o later)
  <2>1. now \in Seq(Cell) /\ later \in Seq(Cell) /\ wire \in Seq(Cell)
    BY <1>3, <1>4
  <2> QED
    BY ONLY <2>1, ConcatAssociative
<1> QED
  BY <1>2, <1>3, <1>5, <1>6, <1>7

\* A read that is complete has taken the front of the buffers.
LEMMA GotFacts ==
  ASSUME TypeOK, Enough
  PROVE  /\ Got \in Seq(Cell) /\ Len(Got) = need
         /\ Gained \in Seq(Cell) /\ Gained = pack \o Got
         /\ SubSeq(wire, Len(Got) + 1, Len(wire)) \in Seq(Cell)
         /\ Len(SubSeq(wire, Len(Got) + 1, Len(wire))) <= Capacity
         /\ Got \o SubSeq(wire, Len(Got) + 1, Len(wire)) = wire
<1>1. /\ wire \in Seq(Cell) /\ Len(wire) \in Nat /\ need \in 0 .. Len(wire)
      /\ Len(wire) <= Capacity /\ Capacity \in Nat /\ pack \in Seq(Cell)
  BY LenProperties, FramingAssumption DEF TypeOK, Enough
<1>2. Least({need, Len(wire)}) = need
  <2> DEFINE T == {need, Len(wire)}
  <2>1. T \in SUBSET Nat /\ T # {}
    BY <1>1
  <2>2. Least(T) \in T /\ Least(T) <= need
    <3>1. need \in T
      OBVIOUS
    <3> HIDE DEF T
    <3> QED
      BY <2>1, <3>1, LeastFacts
  <2> QED
    BY <1>1, <2>2
<1>3. Got = SubSeq(wire, 1, need)
  BY <1>2 DEF Got
<1>4. /\ Got \in Seq(Cell) /\ Len(Got) = need
      /\ SubSeq(wire, Len(Got) + 1, Len(wire)) \in Seq(Cell)
      /\ Got \o SubSeq(wire, Len(Got) + 1, Len(wire)) = wire
  BY <1>1, <1>3, Pieces
<1> DEFINE left == SubSeq(wire, Len(Got) + 1, Len(wire))
<1> HIDE DEF left
<1>5. Len(left) <= Capacity
  <2>1. left \in Seq(Cell) /\ Got \in Seq(Cell) /\ Len(Got \o left) = Len(wire)
    BY <1>4 DEF left
  <2>2. Len(Got) \in Nat /\ Len(left) \in Nat /\ Len(Got \o left) = Len(Got) + Len(left)
    BY <2>1, ConcatProperties, LenProperties
  <2> QED
    BY <1>1, <2>1, <2>2
<1>6. Gained \in Seq(Cell)
  BY <1>1, <1>4, ConcatProperties DEF Gained
<1> QED
  BY <1>4, <1>5, <1>6 DEF Gained, left

LEMMA SaidFacts ==
  ASSUME TypeOK, NEW f \in DOMAIN format, f + 1 \in DOMAIN format, NEW cells
  PROVE  Said(f, cells) \subseteq Nat
<1>1. \A i \in DOMAIN written : written[i][f + 1] \in Nat
  BY WrittenFacts, FramesFacts DEF TypeOK
<1> QED
  BY <1>1, FramingAssumption DEF Said

LEMMA NumberedFacts ==
  ASSUME TypeOK, NEW cells
  PROVE  Numbered(cells) \in 0 .. MaxFrames
<1> DEFINE own == {i \in DOMAIN written : cells = Cells(i, written[i])}
<1>1. own \subseteq 1 .. MaxFrames
  BY WrittenFacts
<1>2. Numbered(cells) = IF own = {} THEN Garbage ELSE CHOOSE i \in own : TRUE
  BY DEF Numbered
<1> HIDE DEF own
<1>3. MaxFrames \in Nat /\ Garbage = 0
  BY FramingAssumption DEF Garbage
<1>4. CASE own = {}
  <2>1. Numbered(cells) = 0
    BY <1>2, <1>3, <1>4
  <2> QED
    BY <1>3, <2>1
<1>5. CASE own # {}
  <2>1. (CHOOSE i \in own : TRUE) \in own
    BY <1>5
  <2>2. Numbered(cells) \in own
    BY <1>2, <1>5, <2>1
  <2>3. Numbered(cells) \in 1 .. MaxFrames
    BY <1>1, <2>2, Zenon
  <2> QED
    BY <1>3, <2>3
<1> QED
  BY <1>4, <1>5

LEMMA StreamTypes ==
  ASSUME format' = format
  PROVE  Cell' = Cell /\ Frames' = Frames
  BY DEF Cell, Frames

LEMMA FramingInit ==
  ASSUME Init
  PROVE  TypeOK
<1>1. format \in Formats
  BY DEF Init
<1>2. 1 \in DOMAIN format /\ format[1] \in Nat
  BY <1>1, FormatFacts
<1>3. /\ Len(<<>>) = 0 /\ <<>> \in Seq(Frames) /\ <<>> \in Seq(Cell)
      /\ <<>> \in Seq(0 .. MaxFrames)
  BY EmptySeq
<1>4. MaxFrames \in Nat /\ Capacity \in Nat
  BY FramingAssumption
<1>5. unsent \in [Writers -> Seq(Cell)] /\ wire \in Seq(Cell) /\ Len(wire) <= Capacity
  BY <1>3, <1>4 DEF Init
<1>6. /\ written \in Seq(Frames) /\ Len(written) <= MaxFrames
      /\ pack \in Seq(Cell) /\ delivered \in Seq(0 .. MaxFrames)
  BY <1>3, <1>4 DEF Init
<1>7. /\ open \in BOOLEAN /\ reading \in BOOLEAN /\ overlapped \in BOOLEAN
      /\ field \in DOMAIN format /\ need \in Nat
  BY <1>2 DEF Init
<1> QED
  BY <1>1, <1>5, <1>6, <1>7 DEF TypeOK

LEMMA TypesWriters ==
  ASSUME TypeOK, NEW w \in Writers, StartWrite(w) \/ GoOnWriting(w)
  PROVE  TypeOK'
<1>1. format' = format /\ readers' = readers /\ open' = open
  BY DEF StartWrite, GoOnWriting
<1>2. /\ written' \in Seq(Frames) /\ Len(written') <= MaxFrames
      /\ overlapped' \in BOOLEAN
      /\ wire' \in Seq(Cell) /\ Len(wire') <= Capacity
      /\ unsent' \in [Writers -> Seq(Cell)]
  <2>1. CASE StartWrite(w)
    <3>1. PICK frame \in Frames :
            /\ written' = Append(written, frame)
            /\ HandOver(w, Cells(Len(written) + 1, frame))
      BY <2>1 DEF StartWrite
    <3> DEFINE i == Len(written) + 1
    <3>2. i \in 1 .. MaxFrames /\ Len(written) \in Nat /\ written \in Seq(Frames)
      BY <2>1, FramingAssumption, LenProperties DEF TypeOK, StartWrite
    <3> HIDE DEF i
    <3>3. Whole(frame) /\ CellsOf(frame) = Cell
      BY FramesFacts DEF TypeOK
    <3>4. Cells(i, frame) \in Seq(Cell)
      BY <3>2, <3>3, FirstCell
    <3>5. HandOver(w, Cells(i, frame))
      BY <3>1 DEF i
    <3>6. /\ wire' \in Seq(Cell) /\ Len(wire') <= Capacity
          /\ unsent' \in [Writers -> Seq(Cell)]
      BY <3>4, <3>5, HandOverFacts
    <3>7. written' \in Seq(Frames) /\ Len(written') = Len(written) + 1
      BY <3>1, <3>2, AppendProperties
    <3>8. overlapped' \in BOOLEAN
      BY <2>1 DEF StartWrite
    <3> QED
      BY <3>2, <3>6, <3>7, <3>8 DEF i
  <2>2. CASE GoOnWriting(w)
    <3>1. unsent[w] \in Seq(Cell) /\ HandOver(w, unsent[w])
      BY <2>2 DEF TypeOK, GoOnWriting
    <3>2. /\ wire' \in Seq(Cell) /\ Len(wire') <= Capacity
          /\ unsent' \in [Writers -> Seq(Cell)]
      BY <3>1, HandOverFacts
    <3> QED
      BY <2>2, <3>2 DEF TypeOK, GoOnWriting
  <2> QED
    BY <2>1, <2>2
<1>3. Cell' = Cell /\ Frames' = Frames
  BY <1>1, StreamTypes
<1> QED
  BY <1>1, <1>2, <1>3 DEF TypeOK, readers

LEMMA TypesStep ==
  ASSUME TypeOK, [Next]_vars
  PROVE  TypeOK'
<1>1. ASSUME format' = format
      PROVE  Cell' = Cell /\ Frames' = Frames
  BY <1>1, StreamTypes
<1>2. 1 \in DOMAIN format /\ format[1] \in Nat
  BY FormatFacts DEF TypeOK
<1>3. /\ <<>> \in Seq(Cell) /\ Len(<<>>) = 0 /\ Capacity \in Nat
  BY FramingAssumption, EmptySeq
<1>4. CASE ReadField
  <2>1. format' = format /\ writing' = writing /\ reading' = reading
        /\ delivered' = delivered
    BY <1>4 DEF ReadField
  <2>2. field \in DOMAIN format /\ field + 1 \in DOMAIN format
    BY <1>4, FormatFacts DEF ReadField, TypeOK
  <2>3. need' \in Nat
    BY <1>4, <2>2, SaidFacts, FormatFacts DEF ReadField, TypeOK
  <2>4. /\ pack' \in Seq(Cell) /\ wire' \in Seq(Cell) /\ Len(wire') <= Capacity
    BY <1>4, GotFacts DEF ReadField
  <2>5. field' \in DOMAIN format
    BY <1>4, <2>2 DEF ReadField
  <2> QED
    BY <1>1, <2>1, <2>3, <2>4, <2>5 DEF TypeOK, writing
<1>5. CASE Deliver
  <2>1. format' = format /\ writing' = writing /\ reading' = reading
        /\ field' = 1 /\ need' = format[1] /\ pack' = <<>>
    BY <1>5 DEF Deliver
  <2>2. wire' \in Seq(Cell) /\ Len(wire') <= Capacity
    BY <1>5, GotFacts DEF Deliver
  <2>3. delivered' \in Seq(0 .. MaxFrames)
    <3>1. Numbered(Gained) \in 0 .. MaxFrames /\ delivered \in Seq(0 .. MaxFrames)
      BY NumberedFacts DEF TypeOK
    <3> QED
      BY <1>5, <3>1, AppendProperties DEF Deliver
  <2> QED
    BY <1>1, <1>2, <1>3, <2>1, <2>2, <2>3 DEF TypeOK, writing
<1>6. CASE ReadPart
  <2>1. format' = format /\ writing' = writing /\ reading' = reading
        /\ delivered' = delivered /\ field' = field /\ wire' = <<>>
        /\ pack' = pack \o wire /\ need' = need - Len(wire) /\ ~(need <= Len(wire))
    BY <1>6 DEF ReadPart, Enough
  <2>2. pack' \in Seq(Cell)
    BY <2>1, ConcatProperties DEF TypeOK
  <2>3. need' \in Nat
    BY <2>1, LenProperties DEF TypeOK
  <2> QED
    BY <1>1, <1>3, <2>1, <2>2, <2>3 DEF TypeOK, writing
<1>7. CASE ReadEnd \/ ReaderEnds \/ WriterEnds
  <2>1. /\ format' = format /\ written' = written /\ overlapped' = overlapped
        /\ delivered' = delivered
    BY <1>7 DEF ReadEnd, ReaderEnds, WriterEnds, Stops, readers
  <2>2. unsent' = unsent \/ unsent' = [w \in Writers |-> <<>>]
    BY <1>7 DEF ReadEnd, ReaderEnds, WriterEnds
  <2>3. wire' = wire \/ wire' = <<>>
    BY <1>7 DEF ReadEnd, ReaderEnds, WriterEnds
  <2>4. /\ open' = open \/ open' = FALSE
        /\ reading' = reading \/ reading' = FALSE
    BY <1>7 DEF ReadEnd, ReaderEnds, WriterEnds, Stops, readers
  <2>5. \/ field' = field /\ need' = need /\ pack' = pack
        \/ field' = 1 /\ need' = format[1] /\ pack' = <<>>
    BY <1>7 DEF ReadEnd, ReaderEnds, WriterEnds, Stops, readers
  <2>6. unsent' \in [Writers -> Seq(Cell)]
    BY <1>3, <2>2 DEF TypeOK
  <2>7. wire' \in Seq(Cell) /\ Len(wire') <= Capacity
    <3>1. CASE wire' = <<>>
      <4>1. 0 <= Capacity
        BY <1>3
      <4> QED
        BY <1>3, <3>1, <4>1
    <3>2. CASE wire' = wire
      BY <3>2 DEF TypeOK
    <3> QED
      BY <2>3, <3>1, <3>2
  <2>8. field' \in DOMAIN format /\ need' \in Nat /\ pack' \in Seq(Cell)
    BY <1>2, <1>3, <2>5 DEF TypeOK
  <2>9. open' \in BOOLEAN /\ reading' \in BOOLEAN
    BY <2>4 DEF TypeOK
  <2> QED
    BY <1>1, <2>1, <2>6, <2>7, <2>8, <2>9 DEF TypeOK
<1>8. ASSUME NEW w \in Writers, StartWrite(w) \/ GoOnWriting(w)
      PROVE  TypeOK'
  BY <1>8, TypesWriters
<1>9. CASE UNCHANGED vars
  BY <1>1, <1>9 DEF TypeOK, vars, writing, readers
<1> QED
  BY <1>4, <1>5, <1>6, <1>7, <1>8, <1>9 DEF Next, Read

\* The state of the connection is well typed, whatever the reader takes the
\* cells of overlapping writes for.
THEOREM FramingTypes == Spec => []TypeOK
  BY FramingInit, TypesStep, PTL DEF Spec

-----------------------------------------------------------------------------
(* The stream.  What has not been delivered is, in this order, with the    *)
(* reader, in the buffers and with the one writer that is not finished;    *)
(* together it is the frames that remain.  When the writers' process has   *)
(* ended, the last part is whatever it did not write.                      *)

\* rem[k]: the cells of the frames after the first k.
Remains(rem) ==
  /\ rem \in [0 .. Len(written) -> Seq(Cell)]
  /\ rem[Len(written)] = <<>>
  /\ \A k \in 0 .. Len(written) - 1 : rem[k] = Cells(k + 1, written[k + 1]) \o rem[k + 1]

Awaited(rest) ==
  open => \/ rest = <<>> /\ \A w \in Writers : ~Busy(w)
          \/ \E w \in Writers : rest = unsent[w] /\ \A v \in Writers \ {w} : ~Busy(v)

Streams(rem, rest) ==
  /\ Remains(rem)
  /\ rest \in Seq(Cell) /\ Awaited(rest)
  /\ pack \o (wire \o rest) = rem[Len(delivered)]

Current == Len(delivered) + 1

\* What the reader has and what it waits for is the frame up to its field.
Progress ==
  /\ Len(delivered) = Len(written) => field = 1 /\ need = format[1] /\ pack = <<>>
  /\ Len(delivered) < Len(written) =>
       Len(pack) + need = Len(Begun(Current, written[Current])[field])

Streaming == Progress /\ \E rem, rest : Streams(rem, rest)

StreamInv ==
  /\ TypeOK
  /\ FramesWhole
  /\ ~overlapped /\ reading => Streaming

LEMMA WrittenBegun ==
  ASSUME TypeOK, NEW i \in DOMAIN written
  PROVE  /\ Whole(written[i]) /\ Len(written[i]) = Len(format)
         /\ \A f \in DOMAIN format : /\ Begun(i, written[i])[f] \in Seq(Cell)
                                     /\ FieldCells(i, written[i], f) \in Seq(Cell)
                                     /\ Len(FieldCells(i, written[i], f)) = written[i][f]
         /\ Begun(i, written[i])[1] = FieldCells(i, written[i], 1)
         /\ written[i][1] = format[1]
         /\ Len(Begun(i, written[i])[1]) = format[1]
         /\ Begun(i, written[i])[Len(format)] = Cells(i, written[i])
<1> DEFINE frame == written[i]
<1>1. i \in 1 .. MaxFrames /\ frame \in Frames
  BY WrittenFacts
<1>2. /\ Whole(frame) /\ DOMAIN frame = DOMAIN format /\ Len(frame) = Len(format)
      /\ \A f \in DOMAIN format : format[f] # Sized => frame[f] = format[f]
      /\ CellsOf(frame) = Cell
  BY <1>1, FramesFacts DEF TypeOK
<1> HIDE DEF frame
<1>3. /\ Begun(i, frame) \in [DOMAIN frame -> Seq(Cell)]
      /\ Begun(i, frame)[1] = FieldCells(i, frame, 1)
      /\ Cells(i, frame) = Begun(i, frame)[Len(frame)]
  BY <1>1, <1>2, BegunFacts
<1>4. \A f \in DOMAIN format : /\ FieldCells(i, frame, f) \in Seq(Cell)
                               /\ Len(FieldCells(i, frame, f)) = frame[f]
  BY <1>1, <1>2, FieldFacts
<1>5. 1 \in DOMAIN format /\ format[1] # Sized
  BY FormatFacts DEF TypeOK
<1>6. frame[1] = format[1] /\ Len(Begun(i, frame)[1]) = format[1]
  BY <1>2, <1>3, <1>4, <1>5
<1> QED
  BY <1>2, <1>3, <1>4, <1>6 DEF frame

LEMMA DeliveredFacts ==
  ASSUME TypeOK, FramesWhole, ~overlapped
  PROVE  /\ Len(delivered) \in Nat /\ Len(written) \in Nat
         /\ Len(delivered) <= Len(written)
         /\ \A i \in DOMAIN delivered : delivered[i] = i
         /\ Len(delivered) < Len(written) =>
              Current \in DOMAIN written /\ Current - 1 = Len(delivered)
  BY LenProperties DEF TypeOK, FramesWhole, Current

\* When the reader has the field it waits for, it has that field of the
\* frame whose turn it is.
LEMMA CompleteField ==
  ASSUME TypeOK, FramesWhole, ~overlapped, Progress, Enough,
         NEW rem, NEW rest, Streams(rem, rest),
         NEW left, left = SubSeq(wire, Len(Got) + 1, Len(wire))
  PROVE  /\ Len(delivered) < Len(written)
         /\ Gained = Begun(Current, written[Current])[field]
         /\ Gained \in Seq(Cell) /\ left \in Seq(Cell) /\ left \o rest \in Seq(Cell)
         /\ Gained \o (left \o rest) = rem[Len(delivered)]
<1> DEFINE d == Len(delivered)
<1>1. /\ d \in Nat /\ Len(written) \in Nat /\ d <= Len(written)
      /\ d < Len(written) => Current \in DOMAIN written /\ Current = d + 1
  BY DeliveredFacts DEF Current
<1>2. /\ Got \in Seq(Cell) /\ Len(Got) = need /\ left \in Seq(Cell)
      /\ Gained \in Seq(Cell) /\ Gained = pack \o Got /\ Got \o left = wire
  BY GotFacts
<1>3. /\ pack \in Seq(Cell) /\ rest \in Seq(Cell) /\ wire \in Seq(Cell)
  BY DEF TypeOK, Streams
<1>4. left \o rest \in Seq(Cell) /\ wire \o rest \in Seq(Cell)
  BY <1>2, <1>3, ConcatProperties
<1>5. Gained \o (left \o rest) = pack \o (wire \o rest)
  <2> DEFINE g == Got
             lr == left \o rest
  <2>1. g \in Seq(Cell) /\ lr \in Seq(Cell) /\ wire = g \o left
    BY <1>2, <1>4
  <2>2. (g \o left) \o rest = g \o (left \o rest)
    <3>1. left \in Seq(Cell) /\ rest \in Seq(Cell)
      BY <1>2, <1>3
    <3> HIDE DEF g
    <3> QED
      BY ONLY <2>1, <3>1, ConcatAssociative, SMTT(60)
  <2>3. (pack \o g) \o lr = pack \o (g \o lr)
    <3> HIDE DEF g, lr
    <3> QED
      BY ONLY <1>3, <2>1, ConcatAssociative, SMTT(60)
  <2> QED
    BY <1>2, <2>1, <2>2, <2>3
<1>6. Gained \o (left \o rest) = rem[d]
  BY <1>5 DEF Streams
<1>7. d < Len(written)
  <2>1. ASSUME d = Len(written)
        PROVE  FALSE
    <3>1. Gained \o (left \o rest) = <<>>
      BY <1>6, <2>1 DEF Streams, Remains
    <3>2. Gained = <<>>
      BY <1>2, <1>4, <3>1, ConcatEqualIffEmpty
    <3>3. Got = <<>>
      <4> DEFINE g == Got
      <4>1. g \in Seq(Cell) /\ pack \in Seq(Cell) /\ pack \o g = <<>>
        BY <1>2, <1>3, <3>2
      <4> HIDE DEF g
      <4>2. g = <<>>
        BY ONLY <4>1, ConcatEqualIffEmpty
      <4> QED
        BY <4>2 DEF g
    <3>4. need = 0
      BY <1>2, <3>3, EmptySeq
    <3> QED
      BY <2>1, <3>4, FormatFacts DEF Progress, TypeOK, Sized
  <2> QED
    BY <1>1, <2>1
<1>8. Gained = Begun(Current, written[Current])[field]
  <2> DEFINE c == Current
             frame == written[c]
             b == Begun(c, frame)[field]
  <2>1. c \in DOMAIN written /\ c = d + 1 /\ field \in DOMAIN format
    BY <1>1, <1>7 DEF TypeOK
  <2>2. c \in 1 .. MaxFrames /\ frame \in Frames
    BY <2>1, WrittenFacts
  <2>3. Whole(frame) /\ field \in DOMAIN frame /\ CellsOf(frame) = Cell
    BY <2>1, <2>2, FramesFacts DEF TypeOK
  <2>4. b \in Seq(Cell)
    BY <2>1, WrittenBegun
  <2>5. PICK more \in Seq(Cell) : Cells(c, frame) = b \o more
    <3> HIDE DEF c, frame
    <3> QED
      BY <2>2, <2>3, BegunGoesOn
  <2>6. Len(pack) + need = Len(b)
    BY <1>7 DEF Progress
  <2>7. Len(Gained) = Len(b)
    BY <1>2, <1>3, <2>6, ConcatProperties
  <2>8. rem[d] = Cells(c, frame) \o rem[c] /\ rem[c] \in Seq(Cell)
    <3>1. d \in 0 .. Len(written) - 1 /\ c \in 0 .. Len(written)
      BY <1>1, <1>7, <2>1
    <3> QED
      BY <2>1, <3>1 DEF Streams, Remains
  <2> HIDE DEF b
  <2> DEFINE rc == rem[c]
  <2>9. rc \in Seq(Cell) /\ rem[d] = (b \o more) \o rc
    BY <2>5, <2>8
  <2> HIDE DEF rc
  <2>10. (b \o more) \o rc = b \o (more \o rc) /\ more \o rc \in Seq(Cell)
    <3>1. more \in Seq(Cell)
      OBVIOUS
    <3> QED
      BY ONLY <2>4, <2>9, <3>1, ConcatAssociative, ConcatProperties
  <2> DEFINE G == Gained
             lr == left \o rest
             mr == more \o rc
  <2>11. /\ G \in Seq(Cell) /\ lr \in Seq(Cell) /\ b \in Seq(Cell) /\ mr \in Seq(Cell)
         /\ G \o lr = b \o mr /\ Len(G) = Len(b)
    BY <1>2, <1>4, <1>6, <2>4, <2>7, <2>9, <2>10
  <2> HIDE DEF G, lr, mr
  <2>12. G = b
    BY ONLY <2>11, SameCut
  <2> QED
    BY <2>12 DEF G, b
<1> QED
  BY <1>2, <1>4, <1>6, <1>7, <1>8

\* The reader knows a frame by its cells.
LEMMA NumberedRight ==
  ASSUME TypeOK, NEW i \in DOMAIN written
  PROVE  Numbered(Cells(i, written[i])) = i
<1> DEFINE own == {j \in DOMAIN written : Cells(i, written[i]) = Cells(j, written[j])}
<1>1. ASSUME NEW j \in DOMAIN written
      PROVE  Cells(j, written[j])[1] = <<j, 1, 1>>
  <2>1. j \in 1 .. MaxFrames /\ Whole(written[j])
    BY WrittenFacts, WrittenBegun
  <2> QED
    BY <2>1, FirstCell
<1>2. \A j \in own : j = i
  BY <1>1
<1>3. own = {i}
  BY <1>2
<1>4. Numbered(Cells(i, written[i])) = CHOOSE j \in own : TRUE
  BY <1>3 DEF Numbered
<1> QED
  BY <1>3, <1>4

\* The cells of a field of fixed size give the size of the next field.
LEMMA SaidRight ==
  ASSUME TypeOK, NEW i \in DOMAIN written, NEW f \in DOMAIN format,
         f + 1 \in DOMAIN format, format[f + 1] = Sized,
         Gained = Begun(i, written[i])[f], Gained \in Seq(Cell)
  PROVE  Said(f, LastCells(format[f])) = {written[i][f + 1]}
<1> DEFINE n == format[f]
           mine == FieldCells(i, written[i], f)
<1>1. /\ f \in Nat /\ f >= 1 /\ n \in Nat /\ n # 0
  <2>1. f \in Nat /\ f >= 1 /\ n \in Nat /\ (f + 1) - 1 = f
    <3>1. f \in 1 .. Len(format) /\ Len(format) \in Nat /\ n \in Nat
      BY FormatFacts DEF TypeOK
    <3> QED
      BY <3>1
  <2>2. format[(f + 1) - 1] # Sized
    BY FormatFacts DEF TypeOK
  <2> QED
    BY <2>1, <2>2 DEF Sized
<1>2. written[i][f] = n
  BY <1>1, WrittenFacts, FramesFacts DEF TypeOK, Sized
<1>3. mine = [p \in 1 .. n |-> <<i, f, p>>]
  BY <1>2 DEF FieldCells
<1>4. mine \in Seq(Cell) /\ Len(mine) = n
  BY <1>2, WrittenBegun
<1>5. \E before \in Seq(Cell) : Gained = before \o mine
  <2>1. CASE f = 1
    <3>1. Gained = mine
      BY <2>1, WrittenBegun
    <3>2. <<>> \in Seq(Cell) /\ <<>> \o mine = mine
      <4> HIDE DEF mine
      <4> QED
        BY <1>4, ConcatEmptySeq, EmptySeq
    <3> QED
      BY <3>1, <3>2
  <2>2. CASE f # 1
    <3>1. f \in 2 .. Len(format) /\ f - 1 \in DOMAIN format
      <4>1. DOMAIN format = 1 .. Len(format) /\ Len(format) \in Nat
        BY FormatFacts DEF TypeOK
      <4>2. f \in 1 .. Len(format)
        BY <4>1
      <4>3. f \in 2 .. Len(format) /\ f - 1 \in 1 .. Len(format)
        BY ONLY <1>1, <2>2, <4>1, <4>2
      <4> QED
        BY <4>1, <4>3
    <3>2. /\ i \in 1 .. MaxFrames /\ Whole(written[i])
          /\ Len(written[i]) = Len(format)
      BY WrittenFacts, WrittenBegun
    <3>3. Begun(i, written[i])[f] = Begun(i, written[i])[f - 1] \o mine
      <4> DEFINE frame == written[i]
      <4>1. i \in 1 .. MaxFrames /\ Whole(frame) /\ f \in 2 .. Len(frame)
        BY <3>1, <3>2
      <4> HIDE DEF frame
      <4>2. Begun(i, frame)[f] = Begun(i, frame)[f - 1] \o FieldCells(i, frame, f)
        BY <4>1, BegunFacts
      <4> QED
        BY <4>2 DEF frame
    <3>4. Begun(i, written[i])[f - 1] \in Seq(Cell)
      BY <3>1, WrittenBegun
    <3> QED
      BY <3>3, <3>4
  <2> QED
    BY <2>1, <2>2
<1>6. LastCells(n) = mine
  <2> DEFINE G == Gained
  <2>1. PICK before \in Seq(Cell) : G = before \o mine
    BY <1>5
  <2>2. LastCells(n) = SubSeq(G, Len(G) - n + 1, Len(G))
    BY DEF LastCells
  <2> HIDE DEF G, mine, n
  <2>3. Len(G) = Len(before) + n /\ Len(before) \in Nat
    BY <1>4, <2>1, ConcatProperties, LenProperties
  <2>4. /\ Len(before) + 1 \in Len(before) + 1 .. Len(before) + Len(mine)
        /\ Len(before) + n \in Len(before) + 1 .. Len(before) + Len(mine)
    BY <1>1, <1>4, <2>3 DEF n
  <2>5. SubSeq(before \o mine, Len(before) + 1, Len(before) + n)
          = SubSeq(mine, (Len(before) + 1) - Len(before), (Len(before) + n) - Len(before))
    BY <1>4, <2>4, SubSeqOfConcat2
  <2>6. (Len(before) + 1) - Len(before) = 1 /\ (Len(before) + n) - Len(before) = Len(mine)
        /\ Len(G) - n + 1 = Len(before) + 1
    BY <1>1, <1>4, <2>3 DEF n
  <2>7. SubSeq(mine, 1, Len(mine)) = mine
    BY <1>4, SubSeqFull
  <2> QED
    BY <2>1, <2>2, <2>3, <2>5, <2>6, <2>7
<1> DEFINE own == {j \in DOMAIN written : mine = [p \in 1 .. n |-> <<j, f, p>>]}
<1>7. \A j \in own : j = i
  <2>1. SUFFICES ASSUME NEW j \in DOMAIN written, mine = [p \in 1 .. n |-> <<j, f, p>>]
                 PROVE  j = i
    OBVIOUS
  <2>2. 1 \in 1 .. n
    BY <1>1
  <2>3. mine[1] = <<i, f, 1>> /\ mine[1] = <<j, f, 1>>
    BY <1>3, <2>1, <2>2
  <2> QED
    BY <2>3
<1>8. own = {i}
  BY <1>3, <1>7
<1>9. Said(f, mine) = IF own = {} THEN 0 .. MaxBody ELSE {written[j][f + 1] : j \in own}
  BY DEF Said
<1>10. Said(f, mine) = {written[i][f + 1]}
  <2> HIDE DEF own, mine
  <2> QED
    BY <1>8, <1>9
<1> QED
  BY <1>6, <1>10

LEMMA StreamInit ==
  ASSUME Init
  PROVE  StreamInv
<1>1. TypeOK
  BY FramingInit
<1>2. Len(<<>>) = 0 /\ <<>> \in Seq(Cell) /\ <<>> \o <<>> = <<>>
  BY EmptySeq, ConcatEmptySeq
<1>3. Progress
  BY <1>2 DEF Init, Progress
<1> DEFINE rem == [k \in 0 .. 0 |-> <<>>]
<1>4. Remains(rem)
  <2>1. rem \in [0 .. 0 -> Seq(Cell)] /\ rem[0] = <<>>
    BY <1>2
  <2>2. Len(written) = 0
    BY <1>2 DEF Init
  <2>3. 0 .. 0 - 1 = {}
    OBVIOUS
  <2> HIDE DEF rem
  <2> QED
    BY <2>1, <2>2, <2>3 DEF Remains
<1>5. Awaited(<<>>)
  BY DEF Init, Awaited, Busy
<1>6. pack \o (wire \o <<>>) = rem[Len(delivered)]
  BY <1>2 DEF Init
<1>7. Streams(rem, <<>>)
  <2> HIDE DEF rem
  <2> QED
    BY <1>2, <1>4, <1>5, <1>6 DEF Streams
<1>8. FramesWhole
  BY <1>2 DEF Init, FramesWhole
<1> QED
  BY <1>1, <1>3, <1>7, <1>8 DEF StreamInv, Streaming

\* What remains of the frames when one more is written.
LEMMA RemainsMore ==
  ASSUME TypeOK, NEW rem, Remains(rem), NEW frame \in Frames,
         Len(written) < MaxFrames, written' = Append(written, frame), format' = format,
         NEW new, new = Cells(Len(written) + 1, frame)
  PROVE  \E more : /\ Remains(more)'
                   /\ \A k \in 0 .. Len(written) : more[k] = rem[k] \o new
<1> DEFINE n == Len(written)
<1>1. /\ n \in Nat /\ n + 1 \in 1 .. MaxFrames /\ n + 1 - 1 = n
      /\ written \in Seq(Frames)
  BY LenProperties, FramingAssumption DEF TypeOK
<1>2. /\ Len(written') = n + 1 /\ written'[n + 1] = frame
      /\ \A k \in 1 .. n : written'[k] = written[k]
  <2> HIDE DEF Frames
  <2> QED
    BY <1>1, AppendProperties
<1>3. new \in Seq(Cell)
  <2>1. Whole(frame) /\ CellsOf(frame) = Cell
    BY FramesFacts DEF TypeOK
  <2> QED
    BY <1>1, <2>1, FirstCell
<1>4. /\ \A k \in 0 .. n : rem[k] \in Seq(Cell)
      /\ rem[n] = <<>>
      /\ \A k \in 0 .. n - 1 : rem[k] = Cells(k + 1, written[k + 1]) \o rem[k + 1]
  BY <1>1 DEF Remains
<1>5. \A k \in 0 .. n : rem[k] \o new \in Seq(Cell)
  BY <1>3, <1>4, ConcatProperties
<1>6. PICK more \in [0 .. n + 1 -> Seq(Cell)] :
        more[n + 1] = <<>> /\ \A k \in 0 .. n : more[k] = rem[k] \o new
  <2> DEFINE m == [k \in 0 .. n + 1 |-> IF k = n + 1 THEN <<>> ELSE rem[k] \o new]
  <2>1. ASSUME NEW k \in 0 .. n + 1
        PROVE  (IF k = n + 1 THEN <<>> ELSE rem[k] \o new) \in Seq(Cell)
    <3>1. k = n + 1 \/ k \in 0 .. n
      BY <1>1
    <3> QED
      BY <1>5, <3>1, EmptySeq
  <2>2. m \in [0 .. n + 1 -> Seq(Cell)]
    BY <2>1
  <2>3. n + 1 \in 0 .. n + 1 /\ \A k \in 0 .. n : k \in 0 .. n + 1 /\ k # n + 1
    BY <1>1
  <2>4. m[n + 1] = <<>> /\ \A k \in 0 .. n : m[k] = rem[k] \o new
    BY <2>3
  <2> QED
    BY <2>2, <2>4
<1>7. \A k \in 0 .. n : more[k] = rem[k] \o new
  BY <1>6
<1>8. ASSUME NEW k \in 0 .. n
      PROVE  more[k] = Cells(k + 1, written'[k + 1]) \o more[k + 1]
  <2>1. CASE k = n
    <3>1. <<>> \o new = new /\ new \o <<>> = new
      BY <1>3, ConcatEmptySeq
    <3>2. written'[k + 1] = frame /\ more[k + 1] = <<>> /\ more[k] = <<>> \o new
      BY <1>1, <1>2, <1>4, <1>6, <1>7, <2>1
    <3> QED
      BY <2>1, <3>1, <3>2
  <2>2. CASE k # n
    <3>1. k \in 0 .. n - 1 /\ k + 1 \in 0 .. n /\ k + 1 \in 1 .. n
      <4> HIDE DEF n
      <4> QED
        BY <1>1, <2>2
    <3> DEFINE c == Cells(k + 1, written[k + 1])
               r == rem[k + 1]
    <3>2. c \in Seq(Cell) /\ r \in Seq(Cell) /\ rem[k] = c \o r
      <4>1. k + 1 \in DOMAIN written
        BY <1>1, <3>1
      <4> QED
        BY <1>4, <3>1, <4>1, WrittenFacts
    <3>3. more[k] = (c \o r) \o new /\ more[k + 1] = r \o new
      BY <1>7, <3>1, <3>2
    <3>4. written'[k + 1] = written[k + 1]
      BY <1>2, <3>1
    <3>5. (c \o r) \o new = c \o (r \o new)
      <4>1. c \in Seq(Cell) /\ r \in Seq(Cell) /\ new \in Seq(Cell)
        BY <1>3, <3>2
      <4> HIDE DEF c, r
      <4> QED
        BY ONLY <4>1, ConcatAssociative, SMTT(60)
    <3> QED
      BY <3>3, <3>4, <3>5
  <2> QED
    BY <2>1, <2>2
<1>9. Cell' = Cell
  BY StreamTypes
<1>10. Remains(more)'
  <2>1. Len(written') - 1 = n /\ Len(written') = n + 1
    BY <1>1, <1>2
  <2> QED
    BY <1>6, <1>8, <1>9, <2>1 DEF Remains
<1> QED
  BY <1>7, <1>10

LEMMA StreamStarts ==
  ASSUME StreamInv, NEW w \in Writers, StartWrite(w), ~overlapped'
  PROVE  Streaming'
<1>1. /\ open /\ reading /\ ~overlapped /\ ~Busy(w) /\ Len(written) < MaxFrames
      /\ open' = open /\ format' = format /\ readers' = readers
      /\ \A v \in Writers : ~Busy(v)
  BY DEF StartWrite
<1>2. TypeOK /\ Progress /\ FramesWhole
  BY <1>1 DEF StreamInv, Streaming
<1>3. PICK rem, rest : Streams(rem, rest)
  BY <1>1 DEF StreamInv, Streaming
<1>4. PICK frame \in Frames :
        /\ written' = Append(written, frame)
        /\ HandOver(w, Cells(Len(written) + 1, frame))
  BY DEF StartWrite
<1> DEFINE n == Len(written)
           d == Len(delivered)
           new == Cells(n + 1, frame)
<1>5. /\ n \in Nat /\ d \in Nat /\ d <= n /\ n + 1 \in 1 .. MaxFrames
      /\ written \in Seq(Frames)
  BY <1>1, <1>2, DeliveredFacts, FramingAssumption DEF TypeOK
<1>6. Whole(frame) /\ CellsOf(frame) = Cell
  BY <1>2, FramesFacts DEF TypeOK
<1>7. new \in Seq(Cell)
  BY <1>5, <1>6, FirstCell
<1>8. rest = <<>>
  BY <1>1, <1>3, EmptySeq DEF Streams, Awaited, Busy
<1>9. PICK more : Remains(more)' /\ \A k \in 0 .. n : more[k] = rem[k] \o new
  <2> HIDE DEF new
  <2> QED
    BY <1>1, <1>2, <1>3, <1>4, RemainsMore DEF Streams, new
<1> HIDE DEF new
<1>10. /\ wire' \in Seq(Cell) /\ unsent' \in [Writers -> Seq(Cell)]
       /\ \A v \in Writers \ {w} : unsent'[v] = unsent[v]
       /\ wire' \o unsent'[w] = wire \o new
  BY <1>2, <1>4, <1>7, HandOverFacts DEF new
<1>11. pack \in Seq(Cell) /\ wire \in Seq(Cell)
  BY <1>2 DEF TypeOK
<1>12. pack \o (wire' \o unsent'[w]) = more[d]
  <2>1. pack \o wire = rem[d]
    <3>1. wire \o <<>> = wire
      BY <1>11, ConcatEmptySeq
    <3> QED
      BY <1>3, <1>8, <3>1 DEF Streams
  <2>2. (pack \o wire) \o new = pack \o (wire \o new)
    BY ONLY <1>7, <1>11, ConcatAssociative
  <2>3. more[d] = rem[d] \o new
    BY <1>5, <1>9
  <2> QED
    BY <1>10, <2>1, <2>2, <2>3
<1>13. PICK left : left = unsent'[w]
  OBVIOUS
<1>14. delivered' = delivered /\ pack' = pack /\ field' = field /\ need' = need
       /\ Cell' = Cell
  BY <1>1, StreamTypes DEF readers
<1>15. Streams(more, left)'
  <2>1. Awaited(left)'
    BY <1>1, <1>10, <1>13 DEF Awaited, Busy
  <2>2. left \in Seq(Cell)' /\ pack' \o (wire' \o left) = more[Len(delivered')]
    BY <1>10, <1>12, <1>13, <1>14
  <2> QED
    BY <1>9, <2>1, <2>2 DEF Streams
<1>16. /\ Len(written') = n + 1 /\ written'[n + 1] = frame
       /\ \A k \in 1 .. n : written'[k] = written[k]
  <2> HIDE DEF Frames
  <2> QED
    BY <1>4, <1>5, AppendProperties
<1>17. Progress'
  <2>1. CASE d = n
    <3>1. field = 1 /\ need = format[1] /\ pack = <<>> /\ Len(pack) = 0 /\ need \in Nat
      BY <1>2, <2>1, EmptySeq DEF Progress, TypeOK
    <3>2. Begun(n + 1, frame)[1] = FieldCells(n + 1, frame, 1)
      BY <1>5, <1>6, BegunFacts
    <3>3. /\ 1 \in DOMAIN frame /\ frame[1] = format[1]
      BY <1>2, FramesFacts, FormatFacts DEF TypeOK
    <3>4. Len(FieldCells(n + 1, frame, 1)) = format[1]
      BY <1>5, <1>6, <3>3, FieldFacts
    <3> QED
      BY <1>5, <1>14, <1>16, <2>1, <3>1, <3>2, <3>4 DEF Progress, Current
  <2>2. CASE d # n
    <3>1. d < n /\ Current = d + 1 /\ d + 1 \in 1 .. n /\ d # n + 1
      BY <1>5, <2>2 DEF Current
    <3>2. Len(pack) + need = Len(Begun(d + 1, written[d + 1])[field])
      BY <1>2, <3>1 DEF Progress
    <3>3. Current' = d + 1 /\ written'[d + 1] = written[d + 1]
      BY <1>14, <1>16, <3>1 DEF Current
    <3>4. Len(delivered') # Len(written') /\ Len(pack') + need' = Len(pack) + need
      BY <1>14, <1>16, <3>1
    <3> QED
      BY <1>14, <3>2, <3>3, <3>4 DEF Progress
  <2> QED
    BY <2>1, <2>2
<1> QED
  BY <1>15, <1>17 DEF Streaming

LEMMA StreamGoesOn ==
  ASSUME StreamInv, NEW w \in Writers, GoOnWriting(w), ~overlapped
  PROVE  Streaming'
<1>1. /\ open /\ reading /\ Busy(w) /\ HandOver(w, unsent[w])
      /\ open' = open /\ format' = format /\ written' = written /\ readers' = readers
  BY DEF GoOnWriting
<1>2. TypeOK /\ Progress
  BY <1>1 DEF StreamInv, Streaming
<1>3. PICK rem, rest : Streams(rem, rest)
  BY <1>1 DEF StreamInv, Streaming
<1>4. rest = unsent[w] /\ \A v \in Writers \ {w} : ~Busy(v)
  BY <1>1, <1>3 DEF Streams, Awaited
<1>5. /\ wire' \in Seq(Cell) /\ unsent' \in [Writers -> Seq(Cell)]
      /\ \A v \in Writers \ {w} : unsent'[v] = unsent[v]
      /\ wire' \o unsent'[w] = wire \o unsent[w]
  BY <1>1, <1>2, HandOverFacts DEF TypeOK
<1>6. PICK left : left = unsent'[w]
  OBVIOUS
<1>7. delivered' = delivered /\ pack' = pack /\ field' = field /\ need' = need
      /\ Cell' = Cell
  BY <1>1, StreamTypes DEF readers
<1>8. Remains(rem)'
  BY <1>1, <1>3, <1>7 DEF Streams, Remains
<1>9. Awaited(left)'
  BY <1>1, <1>4, <1>5, <1>6 DEF Awaited, Busy
<1>10. left \in Seq(Cell)' /\ pack' \o (wire' \o left) = rem[Len(delivered')]
  BY <1>3, <1>4, <1>5, <1>6, <1>7 DEF Streams
<1>11. Streams(rem, left)'
  BY <1>8, <1>9, <1>10 DEF Streams
<1>12. Progress'
  BY <1>1, <1>2, <1>7 DEF Progress, Current
<1> QED
  BY <1>11, <1>12 DEF Streaming

\* What remains depends on the frames that were written alone.
LEMMA RemainsKept ==
  ASSUME NEW rem, NEW rest, Streams(rem, rest), format' = format, written' = written,
         unsent' = unsent, open' = open
  PROVE  Remains(rem)' /\ Awaited(rest)' /\ rest \in Seq(Cell)'
<1>1. Cell' = Cell
  BY StreamTypes
<1> QED
  BY <1>1 DEF Streams, Remains, Awaited, Busy

LEMMA StreamPart ==
  ASSUME StreamInv, ReadPart, ~overlapped
  PROVE  Streaming'
<1>1. /\ reading /\ ~(need <= Len(wire)) /\ wire # <<>>
      /\ pack' = pack \o wire /\ need' = need - Len(wire) /\ wire' = <<>>
      /\ format' = format /\ written' = written /\ unsent' = unsent /\ open' = open
      /\ field' = field /\ delivered' = delivered
  BY DEF ReadPart, Enough, writing
<1>2. TypeOK /\ Progress /\ FramesWhole
  BY <1>1 DEF StreamInv, Streaming
<1>3. PICK rem, rest : Streams(rem, rest)
  BY <1>1 DEF StreamInv, Streaming
<1>4. Remains(rem)' /\ Awaited(rest)' /\ rest \in Seq(Cell)'
  BY <1>1, <1>3, RemainsKept
<1>5. pack \in Seq(Cell) /\ wire \in Seq(Cell) /\ rest \in Seq(Cell)
  BY <1>2, <1>3 DEF TypeOK, Streams
<1>6. (pack \o wire) \o rest = pack \o (wire \o rest)
  BY ONLY <1>5, ConcatAssociative
<1>7. <<>> \o rest = rest
  BY <1>5, ConcatEmptySeq
<1>8. pack' \o (wire' \o rest) = rem[Len(delivered')]
  BY <1>1, <1>3, <1>6, <1>7 DEF Streams
<1>9. Streams(rem, rest)'
  BY <1>4, <1>8 DEF Streams
<1>10. Len(delivered) # Len(written)
  <2>1. ASSUME Len(delivered) = Len(written)
        PROVE  FALSE
    <3>1. pack \o (wire \o rest) = <<>>
      BY <1>3, <2>1 DEF Streams, Remains
    <3>2. wire \o rest \in Seq(Cell)
      BY <1>5, ConcatProperties
    <3>3. wire \o rest = <<>>
      <4> DEFINE x == wire \o rest
      <4>1. x \in Seq(Cell) /\ pack \in Seq(Cell) /\ pack \o x = <<>>
        BY <1>5, <3>1, <3>2
      <4> HIDE DEF x
      <4>2. x = <<>>
        BY ONLY <4>1, ConcatEqualIffEmpty
      <4> QED
        BY <4>2 DEF x
    <3>4. wire = <<>>
      BY ONLY <1>5, <3>3, ConcatEqualIffEmpty
    <3> QED
      BY <1>1, <3>4
  <2> QED
    BY <2>1
<1>11. Len(pack') + need' = Len(pack) + need
  <2>1. Len(pack') = Len(pack) + Len(wire)
    BY <1>1, <1>5, ConcatProperties
  <2>2. Len(pack) \in Nat /\ Len(wire) \in Nat /\ need \in Nat
    BY <1>2, <1>5, LenProperties DEF TypeOK
  <2> QED
    BY <1>1, <2>1, <2>2
<1>12. Progress'
  BY <1>1, <1>2, <1>10, <1>11 DEF Progress, Current
<1> QED
  BY <1>9, <1>12 DEF Streaming

LEMMA StreamField ==
  ASSUME StreamInv, ReadField, ~overlapped
  PROVE  Streaming'
<1>1. /\ reading /\ Enough /\ field < Len(format) /\ field' = field + 1
      /\ need' \in IF format[field + 1] # Sized THEN {format[field + 1]}
                   ELSE Said(field, LastCells(format[field]))
      /\ pack' = Gained /\ wire' = SubSeq(wire, Len(Got) + 1, Len(wire))
      /\ format' = format /\ written' = written /\ unsent' = unsent /\ open' = open
      /\ delivered' = delivered
  BY DEF ReadField, writing
<1>2. TypeOK /\ Progress /\ FramesWhole
  BY <1>1 DEF StreamInv, Streaming
<1>3. PICK rem, rest : Streams(rem, rest)
  BY <1>1 DEF StreamInv, Streaming
<1> DEFINE d == Len(delivered)
           c == Current
           frame == written[c]
<1>4. /\ d < Len(written) /\ Gained = Begun(c, frame)[field] /\ Gained \in Seq(Cell)
      /\ Gained \o (wire' \o rest) = rem[d]
  BY <1>1, <1>2, <1>3, CompleteField
<1>5. /\ d \in Nat /\ Len(written) \in Nat /\ c \in DOMAIN written
  BY <1>2, <1>4, DeliveredFacts
<1>6. field \in DOMAIN format /\ field + 1 \in DOMAIN format /\ field + 1 \in 2 .. Len(format)
      /\ (field + 1) - 1 = field
  <2>1. field \in 1 .. Len(format) /\ Len(format) \in Nat /\ DOMAIN format = 1 .. Len(format)
    BY <1>2, FormatFacts DEF TypeOK
  <2> QED
    BY <1>1, <2>1
<1>7. need' = frame[field + 1]
  <2>1. CASE format[field + 1] = Sized
    <3>1. Said(field, LastCells(format[field])) = {frame[field + 1]}
      BY <1>2, <1>4, <1>5, <1>6, <2>1, SaidRight
    <3> QED
      BY <1>1, <2>1, <3>1
  <2>2. CASE format[field + 1] # Sized
    <3>1. frame \in Frames
      BY <1>2, <1>5, WrittenFacts
    <3>2. frame[field + 1] = format[field + 1]
      BY <1>2, <1>6, <2>2, <3>1, FramesFacts DEF TypeOK
    <3> QED
      BY <1>1, <2>2, <3>2
  <2> QED
    BY <2>1, <2>2
<1>8. Len(Begun(c, frame)[field + 1]) = Len(Gained) + need'
  <2> DEFINE next == FieldCells(c, frame, field + 1)
  <2>1. /\ c \in 1 .. MaxFrames /\ Whole(frame) /\ Len(frame) = Len(format)
        /\ next \in Seq(Cell) /\ Len(next) = frame[field + 1]
    BY <1>2, <1>5, <1>6, WrittenFacts, WrittenBegun
  <2>2. Begun(c, frame)[field + 1] = Begun(c, frame)[(field + 1) - 1] \o next
    <3> HIDE DEF c, frame
    <3>1. \A f \in 2 .. Len(frame) :
            Begun(c, frame)[f] = Begun(c, frame)[f - 1] \o FieldCells(c, frame, f)
      BY <2>1, BegunFacts
    <3> QED
      BY <1>6, <2>1, <3>1
  <2>3. Begun(c, frame)[field + 1] = Gained \o next
    BY <1>4, <1>6, <2>2
  <2> DEFINE G == Gained
  <2>4. G \in Seq(Cell) /\ next \in Seq(Cell)
    BY <1>4, <2>1
  <2>5. Len(G \o next) = Len(G) + Len(next)
    <3> HIDE DEF G, next
    <3> QED
      BY ONLY <2>4, ConcatProperties
  <2> QED
    BY <1>7, <2>1, <2>3, <2>5
<1>9. Progress'
  <2>1. Current' = c /\ written'[c] = frame /\ Len(delivered') # Len(written')
    BY <1>1, <1>4, <1>5 DEF Current
  <2> QED
    BY <1>1, <1>8, <2>1 DEF Progress
<1>10. Remains(rem)' /\ Awaited(rest)' /\ rest \in Seq(Cell)'
  BY <1>1, <1>3, RemainsKept
<1>11. Streams(rem, rest)'
  BY <1>1, <1>4, <1>10 DEF Streams
<1> QED
  BY <1>9, <1>11 DEF Streaming

LEMMA StreamDelivers ==
  ASSUME StreamInv, Deliver, ~overlapped
  PROVE  /\ Streaming'
         /\ delivered' = Append(delivered, Current) /\ Len(delivered) < Len(written)
<1>1. /\ reading /\ Enough /\ field = Len(format) /\ field' = 1
      /\ need' = format[1] /\ pack' = <<>>
      /\ wire' = SubSeq(wire, Len(Got) + 1, Len(wire))
      /\ delivered' = Append(delivered, Numbered(Gained))
      /\ format' = format /\ written' = written /\ unsent' = unsent /\ open' = open
  BY DEF Deliver, writing
<1>2. TypeOK /\ Progress /\ FramesWhole
  BY <1>1 DEF StreamInv, Streaming
<1>3. PICK rem, rest : Streams(rem, rest)
  BY <1>1 DEF StreamInv, Streaming
<1> DEFINE d == Len(delivered)
           c == Current
           frame == written[c]
<1>4. /\ d < Len(written) /\ Gained = Begun(c, frame)[field] /\ Gained \in Seq(Cell)
      /\ wire' \o rest \in Seq(Cell) /\ Gained \o (wire' \o rest) = rem[d]
  BY <1>1, <1>2, <1>3, CompleteField
<1>5. /\ d \in Nat /\ Len(written) \in Nat /\ c \in DOMAIN written /\ c = d + 1
  BY <1>2, <1>4, DeliveredFacts DEF Current
<1>6. Gained = Cells(c, frame)
  BY <1>1, <1>2, <1>4, <1>5, WrittenBegun
<1>7. Numbered(Gained) = c
  BY <1>2, <1>5, <1>6, NumberedRight
<1>8. delivered' = Append(delivered, c) /\ Len(delivered') = d + 1
  <2>1. delivered \in Seq(0 .. MaxFrames) /\ c \in 0 .. MaxFrames
    BY <1>2, <1>5, WrittenFacts DEF TypeOK
  <2> HIDE DEF c
  <2> QED
    BY <1>1, <1>7, <2>1, AppendProperties
<1>9. wire' \o rest = rem[c]
  <2>1. rem[d] = Cells(c, frame) \o rem[c] /\ rem[c] \in Seq(Cell)
    <3>1. d \in 0 .. Len(written) - 1 /\ c \in 0 .. Len(written)
      BY <1>4, <1>5
    <3> QED
      BY <1>3, <1>5, <3>1 DEF Streams, Remains
  <2> DEFINE G == Gained
             lr == wire' \o rest
             r == rem[c]
  <2>2. /\ G \in Seq(Cell) /\ lr \in Seq(Cell) /\ r \in Seq(Cell) /\ G \o lr = G \o r
    BY <1>4, <1>6, <2>1
  <2> HIDE DEF G, lr, r
  <2>3. lr = r
    BY ONLY <2>2, SameCut
  <2> QED
    BY <2>3 DEF lr, r
<1>10. Remains(rem)' /\ Awaited(rest)' /\ rest \in Seq(Cell)'
  BY <1>1, <1>3, RemainsKept
<1>11. <<>> \o (wire' \o rest) = wire' \o rest
  <2> DEFINE lr == wire' \o rest
  <2>1. lr \in Seq(Cell)
    BY <1>4
  <2> HIDE DEF lr
  <2>2. <<>> \o lr = lr
    BY ONLY <2>1, ConcatEmptySeq
  <2> QED
    BY <2>2 DEF lr
<1>12. Streams(rem, rest)'
  BY <1>1, <1>5, <1>8, <1>9, <1>10, <1>11 DEF Streams
<1>13. Progress'
  <2>1. CASE d + 1 = Len(written)
    BY <1>1, <1>5, <1>8, <2>1 DEF Progress
  <2>2. CASE d + 1 # Len(written)
    <3>1. d + 2 \in DOMAIN written /\ Current' = d + 2
      BY <1>4, <1>5, <1>8, <2>2 DEF Current
    <3>2. Len(Begun(d + 2, written[d + 2])[1]) = format[1]
      BY <1>2, <3>1, WrittenBegun
    <3>3. Len(pack') + need' = format[1]
      <4>1. format[1] \in Nat
        BY <1>2, FormatFacts DEF TypeOK
      <4> QED
        BY <1>1, <4>1, EmptySeq
    <3> QED
      BY <1>1, <1>8, <2>2, <3>1, <3>2, <3>3 DEF Progress
  <2> QED
    BY <2>1, <2>2
<1> QED
  BY <1>4, <1>8, <1>12, <1>13 DEF Streaming

LEMMA StreamStep ==
  ASSUME StreamInv, [Next]_vars
  PROVE  StreamInv'
<1>1. TypeOK /\ TypeOK'
  BY TypesStep DEF StreamInv
<1>2. overlapped => overlapped'
  BY DEF Next, Read, ReadField, Deliver, ReadPart, ReadEnd, ReaderEnds, WriterEnds,
         Stops, StartWrite, GoOnWriting, vars, writing
<1>3. CASE overlapped'
  BY <1>1, <1>3 DEF StreamInv, FramesWhole
<1> SUFFICES ASSUME ~overlapped', ~overlapped, FramesWhole
             PROVE  StreamInv'
  BY <1>2, <1>3 DEF StreamInv
<1>4. ASSUME NEW w \in Writers, StartWrite(w)
      PROVE  StreamInv'
  <2>1. Streaming'
    BY <1>4, StreamStarts
  <2>2. delivered' = delivered
    BY <1>4 DEF StartWrite, readers
  <2>3. Len(written') = Len(written) + 1
    <3>1. PICK frame \in Frames : written' = Append(written, frame)
      BY <1>4 DEF StartWrite
    <3>2. written \in Seq(Frames)
      BY <1>1 DEF TypeOK
    <3> HIDE DEF Frames
    <3> QED
      BY <3>1, <3>2, AppendProperties
  <2>4. Len(delivered) <= Len(written) + 1
    BY <1>1, DeliveredFacts
  <2>5. FramesWhole'
    BY <2>2, <2>3, <2>4 DEF FramesWhole
  <2> QED
    BY <1>1, <2>1, <2>5 DEF StreamInv
<1>5. ASSUME NEW w \in Writers, GoOnWriting(w)
      PROVE  StreamInv'
  <2>1. Streaming'
    BY <1>5, StreamGoesOn
  <2>2. FramesWhole'
    BY <1>5 DEF GoOnWriting, FramesWhole, readers
  <2> QED
    BY <1>1, <2>1, <2>2 DEF StreamInv
<1>6. CASE ReadField
  <2>1. FramesWhole'
    BY <1>6 DEF ReadField, FramesWhole, writing
  <2> QED
    BY <1>1, <1>6, <2>1, StreamField DEF StreamInv
<1>7. CASE Deliver
  <2>1. /\ Streaming' /\ delivered' = Append(delivered, Current)
        /\ Len(delivered) < Len(written) /\ written' = written
    BY <1>7, StreamDelivers DEF Deliver, writing
  <2>2. /\ Current = Len(delivered) + 1 /\ Len(delivered) \in Nat /\ Len(written) \in Nat
        /\ \A i \in DOMAIN delivered : delivered[i] = i
        /\ delivered \in Seq(0 .. MaxFrames) /\ Current \in 0 .. MaxFrames
    <3>1. Current \in DOMAIN written
      BY <1>1, <2>1, DeliveredFacts
    <3> QED
      BY <1>1, <3>1, DeliveredFacts, WrittenFacts DEF TypeOK, Current
  <2>3. /\ Len(delivered') = Len(delivered) + 1
        /\ \A i \in DOMAIN delivered' : delivered'[i] = i
    <3>1. /\ Len(Append(delivered, Current)) = Len(delivered) + 1
          /\ \A i \in 1 .. Len(delivered) : Append(delivered, Current)[i] = delivered[i]
          /\ Append(delivered, Current)[Len(delivered) + 1] = Current
          /\ DOMAIN Append(delivered, Current) = 1 .. Len(delivered) + 1
      <4> DEFINE c == Current
      <4>1. c \in 0 .. MaxFrames /\ delivered \in Seq(0 .. MaxFrames)
        BY <2>2
      <4> HIDE DEF c
      <4>2. /\ Append(delivered, c) \in Seq(0 .. MaxFrames)
            /\ Len(Append(delivered, c)) = Len(delivered) + 1
            /\ \A i \in 1 .. Len(delivered) : Append(delivered, c)[i] = delivered[i]
            /\ Append(delivered, c)[Len(delivered) + 1] = c
        BY <4>1, AppendProperties
      <4> QED
        BY <4>2, LenProperties DEF c
    <3>2. ASSUME NEW i \in 1 .. Len(delivered) + 1
          PROVE  Append(delivered, Current)[i] = i
      <4>1. CASE i \in 1 .. Len(delivered)
        BY <2>2, <3>1, <4>1
      <4>2. CASE i \notin 1 .. Len(delivered)
        <5>1. i = Len(delivered) + 1
          BY <2>2, <4>2
        <5> QED
          BY <2>2, <3>1, <5>1
      <4> QED
        BY <4>1, <4>2
    <3> QED
      BY <2>1, <3>1, <3>2
  <2>4. FramesWhole'
    BY <2>1, <2>2, <2>3 DEF FramesWhole
  <2> QED
    BY <1>1, <2>1, <2>4 DEF StreamInv
<1>8. CASE ReadPart
  <2>1. FramesWhole'
    BY <1>8 DEF ReadPart, FramesWhole, writing
  <2> QED
    BY <1>1, <1>8, <2>1, StreamPart DEF StreamInv
<1>9. CASE ReadEnd \/ ReaderEnds
  <2>1. reading' = FALSE /\ FramesWhole'
    BY <1>9 DEF ReadEnd, ReaderEnds, Stops, FramesWhole
  <2> QED
    BY <1>1, <2>1 DEF StreamInv
<1>10. CASE WriterEnds
  <2>1. /\ open' = FALSE /\ format' = format /\ written' = written /\ wire' = wire
        /\ readers' = readers /\ reading' = reading /\ field' = field /\ need' = need
        /\ pack' = pack /\ delivered' = delivered
    BY <1>10 DEF WriterEnds, readers
  <2>2. FramesWhole'
    BY <2>1 DEF FramesWhole
  <2>3. ASSUME reading
        PROVE  Streaming'
    <3>1. PICK rem, rest : Streams(rem, rest)
      BY <2>3 DEF StreamInv, Streaming
    <3>2. Cell' = Cell
      BY <2>1, StreamTypes
    <3>3. Streams(rem, rest)'
      BY <2>1, <3>1, <3>2 DEF Streams, Remains, Awaited
    <3>4. Progress'
      BY <2>1, <2>3 DEF StreamInv, Streaming, Progress, Current
    <3> QED
      BY <3>3, <3>4 DEF Streaming
  <2> QED
    BY <1>1, <2>1, <2>2, <2>3 DEF StreamInv
<1>11. CASE UNCHANGED vars
  <2>1. /\ format' = format /\ written' = written /\ unsent' = unsent /\ open' = open
        /\ overlapped' = overlapped /\ wire' = wire /\ reading' = reading
        /\ field' = field /\ need' = need /\ pack' = pack /\ delivered' = delivered
    BY <1>11 DEF vars, writing, readers
  <2>2. FramesWhole'
    BY <2>1 DEF FramesWhole
  <2>3. ASSUME reading
        PROVE  Streaming'
    <3>1. PICK rem, rest : Streams(rem, rest)
      BY <2>3 DEF StreamInv, Streaming
    <3>2. Remains(rem)' /\ Awaited(rest)' /\ rest \in Seq(Cell)'
      BY <2>1, <3>1, RemainsKept
    <3>3. Streams(rem, rest)'
      BY <2>1, <3>1, <3>2 DEF Streams
    <3>4. Progress'
      BY <2>1, <2>3 DEF StreamInv, Streaming, Progress, Current
    <3> QED
      BY <3>3, <3>4 DEF Streaming
  <2> QED
    BY <1>1, <2>1, <2>2, <2>3 DEF StreamInv
<1> QED
  BY <1>4, <1>5, <1>6, <1>7, <1>8, <1>9, <1>10, <1>11 DEF Next, Read

\* However writes and reads are cut and whichever end dies, what the reader
\* hands on are the frames that were written, whole and in order, as long as
\* no two writes overlap.
THEOREM FramesArriveWhole == Spec => []FramesWhole
<1>1. StreamInv => FramesWhole
  BY DEF StreamInv
<1> QED
  BY StreamInit, StreamStep, <1>1, PTL DEF Spec

-----------------------------------------------------------------------------
(* The channel: every step of Framing is one that FrameChannel allows, or  *)
(* changes nothing there.                                                  *)

Numbers == [i \in DOMAIN written |-> i]
Health  == IF overlapped THEN "broken" ELSE IF open /\ reading THEN "open" ELSE "ended"

LEMMA ChannelInit ==
  ASSUME Init
  PROVE  Channel!Init
<1>1. written = <<>> /\ delivered = <<>> /\ Health = "open"
  BY DEF Init, Health
<1>2. [i \in DOMAIN <<>> |-> i] = <<>>
  OBVIOUS
<1> QED
  BY <1>1, <1>2 DEF Channel!Init, Health

LEMMA ChannelQuiet ==
  ASSUME written' = written, delivered' = delivered, overlapped' = overlapped,
         \/ open' = open /\ reading' = reading
         \/ Health = "open" /\ Health' = "ended"
         \/ Health' = Health
  PROVE  [Channel!Next]_(Channel!vars)
<1>1. Numbers' = Numbers
  BY DEF Numbers
<1>2. Health' = Health \/ (Health = "open" /\ Health' = "ended")
  BY DEF Health
<1> QED
  BY <1>1, <1>2 DEF Numbers, Health, Channel!Next, Channel!End, Channel!vars

LEMMA ChannelStep ==
  ASSUME StreamInv, StreamInv', [Next]_vars
  PROVE  [Channel!Next]_(Channel!vars)
<1>1. TypeOK
  BY DEF StreamInv
<1>2. ASSUME NEW w \in Writers, StartWrite(w)
      PROVE  [Channel!Next]_(Channel!vars)
  <2>1. PICK frame \in Frames : written' = Append(written, frame)
    BY <1>2 DEF StartWrite
  <2>2. /\ written \in Seq(Frames) /\ Len(written) \in Nat
        /\ Len(written) + 1 \in 0 .. MaxFrames
    BY <1>1, <1>2, LenProperties, FramingAssumption DEF TypeOK, StartWrite
  <2>3. DOMAIN written' = 1 .. Len(written) + 1 /\ DOMAIN written = 1 .. Len(written)
    <3> HIDE DEF Frames
    <3> QED
      BY <2>1, <2>2, AppendProperties, LenProperties
  <2>4. Numbers' = Append(Numbers, Len(written) + 1)
    <3>1. /\ Numbers' = [i \in 1 .. Len(written) + 1 |-> i]
          /\ Numbers = [i \in 1 .. Len(written) |-> i]
      BY <2>3 DEF Numbers
    <3> QED
      BY <2>2, <3>1
  <2>5. Health = "open" /\ Health' \in {"open", "broken"} /\ delivered' = delivered
    BY <1>2 DEF StartWrite, Health, readers
  <2>6. \E n \in 0 .. MaxFrames : Numbers' = Append(Numbers, n)
    BY <2>2, <2>4
  <2> QED
    BY <2>5, <2>6 DEF Numbers, Health, Channel!Next, Channel!Send, Channel!vars
<1>3. CASE Deliver /\ ~overlapped
  <2>1. /\ delivered' = Append(delivered, Current) /\ Len(delivered) < Len(written)
        /\ written' = written /\ open' = open /\ reading' = reading
        /\ overlapped' = overlapped
    BY <1>3, StreamDelivers DEF Deliver, writing
  <2>2. FramesWhole
    BY DEF StreamInv
  <2>3. Current \in DOMAIN written /\ Current = Len(delivered) + 1
    BY <1>1, <1>3, <2>1, <2>2, DeliveredFacts DEF Current
  <2>4. /\ Numbers[Len(delivered) + 1] = Current
        /\ Len(Numbers) = Len(written)
    <3>1. DOMAIN written = 1 .. Len(written) /\ Len(written) \in Nat
      BY <1>1, LenProperties DEF TypeOK
    <3> QED
      BY <2>3, <3>1 DEF Numbers
  <2>5. Health \in {"open", "ended"} /\ Health' = Health /\ Numbers' = Numbers
    BY <1>3, <2>1 DEF Health, Numbers
  <2>6. delivered' = Append(delivered, Numbers[Len(delivered) + 1])
    BY <2>1, <2>4
  <2> QED
    BY <2>1, <2>4, <2>5, <2>6
       DEF Numbers, Health, Channel!Next, Channel!Receive, Channel!vars
<1>4. CASE Deliver /\ overlapped
  <2>1. /\ delivered' = Append(delivered, Numbered(Gained))
        /\ written' = written /\ open' = open /\ reading' = reading
        /\ overlapped' = overlapped
    BY <1>4 DEF Deliver, writing
  <2>2. Numbered(Gained) \in 0 .. MaxFrames
    BY <1>1, NumberedFacts
  <2>3. delivered' \in {Append(delivered, n) : n \in 0 .. MaxFrames}
    BY <2>1, <2>2
  <2>4. Health = "broken" /\ Health' = Health /\ Numbers' = Numbers
    BY <1>4, <2>1 DEF Health, Numbers
  <2> QED
    BY <2>3, <2>4 DEF Numbers, Health, Channel!Next, Channel!Misread, Channel!vars
<1>5. CASE ReadField \/ ReadPart
  BY <1>5, ChannelQuiet DEF ReadField, ReadPart, writing
<1>6. ASSUME NEW w \in Writers, GoOnWriting(w)
      PROVE  [Channel!Next]_(Channel!vars)
  BY <1>6, ChannelQuiet DEF GoOnWriting, readers
<1>7. CASE ReadEnd
  BY <1>7, ChannelQuiet DEF ReadEnd, Stops, Health
<1>8. CASE ReaderEnds
  BY <1>8, ChannelQuiet DEF ReaderEnds, Stops, Health
<1>9. CASE WriterEnds
  BY <1>9, ChannelQuiet DEF WriterEnds, readers, Health
<1>10. CASE UNCHANGED vars
  BY <1>10, ChannelQuiet DEF vars, writing, readers
<1> QED
  BY <1>2, <1>3, <1>4, <1>5, <1>6, <1>7, <1>8, <1>9, <1>10 DEF Next, Read

\* A connection is a channel of frames: this is all of ImplementsChannel but
\* its promise that frames arrive in the end.
THEOREM FramingIsChannel == Spec => Channel!Init /\ [][Channel!Next]_(Channel!vars)
  BY StreamInit, StreamStep, ChannelInit, ChannelStep, PTL DEF Spec

=============================================================================
