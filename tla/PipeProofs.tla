----------------------------- MODULE PipeProofs -----------------------------
(***************************************************************************)
(* Theorems about Pipe: what write has taken is, once and in order, with   *)
(* the receiver, in its buffer, in the pipe or in the ring, as long as no  *)
(* write was refused because the ring was full and no read has filled the  *)
(* buffer.                                                                 *)
(***************************************************************************)
EXTENDS Pipe, WellFoundedInduction, NaturalsInduction, SequenceTheorems, TLAPS

\* A set of natural numbers that is not empty has a least element.
LEMMA LeastNat ==
  ASSUME NEW S \in SUBSET Nat, S # {}
  PROVE  \E x \in S : \A y \in S : x <= y
<1> DEFINE Less == {ss \in Nat \X Nat : ss[1] < ss[2]}
<1>1. IsWellFoundedOn(Less, Nat)
  BY NatLessThanWellFounded DEF OpToRel
<1> HIDE DEF Less
<1>2. PICK x \in S : \A y \in S : ~(<<y, x>> \in Less)
  BY <1>1, WFMin
<1>3. ASSUME NEW y \in S PROVE x <= y
  <2>1. x \in Nat /\ y \in Nat /\ ~(<<y, x>> \in Less)
    BY <1>2
  <2>2. ~(y < x)
    BY <2>1 DEF Less
  <2> QED BY <2>1, <2>2
<1> QED BY <1>3

\* A bounded set of natural numbers that is not empty has a greatest element.
LEMMA MaxFacts ==
  ASSUME NEW n \in Nat, NEW S \in SUBSET (0 .. n), S # {}
  PROVE  Max(S) \in S /\ \A x \in S : Max(S) >= x
<1> DEFINE below == {n - x : x \in S}
<1>1. below \in SUBSET Nat /\ below # {}
  <2>1. \A x \in S : n - x \in Nat
    OBVIOUS
  <2> QED BY <2>1
<1> HIDE DEF below
<1>2. PICK d \in below : \A e \in below : d <= e
  BY <1>1, LeastNat
<1>3. PICK x \in S : d = n - x
  BY <1>2 DEF below
<1>4. ASSUME NEW y \in S PROVE x >= y
  <2>1. d <= n - y
    BY <1>2 DEF below
  <2>2. x \in Nat /\ y \in Nat
    OBVIOUS
  <2> QED BY <1>3, <2>1, <2>2
<1> QED BY <1>4 DEF Max

\* The size of one packet on the pipe.
Size(p) == Header + Length[p]

\* The bytes of the first k packets, as Bytes counts them.
Counts(f, s) ==
    /\ f \in [0 .. Len(s) -> Nat] /\ f[0] = 0
    /\ \A k \in 1 .. Len(s) : f[k] = f[k - 1] + Size(s[k])

\* Bytes counts the packets of a sequence one by one.
LEMMA BytesFacts ==
  ASSUME NEW s \in Seq(Packets)
  PROVE  \E f : Counts(f, s) /\ Bytes(s) = f[Len(s)]
<1>a. \A p \in Packets : Size(p) \in Nat /\ Size(p) > 0
  BY PipeAssumption DEF Size
<1>l. Len(s) \in Nat /\ \A k \in 1 .. Len(s) : s[k] \in Packets
  OBVIOUS
<1> DEFINE Upto(f, n) == /\ f \in [0 .. n -> Nat] /\ f[0] = 0
                         /\ \A k \in 1 .. n : f[k] = f[k - 1] + Size(s[k])
           Bad == {n \in 0 .. Len(s) : ~\E f : Upto(f, n)}
<1>1. Bad = {}
  <2>1. SUFFICES ASSUME Bad # {} PROVE FALSE
    OBVIOUS
  <2>2. PICK n \in Bad : \A m \in Bad : n <= m
    <3>1. Bad \in SUBSET Nat
      BY <1>l
    <3> HIDE DEF Bad
    <3> QED BY <2>1, <3>1, LeastNat
  <2>3. CASE n = 0
    <3>1. Upto([k \in 0 .. 0 |-> 0], 0)
      OBVIOUS
    <3> QED BY <2>2, <2>3, <3>1
  <2>4. CASE n # 0
    <3>1. n - 1 \in 0 .. Len(s) /\ n \in 1 .. Len(s) /\ n - 1 \notin Bad
      <4>1. n \in 0 .. Len(s)
        BY <2>2
      <4>2. n - 1 \in 0 .. Len(s) /\ n \in 1 .. Len(s) /\ ~(n <= n - 1)
        BY <4>1, <2>4, <1>l
      <4> HIDE DEF Bad
      <4> QED BY <4>2, <2>2
    <3>2. PICK f : Upto(f, n - 1)
      BY <3>1
    <3> DEFINE g == [k \in 0 .. n |-> IF k = n THEN f[n - 1] + Size(s[n]) ELSE f[k]]
    <3>3. f[n - 1] \in Nat /\ Size(s[n]) \in Nat
      BY <3>1, <3>2, <1>l, <1>a
    <3>4. Upto(g, n)
      BY SMTT(30), <3>1, <3>2, <3>3, <1>l
    <3> QED BY <2>2, <3>4
  <2> QED BY <2>3, <2>4
<1>2. PICK g : Upto(g, Len(s))
  <2>1. Len(s) \notin Bad /\ Len(s) \in 0 .. Len(s)
    BY <1>1, <1>l
  <2> QED BY <2>1
<1> DEFINE Step(f) == [k \in 0 .. Len(s) |->
                          IF k = 0 THEN 0 ELSE f[k - 1] + Header + Length[s[k]]]
           upTo == CHOOSE f : f = Step(f)
<1>3. g = Step(g)
  <2>1. \A k \in 1 .. Len(s) : g[k] = g[k - 1] + Header + Length[s[k]]
    <3>1. ASSUME NEW k \in 1 .. Len(s) PROVE g[k] = g[k - 1] + Header + Length[s[k]]
      <4>1. g[k] = g[k - 1] + Size(s[k]) /\ g[k - 1] \in Nat
        BY <1>2, <1>l
      <4>2. s[k] \in Packets /\ Length[s[k]] \in Nat /\ Header \in Nat
        BY <1>l, PipeAssumption
      <4> QED BY <4>1, <4>2 DEF Size
    <3> QED BY <3>1
  <2> QED BY <1>2, <2>1
<1>4. upTo = Step(upTo)
  <2> HIDE DEF Step
  <2> QED BY <1>3
<1>5. Bytes(s) = upTo[Len(s)]
  BY DEF Bytes
<1>6. upTo[0] = 0 /\ \A k \in 1 .. Len(s) : upTo[k] = upTo[k - 1] + Header + Length[s[k]]
  <2> HIDE DEF upTo
  <2>1. 0 \in 0 .. Len(s) /\ \A k \in 1 .. Len(s) : k \in 0 .. Len(s) /\ k # 0
    BY <1>l
  <2> QED BY <1>4, <2>1
<1> DEFINE Off == {k \in 0 .. Len(s) : upTo[k] # g[k]}
<1>7. Off = {}
  <2> HIDE DEF upTo
  <2>1. SUFFICES ASSUME Off # {} PROVE FALSE
    OBVIOUS
  <2>2. PICK k \in Off : \A m \in Off : k <= m
    <3>1. Off \in SUBSET Nat
      BY <1>l
    <3> HIDE DEF Off
    <3> QED BY <2>1, <3>1, LeastNat
  <2>3. k \in 0 .. Len(s) /\ upTo[k] # g[k]
    BY <2>2
  <2>4. k # 0
    BY <1>2, <1>6, <2>3
  <2>5. k \in 1 .. Len(s) /\ k - 1 \in 0 .. Len(s) /\ ~(k <= k - 1)
    BY <2>3, <2>4, <1>l
  <2>6. upTo[k - 1] = g[k - 1]
    BY <2>2, <2>5
  <2>7. g[k] = g[k - 1] + Header + Length[s[k]]
    <3> HIDE DEF upTo
    <3>1. g[k] = Step(g)[k]
      BY <1>3
    <3> QED BY <3>1, <2>5, <2>4
  <2> QED BY <1>6, <2>3, <2>5, <2>6, <2>7
<1>8. upTo[Len(s)] = g[Len(s)]
  <2>1. Len(s) \in 0 .. Len(s) /\ Len(s) \notin Off
    BY <1>7, <1>l
  <2> HIDE DEF upTo
  <2> QED BY <2>1
<1> HIDE DEF upTo
<1> QED BY <1>2, <1>5, <1>8 DEF Counts

\* A packet alone takes its size.
LEMMA BytesOfOne ==
  ASSUME NEW p \in Packets
  PROVE  Bytes(<<p>>) = Size(p)
<1>1. <<p>> \in Seq(Packets) /\ Len(<<p>>) = 1 /\ <<p>>[1] = p
  OBVIOUS
<1>2. PICK f : Counts(f, <<p>>) /\ Bytes(<<p>>) = f[1]
  BY <1>1, BytesFacts
<1>3. Size(p) \in Nat
  BY PipeAssumption DEF Size
<1>4. f[1] = f[0] + Size(p) /\ f[0] = 0
  BY <1>1, <1>2 DEF Counts
<1> QED BY <1>2, <1>3, <1>4

\* No packets take nothing.
LEMMA BytesOfNone == Bytes(<<>>) = 0
<1>1. <<>> \in Seq(Packets) /\ Len(<<>>) = 0
  OBVIOUS
<1>2. PICK f : Counts(f, <<>>) /\ Bytes(<<>>) = f[0]
  BY <1>1, BytesFacts
<1> QED BY <1>2 DEF Counts

\* Two packets next to each other are not longer than all of them.
LEMMA NeighboursFit ==
  ASSUME NEW s \in Seq(Packets)
  PROVE  /\ Bytes(s) \in Nat
         /\ \A i \in 1 .. Len(s) : Size(s[i]) <= Bytes(s)
         /\ \A i \in 2 .. Len(s) : Size(s[i - 1]) + Size(s[i]) <= Bytes(s)
<1>a. \A p \in Packets : Size(p) \in Nat
  BY PipeAssumption DEF Size
<1>l. Len(s) \in Nat /\ \A k \in 1 .. Len(s) : s[k] \in Packets
  OBVIOUS
<1>1. PICK f : Counts(f, s) /\ Bytes(s) = f[Len(s)]
  BY BytesFacts
<1>2. /\ f \in [0 .. Len(s) -> Nat] /\ f[0] = 0
      /\ \A k \in 1 .. Len(s) : f[k] = f[k - 1] + Size(s[k]) /\ Size(s[k]) \in Nat
  BY <1>1, <1>a, <1>l DEF Counts
<1> DEFINE Bad == {k \in 0 .. Len(s) : \E i \in 0 .. k : ~(f[i] <= f[k])}
<1>3. Bad = {}
  <2>1. SUFFICES ASSUME Bad # {} PROVE FALSE
    OBVIOUS
  <2>2. PICK k \in Bad : \A m \in Bad : k <= m
    <3>1. Bad \in SUBSET Nat
      BY <1>l
    <3> HIDE DEF Bad
    <3> QED BY <2>1, <3>1, LeastNat
  <2>3. PICK i \in 0 .. k : ~(f[i] <= f[k])
    BY <2>2
  <2>4. k \in 0 .. Len(s) /\ i \in 0 .. Len(s) /\ f[k] \in Nat /\ f[i] \in Nat
    <3>1. k \in 0 .. Len(s)
      BY <2>2
    <3>2. i \in 0 .. Len(s)
      BY <3>1, <1>l
    <3> QED BY <3>1, <3>2, <1>2
  <2>5. i # k /\ k # 0
    BY <2>3, <2>4
  <2>6. k \in 1 .. Len(s) /\ k - 1 \in 0 .. Len(s) /\ i \in 0 .. k - 1 /\ ~(k <= k - 1)
    BY <2>4, <2>5, <2>3, <1>l
  <2>7. f[i] <= f[k - 1]
    BY <2>2, <2>6
  <2>8. f[k] = f[k - 1] + Size(s[k]) /\ f[k - 1] \in Nat /\ Size(s[k]) \in Nat
    BY <1>2, <2>6
  <2> QED BY <2>3, <2>4, <2>7, <2>8
<1>4. ASSUME NEW k \in 0 .. Len(s) PROVE f[k] \in Nat /\ f[k] <= Bytes(s)
  <2>1. Len(s) \in 0 .. Len(s) /\ Len(s) \notin Bad /\ k \in 0 .. Len(s)
    BY <1>3, <1>l
  <2>2. f[k] <= f[Len(s)]
    BY <2>1
  <2> QED BY <2>2, <1>1, <1>2
<1>5. ASSUME NEW i \in 1 .. Len(s) PROVE Size(s[i]) <= Bytes(s)
  <2>1. i \in 0 .. Len(s) /\ i - 1 \in 0 .. Len(s)
    BY <1>l
  <2>2. f[i] = f[i - 1] + Size(s[i]) /\ Size(s[i]) \in Nat
    BY <1>2
  <2>3. f[i] <= Bytes(s) /\ f[i] \in Nat /\ f[i - 1] \in Nat
    BY <2>1, <1>4
  <2>4. Bytes(s) \in Nat
    BY <1>1, <1>2, <1>l
  <2> QED BY <2>2, <2>3, <2>4
<1>6. ASSUME NEW i \in 2 .. Len(s) PROVE Size(s[i - 1]) + Size(s[i]) <= Bytes(s)
  <2>1. i \in 1 .. Len(s) /\ i - 1 \in 1 .. Len(s) /\ i - 2 \in 0 .. Len(s) /\ i \in 0 .. Len(s)
        /\ (i - 1) - 1 = i - 2
    BY <1>l
  <2>2. /\ f[i] = f[i - 1] + Size(s[i]) /\ Size(s[i]) \in Nat
        /\ f[i - 1] = f[i - 2] + Size(s[i - 1]) /\ Size(s[i - 1]) \in Nat
    BY <1>2, <2>1
  <2>3. f[i] <= Bytes(s) /\ f[i] \in Nat /\ f[i - 2] \in Nat
    BY <2>1, <1>4
  <2>4. Bytes(s) \in Nat
    BY <1>1, <1>2, <1>l
  <2> QED BY <2>2, <2>3, <2>4
<1> QED BY <1>1, <1>2, <1>l, <1>5, <1>6

\* A read that brings whole packets is split into all of them.
LEMMA SplitWhole ==
  ASSUME NEW s \in Seq(Packets)
  PROVE  Split(s) = s
<1> DEFINE good == {k \in 0 .. Len(s) : \A i \in 1 .. k : Bytes(<<s[i]>>) <= Left(s, i)}
<1>l. Len(s) \in Nat /\ \A k \in 1 .. Len(s) : s[k] \in Packets
  OBVIOUS
<1>a. \A p \in Packets : Size(p) \in Nat
  BY PipeAssumption DEF Size
<1>1. ASSUME NEW i \in 1 .. Len(s) PROVE Bytes(<<s[i]>>) <= Left(s, i)
  <2>1. Bytes(s) \in Nat /\ s[i] \in Packets /\ Bytes(<<s[i]>>) = Size(s[i])
    BY <1>l, NeighboursFit, BytesOfOne
  <2>2. CASE i = 1
    <3>1. Size(s[i]) <= Bytes(s) /\ Left(s, i) = Bytes(s) - 0
      BY <2>2, NeighboursFit DEF Left
    <3> QED BY <2>1, <3>1
  <2>3. CASE i # 1
    <3>1. i \in 2 .. Len(s) /\ i - 1 \in 1 .. Len(s)
      BY <2>3, <1>l
    <3>2. Size(s[i - 1]) + Size(s[i]) <= Bytes(s) /\ Size(s[i]) \in Nat /\ Size(s[i - 1]) \in Nat
      BY <3>1, <1>a, <1>l, NeighboursFit
    <3>3. Left(s, i) = Bytes(s) - Size(s[i - 1])
      BY <3>1, <2>3, <1>l, BytesOfOne DEF Left
    <3> QED BY <2>1, <3>2, <3>3
  <2> QED BY <2>2, <2>3
<1>2. good \in SUBSET (0 .. Len(s)) /\ Len(s) \in good
  BY <1>1, <1>l
<1> HIDE DEF good
<1>3. Max(good) \in good /\ Max(good) >= Len(s)
  BY <1>2, <1>l, MaxFacts
<1>4. Max(good) = Len(s)
  <2>1. \A m \in 0 .. Len(s) : m >= Len(s) => m = Len(s)
    BY <1>l
  <2> QED BY <1>2, <1>3, <2>1
<1>5. Split(s) = SubSeq(s, 1, Len(s))
  BY <1>4 DEF Split, good
<1> QED BY <1>5, SubSeqFull
----------------------------------------------------------------------------
(* Lemmas about the ring.                                                  *)

\* Slots are counted round the ring and come back to the first after the last.
LEMMA SlotFacts ==
  ASSUME NEW i \in Index
  PROVE  /\ \A k \in 0 .. Slots : SlotAfter(i, k) \in Index
         /\ SlotAfter(i, 0) = i /\ SlotAfter(i, Slots) = i
         /\ \A k, l \in 0 .. Slots - 1 : SlotAfter(i, k) = SlotAfter(i, l) => k = l
         /\ \A k \in 0 .. Slots - 1 : SlotAfter(i, k + 1) = SlotAfter(SlotAfter(i, 1), k)
         /\ \A k \in 0 .. Slots - 1 : SlotAfter(i, k + 1) = SlotAfter(SlotAfter(i, k), 1)
<1>1. Slots \in Nat /\ Slots > 0 /\ i \in Nat /\ i < Slots
  BY PipeAssumption DEF Index
<1>2. \A k \in 0 .. Slots : SlotAfter(i, k) \in Index
  BY <1>1 DEF SlotAfter, Index
<1>3. SlotAfter(i, 0) = i /\ SlotAfter(i, Slots) = i
  BY <1>1 DEF SlotAfter
<1>4. \A k, l \in 0 .. Slots - 1 : SlotAfter(i, k) = SlotAfter(i, l) => k = l
  BY <1>1 DEF SlotAfter
<1>5. \A k \in 0 .. Slots - 1 : SlotAfter(i, k + 1) = SlotAfter(SlotAfter(i, 1), k)
  BY <1>1 DEF SlotAfter
<1>6. \A k \in 0 .. Slots - 1 : SlotAfter(i, k + 1) = SlotAfter(SlotAfter(i, k), 1)
  BY <1>1 DEF SlotAfter
<1> QED BY <1>2, <1>3, <1>4, <1>5, <1>6

\* The first n slots from c on hold packets, and no others.
Run(w, c, n) == \A k \in 0 .. Slots - 1 : w[SlotAfter(c, k)] # Empty <=> k < n

\* Those packets.
Queue(w, c, n) == [k \in 1 .. n |-> w[SlotAfter(c, k - 1)]]

Rings == [Index -> Packets \cup {Empty}]

\* A run of full slots read in order is a queue of its packets.
LEMMA QueueFacts ==
  ASSUME NEW w \in Rings, NEW c \in Index, NEW n \in 0 .. Slots, Run(w, c, n)
  PROVE  /\ Queue(w, c, n) \in Seq(Packets) /\ Len(Queue(w, c, n)) = n
         /\ \A k \in 1 .. n : Queue(w, c, n)[k] = w[SlotAfter(c, k - 1)]
         /\ n > 0 => Head(Queue(w, c, n)) = w[c]
<1>1. n \in Nat /\ n <= Slots /\ Slots \in Nat
  BY PipeAssumption
<1>2. ASSUME NEW k \in 1 .. n PROVE w[SlotAfter(c, k - 1)] \in Packets
  <2>1. k - 1 \in 0 .. Slots - 1 /\ k - 1 < n /\ k - 1 \in 0 .. Slots
    BY <1>1
  <2>2. w[SlotAfter(c, k - 1)] # Empty
    BY <2>1 DEF Run
  <2>3. SlotAfter(c, k - 1) \in Index
    BY <2>1, SlotFacts
  <2> QED BY <2>2, <2>3 DEF Rings
<1>3. Queue(w, c, n) \in Seq(Packets) /\ Len(Queue(w, c, n)) = n
  BY <1>1, <1>2 DEF Queue
<1>4. \A k \in 1 .. n : Queue(w, c, n)[k] = w[SlotAfter(c, k - 1)]
  BY DEF Queue
<1>5. n > 0 => Head(Queue(w, c, n)) = w[c]
  <2>1. n > 0 => 1 \in 1 .. n /\ Head(Queue(w, c, n)) = Queue(w, c, n)[1]
    BY <1>1, <1>3
  <2>2. SlotAfter(c, 1 - 1) = c
    BY SlotFacts
  <2> QED BY <2>1, <2>2, <1>4
<1> QED BY <1>3, <1>4, <1>5

\* The packets up to the first empty slot are that run.
LEMMA FilledFacts ==
  ASSUME NEW w \in Rings, NEW c \in Index, NEW n \in 0 .. Slots, Run(w, c, n)
  PROVE  (CHOOSE m \in {m \in 0 .. Slots : /\ \A k \in 0 .. m - 1 : w[SlotAfter(c, k)] # Empty
                                           /\ m < Slots => w[SlotAfter(c, m)] = Empty} : TRUE) = n
<1> DEFINE F == {m \in 0 .. Slots : /\ \A k \in 0 .. m - 1 : w[SlotAfter(c, k)] # Empty
                                    /\ m < Slots => w[SlotAfter(c, m)] = Empty}
<1>1. n \in Nat /\ n <= Slots /\ Slots \in Nat
  BY PipeAssumption
<1>2. n \in F
  BY <1>1 DEF Run
<1>3. ASSUME NEW m \in F PROVE m = n
  <2>1. m \in Nat /\ m <= Slots
    BY <1>1
  <2>2. CASE m < n
    BY <1>1, <2>1, <2>2 DEF Run
  <2>3. CASE m > n
    <3>1. n \in 0 .. m - 1 /\ n \in 0 .. Slots - 1
      BY <1>1, <2>1, <2>3
    <3>2. w[SlotAfter(c, n)] # Empty
      BY <3>1
    <3> QED BY <3>1, <3>2, <1>1 DEF Run
  <2> QED BY <1>1, <2>1, <2>2, <2>3
<1> HIDE DEF F
<1>4. (CHOOSE m \in F : TRUE) = n
  BY <1>2, <1>3
<1> QED BY <1>4 DEF F

\* A packet that goes into the slot behind the run makes it longer by one.
LEMMA RunGrows ==
  ASSUME NEW w \in Rings, NEW c \in Index, NEW n \in 0 .. Slots - 1, Run(w, c, n),
         NEW p \in Packets
  PROVE  LET v == [w EXCEPT ![SlotAfter(c, n)] = p]
         IN  /\ v \in Rings /\ Run(v, c, n + 1)
             /\ Queue(v, c, n + 1) = Append(Queue(w, c, n), p)
<1> DEFINE v == [w EXCEPT ![SlotAfter(c, n)] = p]
<1>1. /\ n \in Nat /\ n + 1 \in 0 .. Slots /\ Slots \in Nat /\ n \in 0 .. Slots /\ n < Slots
      /\ p # Empty
  BY PipeAssumption
<1>2. SlotAfter(c, n) \in Index /\ \A k \in 0 .. Slots - 1 : SlotAfter(c, k) \in Index
  BY <1>1, SlotFacts
<1>3. \A k \in 0 .. Slots - 1 :
          v[SlotAfter(c, k)] = IF k = n THEN p ELSE w[SlotAfter(c, k)]
  <2>1. \A k \in 0 .. Slots - 1 : SlotAfter(c, k) = SlotAfter(c, n) => k = n
    BY SlotFacts
  <2> QED BY <1>2, <2>1 DEF Rings
<1>4. v \in Rings
  BY <1>2 DEF Rings
<1> HIDE DEF v
<1>5. Run(v, c, n + 1)
  <2>1. ASSUME NEW k \in 0 .. Slots - 1 PROVE v[SlotAfter(c, k)] # Empty <=> k < n + 1
    <3>1. w[SlotAfter(c, k)] # Empty <=> k < n
      BY DEF Run
    <3> QED BY <3>1, <1>1, <1>3
  <2> QED BY <2>1 DEF Run
<1>6. /\ Queue(v, c, n + 1) \in Seq(Packets) /\ Len(Queue(v, c, n + 1)) = n + 1
      /\ \A k \in 1 .. n + 1 : Queue(v, c, n + 1)[k] = v[SlotAfter(c, k - 1)]
  BY <1>1, <1>4, <1>5, QueueFacts
<1>7. /\ Queue(w, c, n) \in Seq(Packets) /\ Len(Queue(w, c, n)) = n
      /\ \A k \in 1 .. n : Queue(w, c, n)[k] = w[SlotAfter(c, k - 1)]
  BY <1>1, QueueFacts
<1>8. ASSUME NEW k \in 1 .. n + 1
      PROVE  Queue(v, c, n + 1)[k] = IF k = n + 1 THEN p ELSE Queue(w, c, n)[k]
  <2>1. k - 1 \in 0 .. Slots - 1 /\ (k - 1 = n <=> k = n + 1) /\ (k # n + 1 => k \in 1 .. n)
    BY <1>1
  <2> QED BY <2>1, <1>3, <1>6, <1>7
<1>9. Queue(v, c, n + 1) = Append(Queue(w, c, n), p)
  BY <1>1, <1>6, <1>7, <1>8
<1> QED BY <1>4, <1>5, <1>9 DEF v

\* The current slot cleared and passed, the rest of the run remains.
LEMMA RunShrinks ==
  ASSUME NEW w \in Rings, NEW c \in Index, NEW n \in 1 .. Slots, Run(w, c, n)
  PROVE  LET v == [w EXCEPT ![c] = Empty]
             d == SlotAfter(c, 1)
         IN  /\ v \in Rings /\ d \in Index /\ Run(v, d, n - 1)
             /\ Queue(v, d, n - 1) = Tail(Queue(w, c, n))
<1> DEFINE v == [w EXCEPT ![c] = Empty]
           d == SlotAfter(c, 1)
<1>1. n \in Nat /\ n - 1 \in 0 .. Slots /\ Slots \in Nat /\ n \in 0 .. Slots /\ n <= Slots
      /\ n > 0 /\ 1 \in 0 .. Slots /\ 0 \in 0 .. Slots - 1
  BY PipeAssumption
<1>2. d \in Index /\ SlotAfter(c, 0) = c /\ SlotAfter(c, Slots) = c
  BY <1>1, SlotFacts
<1>3. ASSUME NEW k \in 0 .. Slots - 1
      PROVE  v[SlotAfter(d, k)] = IF k = Slots - 1 THEN Empty ELSE w[SlotAfter(c, k + 1)]
  <2>1. SlotAfter(d, k) = SlotAfter(c, k + 1) /\ SlotAfter(c, k + 1) \in Index
    <3>1. k + 1 \in 0 .. Slots
      BY <1>1
    <3> QED BY <3>1, SlotFacts
  <2>2. CASE k = Slots - 1
    <3>1. SlotAfter(d, k) = c
      BY <2>1, <2>2, <1>1, <1>2
    <3> QED BY <3>1, <2>2 DEF Rings
  <2>3. CASE k # Slots - 1
    <3>1. k + 1 \in 0 .. Slots - 1 /\ k + 1 # 0
      BY <2>3, <1>1
    <3>2. SlotAfter(c, k + 1) # c
      BY <3>1, <1>1, <1>2, SlotFacts
    <3> QED BY <2>1, <2>3, <3>2 DEF Rings
  <2> QED BY <2>2, <2>3
<1>4. v \in Rings
  BY DEF Rings
<1> HIDE DEF v, d
<1>5. Run(v, d, n - 1)
  <2>1. ASSUME NEW k \in 0 .. Slots - 1 PROVE v[SlotAfter(d, k)] # Empty <=> k < n - 1
    <3>1. CASE k = Slots - 1
      BY <3>1, <1>1, <1>3
    <3>2. CASE k # Slots - 1
      <4>1. k + 1 \in 0 .. Slots - 1
        BY <3>2, <1>1
      <4>2. w[SlotAfter(c, k + 1)] # Empty <=> k + 1 < n
        BY <4>1 DEF Run
      <4> QED BY <3>2, <4>2, <1>1, <1>3
    <3> QED BY <3>1, <3>2
  <2> QED BY <2>1 DEF Run
<1>6. /\ Queue(v, d, n - 1) \in Seq(Packets) /\ Len(Queue(v, d, n - 1)) = n - 1
      /\ \A k \in 1 .. n - 1 : Queue(v, d, n - 1)[k] = v[SlotAfter(d, k - 1)]
  BY <1>1, <1>2, <1>4, <1>5, QueueFacts
<1>7. /\ Queue(w, c, n) \in Seq(Packets) /\ Len(Queue(w, c, n)) = n
      /\ \A k \in 1 .. n : Queue(w, c, n)[k] = w[SlotAfter(c, k - 1)]
  BY <1>1, QueueFacts
<1>8. ASSUME NEW k \in 1 .. n - 1 PROVE Queue(v, d, n - 1)[k] = Queue(w, c, n)[k + 1]
  <2>1. /\ k - 1 \in 0 .. Slots - 1 /\ k - 1 # Slots - 1 /\ (k - 1) + 1 = k
        /\ k + 1 \in 1 .. n /\ (k + 1) - 1 = k
    BY <1>1
  <2> QED BY <2>1, <1>3, <1>6, <1>7
<1>9. Queue(v, d, n - 1) = Tail(Queue(w, c, n))
  BY <1>1, <1>6, <1>7, <1>8
<1> QED BY <1>2, <1>4, <1>5, <1>9 DEF v, d
----------------------------------------------------------------------------
(* The invariant.  It says nothing of a pipe that has had trouble: after a *)
(* full ring or a full buffer packets are lost or repeated.                *)

\* The ring holds a run of packets from the current slot on; one write is on its
\* way, or its completion is, exactly if the run is not empty.
RingInv ==
    Untroubled /\ closed = Nobody =>
        /\ \E n \in 0 .. Slots :
              /\ Run(wq, wq_current, n)
              /\ Slot = SlotAfter(wq_current, n)
              /\ operation <=> n > 0
        /\ operation => writes = (IF cpc = "written" THEN 0 ELSE 1)
        /\ ~operation => writes = 0 /\ cpc = "idle"

\* The packets of the ring that are not in the pipe yet.
Unwritten == IF operation THEN Tail(Ring) ELSE Ring

\* The packets the receiver has or can still get.
Passed == received \o chunk.packets \o stream

FlowInv ==
    Untroubled =>
        /\ chunk # None => chunk.kind \in {"whole", "full"}
        /\ taken # 0 => chunk.kind = "full"
        /\ \E rest \in Seq(Packets) :
              /\ accepted = Passed \o rest
              /\ closed = Nobody => rest = Unwritten

IInv == TypeOK /\ RingInv /\ FlowInv

RingTypes ==
    /\ wq \in Rings /\ wq_current \in Index /\ wq_count \in -1 .. Slots
    /\ operation \in BOOLEAN /\ writes \in Nat
    /\ spc \in {"idle", "full"} /\ cpc \in {"idle", "written"}

StreamTypes == stream \in Seq(Packets) /\ taken \in Nat

Chunks == [packets : Seq(Packets), kind : {"none", "whole", "torn", "full"}]

EndTypes ==
    /\ closed \in Ends \cup {Nobody} /\ told \subseteq Ends
    /\ reading \in {"no", "yes", "failed"} /\ chunk \in Chunks
    /\ fresh \subseteq Packets
    /\ accepted \in Seq(Packets) /\ received \in Seq(Packets)
    /\ lost \in BOOLEAN /\ overrun \in BOOLEAN

\* The type invariant by what it speaks of.
LEMMA TypeParts == TypeOK <=> RingTypes /\ StreamTypes /\ EndTypes
BY DEF TypeOK, RingTypes, StreamTypes, EndTypes, Rings, Chunks

\* nextWrite leaves everything within its type.
LEMMA NextWriteTypes ==
  ASSUME RingTypes, StreamTypes, NEW from \in 0 .. Slots, wq' \in Rings, NextWrite(from)
  PROVE  /\ wq_current' \in Index /\ operation' \in BOOLEAN /\ writes' \in Nat
         /\ StreamTypes'
<1>1. wq_current' \in Index
  BY PipeAssumption DEF NextWrite, Index
<1>2. wq'[wq_current'] \in Packets \cup {Empty}
  BY <1>1 DEF Rings
<1>3. CASE wq'[wq_current'] # Empty /\ closed = Nobody
  BY <1>1, <1>2, <1>3 DEF NextWrite, RingTypes, StreamTypes
<1>4. CASE ~(wq'[wq_current'] # Empty /\ closed = Nobody)
  BY <1>1, <1>4 DEF NextWrite, RingTypes, StreamTypes
<1> QED BY <1>3, <1>4

\* The slot a write looks at is one of the ring.
LEMMA SlotInRing == ASSUME RingTypes PROVE Slot \in Index /\ Slot + 1 \in -1 .. Slots
BY PipeAssumption DEF RingTypes, Slot, Index

\* How far a read that fills the buffer gets.
LEMMA WithinFacts ==
  ASSUME StreamTypes
  PROVE  LET k == Max(Within(ReadMax))
         IN  /\ k \in 0 .. Len(stream)
             /\ taken + ReadMax - Bytes(SubSeq(stream, 1, k)) \in Nat
<1>1. Len(stream) \in Nat /\ ReadMax \in Nat /\ taken \in Nat /\ stream \in Seq(Packets)
  BY PipeAssumption DEF StreamTypes
<1>2. Within(ReadMax) \in SUBSET (0 .. Len(stream))
  BY DEF Within
<1>3. 0 \in Within(ReadMax)
  <2>1. SubSeq(stream, 1, 0) = <<>>
    BY <1>1
  <2>2. Bytes(SubSeq(stream, 1, 0)) <= taken + ReadMax /\ 0 \in 0 .. Len(stream)
    <3>1. 0 <= taken + ReadMax /\ 0 \in 0 .. Len(stream)
      BY <1>1
    <3> QED BY <2>1, <3>1, BytesOfNone
  <2> QED BY <2>2 DEF Within
<1> DEFINE k == Max(Within(ReadMax))
<1>4. k \in Within(ReadMax)
  BY <1>1, <1>2, <1>3, MaxFacts
<1> HIDE DEF k
<1>5. k \in 0 .. Len(stream) /\ Bytes(SubSeq(stream, 1, k)) <= taken + ReadMax
  BY <1>4 DEF Within
<1>6. SubSeq(stream, 1, k) \in Seq(Packets)
  BY <1>1, <1>5
<1>7. Bytes(SubSeq(stream, 1, k)) \in Nat
  BY <1>6, NeighboursFit
<1>8. taken + ReadMax - Bytes(SubSeq(stream, 1, k)) \in Nat
  BY <1>1, <1>5, <1>7
<1> QED BY <1>5, <1>8 DEF k

\* Every step keeps the types.
LEMMA TypesKept ==
  ASSUME TypeOK, [Next]_vars
  PROVE  RingTypes' /\ StreamTypes' /\ EndTypes'
<1>t. RingTypes /\ StreamTypes /\ EndTypes
  BY TypeParts
<1>a. Slots \in Nat /\ Slots > 0 /\ Nobody \notin Ends
  BY PipeAssumption DEF Ends
<1>i. wq_current \in 0 .. Slots /\ wq_current + 1 \in 0 .. Slots
  BY <1>a, <1>t DEF RingTypes, Index
<1>1. ASSUME NEW p \in Packets, WriteSlot(p) PROVE RingTypes' /\ StreamTypes' /\ EndTypes'
  <2>1. /\ wq' = [wq EXCEPT ![Slot] = p] /\ wq_count' = Slot + 1
        /\ fresh' = fresh \ {p} /\ accepted' = Append(accepted, p)
        /\ UNCHANGED <<spc, cpc, lost, closed, told, reading, chunk, received, overrun>>
        /\ \/ UNCHANGED <<wq_current, operation, writes, stream, taken>>
           \/ NextWrite(wq_current)
    BY <1>1 DEF WriteSlot, receiver, pipe
  <2>2. wq' \in Rings
    BY <2>1, <1>t DEF RingTypes, Rings
  <2>3. EndTypes'
    BY <2>1, <1>t DEF EndTypes
  <2>4. /\ wq_current' \in Index /\ operation' \in BOOLEAN /\ writes' \in Nat
        /\ StreamTypes'
    <3>1. CASE UNCHANGED <<wq_current, operation, writes, stream, taken>>
      BY <3>1, <1>t DEF RingTypes, StreamTypes
    <3>2. CASE NextWrite(wq_current)
      BY <3>2, <2>2, <1>i, <1>t, NextWriteTypes
    <3> QED BY <2>1, <3>1, <3>2
  <2> QED BY <2>1, <2>2, <2>3, <2>4, <1>t, SlotInRing DEF RingTypes
<1>2. ASSUME NEW p \in Packets, WriteFull(p) PROVE RingTypes' /\ StreamTypes' /\ EndTypes'
  BY <1>2, <1>t DEF WriteFull, RingTypes, StreamTypes, EndTypes, ring, receiver, pipe
<1>3. CASE WriteAgain
  <2>1. /\ UNCHANGED <<wq, wq_count, cpc, fresh, accepted, closed, told, reading, chunk,
                       received, overrun>>
        /\ lost' = TRUE /\ spc' = "idle" /\ NextWrite(wq_current)
    BY <1>3 DEF WriteAgain, receiver
  <2>2. /\ wq_current' \in Index /\ operation' \in BOOLEAN /\ writes' \in Nat
        /\ StreamTypes'
    BY <2>1, <1>i, <1>t, NextWriteTypes DEF RingTypes
  <2> QED BY <2>1, <2>2, <1>t DEF RingTypes, EndTypes
<1>4. CASE WriteCompletes
  BY <1>4, <1>t DEF WriteCompletes, RingTypes, StreamTypes, EndTypes, ring, receiver, pipe
<1>5. CASE Written
  <2>1. /\ UNCHANGED <<wq_count, spc, fresh, accepted, lost, closed, reading, chunk,
                       received, overrun>>
        /\ wq' = ClearWritten /\ cpc' = "idle" /\ NextWrite(wq_current + 1)
        /\ told' \in {told, told \cup {"sender"}}
    BY <1>5 DEF Written, receiver
  <2>2. wq' \in Rings
    BY <2>1, <1>t DEF ClearWritten, RingTypes, Rings
  <2>3. /\ wq_current' \in Index /\ operation' \in BOOLEAN /\ writes' \in Nat
        /\ StreamTypes'
    BY <2>1, <2>2, <1>i, <1>t, NextWriteTypes
  <2>4. told' \subseteq Ends
    BY <2>1, <1>t DEF EndTypes, Ends
  <2> QED BY <2>1, <2>2, <2>3, <2>4, <1>t DEF RingTypes, EndTypes
<1>6. CASE SenderFails \/ Read \/ ReadFails
  BY <1>6, <1>t DEF SenderFails, Read, ReadFails, RingTypes, StreamTypes, EndTypes, Ends, sender,
     ring, receiver, pipe
<1>7. CASE ReadCompletes
  <2>1. /\ UNCHANGED <<wq, wq_current, wq_count, operation, spc, cpc, fresh, accepted, lost,
                       reading, received, overrun, writes, closed, told>>
    BY <1>7 DEF ReadCompletes, sender, ring
  <2>2. RingTypes'
    BY <2>1, <1>t DEF RingTypes
  <2>3. CASE Bytes(stream) - taken < ReadMax
    <3>1. /\ stream' = <<>> /\ taken' = 0
          /\ chunk' \in {[packets |-> stream, kind |-> "whole"], [packets |-> stream, kind |-> "torn"]}
      BY <1>7, <2>3 DEF ReadCompletes
    <3>2. chunk' \in Chunks
      BY <3>1, <1>t DEF Chunks, StreamTypes
    <3> QED BY <2>1, <2>2, <3>1, <3>2, <1>t DEF EndTypes, StreamTypes
  <2>4. CASE ~(Bytes(stream) - taken < ReadMax)
    <3> DEFINE k == Max(Within(ReadMax))
    <3>1. /\ chunk' = [packets |-> SubSeq(stream, 1, k), kind |-> "full"]
          /\ stream' = SubSeq(stream, k + 1, Len(stream))
          /\ taken' = taken + ReadMax - Bytes(SubSeq(stream, 1, k))
      BY <1>7, <2>4 DEF ReadCompletes
    <3>2. k \in 0 .. Len(stream) /\ taken + ReadMax - Bytes(SubSeq(stream, 1, k)) \in Nat
      BY <1>t, WithinFacts
    <3> HIDE DEF k
    <3>3. SubSeq(stream, 1, k) \in Seq(Packets) /\ SubSeq(stream, k + 1, Len(stream)) \in Seq(Packets)
      BY <3>2, <1>t DEF StreamTypes
    <3>4. chunk' \in Chunks
      BY <3>1, <3>3 DEF Chunks
    <3> QED BY <2>1, <2>2, <3>1, <3>2, <3>3, <3>4, <1>t DEF EndTypes, StreamTypes
  <2> QED BY <2>3, <2>4
<1>8. CASE OnRead
  <2>1. /\ received' = (IF chunk.kind = "whole" THEN received \o Split(chunk.packets) ELSE received)
        /\ overrun' = (overrun \/ chunk.kind = "full") /\ chunk' = None
        /\ reading' \in {"failed", "yes"} /\ told' \in {told, told \cup {"receiver"}}
        /\ UNCHANGED <<wq, wq_current, wq_count, operation, spc, cpc, fresh, accepted, lost,
                       writes, stream, taken, closed>>
    BY <1>8 DEF OnRead, NextRead, sender, ring, pipe
  <2>2. chunk.packets \in Seq(Packets)
    BY <1>t DEF EndTypes, Chunks
  <2>3. received' \in Seq(Packets)
    BY <2>1, <2>2, <1>t, SplitWhole DEF EndTypes
  <2>4. None \in Chunks
    BY DEF None, Chunks
  <2>5. told' \subseteq Ends /\ overrun' \in BOOLEAN
    BY <2>1, <1>t DEF EndTypes, Ends
  <2> QED BY <2>1, <2>3, <2>4, <2>5, <1>t DEF RingTypes, StreamTypes, EndTypes
<1>9. ASSUME NEW e \in Ends, Close(e) PROVE RingTypes' /\ StreamTypes' /\ EndTypes'
  <2>1. /\ closed' = e /\ stream' \in {stream, <<>>} /\ taken' \in {taken, 0}
        /\ UNCHANGED <<wq, wq_current, wq_count, operation, spc, cpc, fresh, accepted, lost,
                       writes, reading, chunk, received, overrun, told>>
    BY <1>9 DEF Close, sender, ring, receiver
  <2>2. RingTypes'
    BY <2>1, <1>t DEF RingTypes
  <2>3. StreamTypes'
    <3>1. <<>> \in Seq(Packets) /\ 0 \in Nat
      OBVIOUS
    <3> QED BY <2>1, <3>1, <1>t DEF StreamTypes
  <2>4. EndTypes'
    BY <2>1, <1>t DEF EndTypes
  <2> QED BY <2>2, <2>3, <2>4
<1>10. CASE UNCHANGED vars
  BY <1>10, <1>t DEF vars, sender, ring, receiver, pipe, RingTypes, StreamTypes, EndTypes
<1> QED BY <1>1, <1>2, <1>3, <1>4, <1>5, <1>6, <1>7, <1>8, <1>9, <1>10 DEF Next
----------------------------------------------------------------------------
(* Packets move on, and none gets lost.                                    *)

\* Sequences of packets may be appended in any grouping.
LEMMA Regroup ==
  ASSUME NEW x \in Seq(Packets), NEW y \in Seq(Packets), NEW z \in Seq(Packets)
  PROVE  (x \o y) \o z = x \o (y \o z)
BY ConcatAssociative

\* A packet that goes from the front of what waits to the end of the stream.
LEMMA MoveOne ==
  ASSUME NEW x \in Seq(Packets), NEW s \in Seq(Packets), NEW q \in Seq(Packets), q # <<>>
  PROVE  (x \o s) \o q = (x \o Append(s, Head(q))) \o Tail(q)
<1>1. Head(q) \in Packets /\ Tail(q) \in Seq(Packets) /\ q = <<Head(q)>> \o Tail(q)
  BY HeadTailProperties
<1>2. <<Head(q)>> \in Seq(Packets) /\ Append(s, Head(q)) = s \o <<Head(q)>>
  BY <1>1, AppendIsConcat
<1>3. x \o (s \o <<Head(q)>>) = (x \o s) \o <<Head(q)>>
  BY <1>2, ConcatAssociative
<1>4. x \o s \in Seq(Packets)
  BY ConcatProperties
<1>5. ((x \o s) \o <<Head(q)>>) \o Tail(q) = (x \o s) \o (<<Head(q)>> \o Tail(q))
  BY SMTT(30), <1>1, <1>2, <1>4, ConcatAssociative
<1> QED BY <1>1, <1>2, <1>3, <1>5

\* A packet that is accepted is the last of what waits.
LEMMA AcceptOne ==
  ASSUME NEW x \in Seq(Packets), NEW q \in Seq(Packets), NEW p \in Packets
  PROVE  Append(x \o q, p) = x \o Append(q, p)
<1>1. x \o q \in Seq(Packets) /\ <<p>> \in Seq(Packets)
  BY ConcatProperties
<1>2. Append(x \o q, p) = (x \o q) \o <<p>> /\ Append(q, p) = q \o <<p>>
  BY <1>1, AppendIsConcat
<1> QED BY <1>1, <1>2, ConcatAssociative

\* What the ring holds, in a state with a run of n packets.
LEMMA RingFacts ==
  ASSUME RingTypes, NEW n \in 0 .. Slots, Run(wq, wq_current, n)
  PROVE  Ring = Queue(wq, wq_current, n)
<1>1. (CHOOSE m \in Filled : TRUE) = n
  BY FilledFacts DEF RingTypes, Filled, At
<1> QED BY <1>1 DEF Ring, At, Queue

\* Every step keeps the ring's order, and every packet.
LEMMA PacketsKept ==
  ASSUME IInv, [Next]_vars
  PROVE  RingInv' /\ FlowInv'
<1>t. RingTypes /\ StreamTypes /\ EndTypes /\ RingInv /\ FlowInv
  BY TypeParts DEF IInv
<1>p. RingTypes' /\ StreamTypes' /\ EndTypes'
  BY TypesKept DEF IInv
<1>a. Slots \in Nat /\ Slots > 0 /\ Nobody \notin Ends /\ Empty \notin Packets
  BY PipeAssumption DEF Ends
<1>s. /\ received \in Seq(Packets) /\ chunk.packets \in Seq(Packets) /\ stream \in Seq(Packets)
      /\ received \o chunk.packets \in Seq(Packets) /\ Passed \in Seq(Packets)
  <2>1. received \in Seq(Packets) /\ chunk.packets \in Seq(Packets) /\ stream \in Seq(Packets)
    BY <1>t DEF StreamTypes, EndTypes, Chunks
  <2> QED BY <2>1, ConcatProperties DEF Passed
<1>n. None.packets = <<>> /\ None.kind = "none"
  BY DEF None
<1>q. ASSUME UNCHANGED <<wq, wq_current, wq_count, operation, writes, spc, cpc, lost>>,
             overrun => overrun', closed' = closed \/ closed' # Nobody
      PROVE  /\ RingInv' /\ Unwritten' = Unwritten
             /\ Untroubled' => Untroubled
             /\ closed' = Nobody => closed = Nobody
  <2>1. Untroubled' => Untroubled
    BY <1>q, <1>t DEF Untroubled, EndTypes
  <2>2. Unwritten' = Unwritten
    BY <1>q DEF Unwritten, Ring, Filled, At
  <2>3. RingInv'
    BY <1>q, <1>t, <2>1 DEF RingInv, Slot
  <2> QED BY <1>q, <2>1, <2>2, <2>3
<1>1. CASE WriteAgain \/ \E p \in Packets : WriteFull(p)
  <2>1. ~Untroubled'
    BY <1>1 DEF WriteFull, WriteAgain, Untroubled
  <2> QED BY <2>1 DEF RingInv, FlowInv
<1>2. CASE SenderFails \/ Read \/ ReadFails \/ UNCHANGED vars
  <2>1. UNCHANGED <<wq, wq_current, wq_count, operation, writes, spc, cpc, lost, overrun, closed>>
    BY <1>2 DEF SenderFails, Read, ReadFails, vars, sender, ring, receiver, pipe
  <2>2. UNCHANGED <<accepted, received, chunk, stream, taken>>
    BY <1>2 DEF SenderFails, Read, ReadFails, vars, sender, ring, receiver, pipe
  <2>3. RingInv' /\ Unwritten' = Unwritten /\ (Untroubled' => Untroubled)
    BY <2>1, <1>q
  <2> QED BY <2>1, <2>2, <2>3, <1>t DEF FlowInv, Passed
<1>3. CASE WriteCompletes
  <2>1. /\ writes > 0 /\ cpc = "idle" /\ closed = Nobody /\ writes' = writes - 1
        /\ cpc' = (IF operation THEN "written" ELSE "idle")
        /\ UNCHANGED <<wq, wq_current, wq_count, operation, spc, lost, overrun, closed>>
        /\ UNCHANGED <<accepted, received, chunk, stream, taken>>
    BY <1>3 DEF WriteCompletes, ring, receiver, pipe
  <2>2. Untroubled' = Untroubled /\ Unwritten' = Unwritten /\ Passed' = Passed
    BY <2>1 DEF Untroubled, Unwritten, Ring, Filled, At, Passed
  <2>3. FlowInv'
    BY <2>1, <2>2, <1>t DEF FlowInv
  <2>4. RingInv'
    <3>1. SUFFICES ASSUME Untroubled PROVE RingInv'
      BY <2>2 DEF RingInv
    <3>2. operation /\ writes = 1
      BY <2>1, <3>1, <1>t DEF RingInv, RingTypes
    <3>3. operation' /\ writes' = 0 /\ cpc' = "written"
      BY <2>1, <3>2
    <3>4. \E n \in 0 .. Slots :
              /\ Run(wq', wq_current', n)
              /\ Slot' = SlotAfter(wq_current', n)
              /\ operation' <=> n > 0
      BY <2>1, <3>1, <1>t DEF RingInv, Slot
    <3> QED BY <3>3, <3>4 DEF RingInv
  <2> QED BY <2>3, <2>4
<1>4. ASSUME NEW p \in Packets, WriteSlot(p) PROVE RingInv' /\ FlowInv'
  <2>1. /\ spc = "idle" /\ Open("sender") /\ wq[Slot] = Empty
        /\ accepted' = Append(accepted, p)
        /\ wq' = [wq EXCEPT ![Slot] = p] /\ wq_count' = Slot + 1
        /\ UNCHANGED <<spc, cpc, lost, overrun, closed, received, chunk, taken>>
        /\ \E writing \in IsWritting :
              IF writing THEN UNCHANGED <<wq_current, operation, writes, stream>>
              ELSE NextWrite(wq_current)
    BY <1>4 DEF WriteSlot, Sends, receiver, pipe, NextWrite
  <2>2. SUFFICES ASSUME Untroubled PROVE RingInv' /\ FlowInv'
    BY <2>1 DEF RingInv, FlowInv, Untroubled
  <2>3. PICK rest \in Seq(Packets) : /\ accepted = Passed \o rest
                                     /\ closed = Nobody => rest = Unwritten
    BY <2>2, <1>t DEF FlowInv
  <2>4. accepted' = Passed \o Append(rest, p) /\ Append(rest, p) \in Seq(Packets)
    <3>1. Append(Passed \o rest, p) = Passed \o Append(rest, p)
      BY <1>s, AcceptOne
    <3>2. Append(rest, p) \in Seq(Packets)
      BY AppendProperties
    <3> QED BY <2>1, <2>3, <3>1, <3>2
  <2>5. chunk' = chunk /\ taken' = taken /\ Passed = (received \o chunk.packets) \o stream
    BY <2>1 DEF Passed
  <2>6. (chunk # None => chunk.kind \in {"whole", "full"}) /\ (taken # 0 => chunk.kind = "full")
    BY <2>2, <1>t DEF FlowInv
  <2>7. CASE closed # Nobody
    <3>1. stream' = stream /\ closed' # Nobody
      BY <2>1, <2>7 DEF NextWrite
    <3>2. Passed' = Passed
      BY <3>1, <2>1 DEF Passed
    <3> QED BY <3>1, <3>2, <2>4, <2>5, <2>6 DEF FlowInv, RingInv
  <2>8. CASE closed = Nobody
    <3>1. PICK n \in 0 .. Slots : /\ Run(wq, wq_current, n)
                                  /\ Slot = SlotAfter(wq_current, n)
                                  /\ operation <=> n > 0
      BY <2>2, <2>8, <1>t DEF RingInv
    <3>2. /\ operation => writes = (IF cpc = "written" THEN 0 ELSE 1)
          /\ ~operation => writes = 0 /\ cpc = "idle"
      BY <2>2, <2>8, <1>t DEF RingInv
    <3>3. n \in 0 .. Slots - 1 /\ n + 1 \in 0 .. Slots /\ n \in Nat /\ wq_current \in Index
      <4>1. wq_current \in Index /\ wq \in Rings
        BY <1>t DEF RingTypes
      <4>2. n = Slots => Slot = wq_current
        BY <3>1, <4>1, SlotFacts
      <4>3. n = Slots => wq[wq_current] # Empty
        <5>1. 0 \in 0 .. Slots - 1 /\ SlotAfter(wq_current, 0) = wq_current
          BY <1>a, <4>1, SlotFacts
        <5> QED BY <5>1, <3>1, <1>a DEF Run
      <4> QED BY <4>1, <4>2, <4>3, <2>1, <1>a
    <3> DEFINE old == Queue(wq, wq_current, n)
               new == Queue(wq', wq_current, n + 1)
    <3>4. wq' \in Rings /\ Run(wq', wq_current, n + 1) /\ new = Append(old, p)
      <4>1. wq \in Rings /\ wq' = [wq EXCEPT ![SlotAfter(wq_current, n)] = p]
        BY <2>1, <3>1, <1>t DEF RingTypes
      <4> QED BY <4>1, <3>1, <3>3, RunGrows
    <3>5. Ring = old /\ old \in Seq(Packets) /\ Len(old) = n
      <4>1. wq \in Rings /\ wq_current \in Index
        BY <1>t DEF RingTypes
      <4> QED BY <4>1, <3>1, <1>t, RingFacts, QueueFacts
    <3>6. new \in Seq(Packets) /\ Len(new) = n + 1 /\ Head(new) = wq'[wq_current]
      BY <3>3, <3>4, QueueFacts
    <3>7. wq_current' = wq_current
      <4>1. wq_current \in Nat /\ wq_current < Slots
        BY <3>3, <1>a DEF Index
      <4>2. NextWrite(wq_current) => wq_current' = wq_current
        BY <4>1, <1>a DEF NextWrite
      <4> QED BY <2>1, <4>2
    <3>8. Slot' = SlotAfter(wq_current, n + 1)
      <4>1. Slot \in Index /\ Slot \in Nat /\ Slot < Slots
        BY <1>t, <1>a, SlotInRing DEF Index
      <4>2. Slot' = SlotAfter(Slot, 1)
        BY <2>1, <4>1, <1>a DEF Slot, SlotAfter, Index
      <4>3. SlotAfter(wq_current, n + 1) = SlotAfter(SlotAfter(wq_current, n), 1)
        BY <3>3, SlotFacts
      <4> QED BY <4>2, <4>3, <3>1
    <3>9. Ring' = new
      <4>1. (CHOOSE m \in Filled' : TRUE) = n + 1
        BY <3>3, <3>4, <3>7, FilledFacts DEF Filled, At
      <4> QED BY <4>1, <3>7 DEF Ring, At, Queue
    <3>10. CASE operation
      <4>1. IsWritting = {TRUE}
        BY <3>10, <1>t DEF IsWritting, RingTypes
      <4>2. UNCHANGED <<operation, writes, stream>>
        BY <2>1, <4>1
      <4>3. rest = Tail(old) /\ old # <<>>
        BY <2>3, <2>8, <3>1, <3>3, <3>5, <3>10 DEF Unwritten
      <4>4. Append(rest, p) = Tail(new)
        BY <3>4, <3>5, <4>3, HeadTailAppend
      <4> HIDE DEF new, old
      <4>5. Unwritten' = Append(rest, p)
        BY <3>9, <4>2, <4>4, <3>10 DEF Unwritten
      <4>6. Passed' = Passed
        BY <4>2, <2>1 DEF Passed
      <4>7. FlowInv'
        BY <2>4, <2>5, <2>6, <4>5, <4>6 DEF FlowInv
      <4>8. operation' /\ n + 1 > 0 /\ writes' = (IF cpc' = "written" THEN 0 ELSE 1)
        BY <2>1, <3>2, <3>3, <3>10, <4>2
      <4>9. RingInv'
        BY <3>3, <3>4, <3>7, <3>8, <4>8 DEF RingInv
      <4> QED BY <4>7, <4>9
    <3>11. CASE ~operation
      <4>1. IsWritting = {FALSE} /\ writes = 0 /\ cpc = "idle"
        BY <3>2, <3>11, <1>t DEF IsWritting, RingTypes
      <4>2. NextWrite(wq_current)
        BY <2>1, <4>1
      <4>3. n = 0
        BY <3>1, <3>3, <3>11
      <4>4. new # <<>> /\ wq'[wq_current] \in Packets
        <5>1. new[1] \in Packets /\ Head(new) = new[1]
          BY <3>6, <4>3
        <5> QED BY <3>6, <4>3, <5>1
      <4>5. operation' /\ writes' = 1 /\ stream' = Append(stream, wq'[wq_current])
        BY <4>1, <4>2, <4>4, <3>7, <2>8, <1>a DEF NextWrite
      <4>6. rest = <<>> /\ old = <<>>
        <5>1. old = <<>>
          BY <3>5, <4>3
        <5>2. rest = old
          BY <2>3, <2>8, <3>5, <3>11 DEF Unwritten
        <5> QED BY <5>1, <5>2
      <4>7. Append(rest, p) = new
        BY <3>4, <4>6
      <4> HIDE DEF new, old
      <4>8. accepted' = ((received \o chunk.packets) \o Append(stream, Head(new))) \o Tail(new)
        <5>1. accepted' = ((received \o chunk.packets) \o stream) \o new
          BY <2>4, <2>5, <4>7
        <5>2. new \in Seq(Packets) /\ new # <<>>
          BY <3>6, <4>4
        <5>s. stream \in Seq(Packets)
          BY <1>s
        <5>3. ASSUME NEW x \in Seq(Packets)
              PROVE  (x \o stream) \o new = (x \o Append(stream, Head(new))) \o Tail(new)
          BY <5>2, <5>s, MoveOne
        <5>4. ((received \o chunk.packets) \o stream) \o new
                  = ((received \o chunk.packets) \o Append(stream, Head(new))) \o Tail(new)
          BY <5>3, <1>s
        <5> QED BY <5>1, <5>4
      <4>9. accepted' = Passed' \o Tail(new) /\ Unwritten' = Tail(new)
        BY <4>8, <4>5, <3>6, <3>9, <2>1 DEF Passed, Unwritten
      <4>10. Tail(new) \in Seq(Packets)
        BY <3>6, <4>4, HeadTailProperties
      <4>11. FlowInv'
        BY <2>5, <2>6, <4>9, <4>10 DEF FlowInv
      <4>12. operation' /\ n + 1 > 0 /\ writes' = (IF cpc' = "written" THEN 0 ELSE 1)
        BY <2>1, <3>3, <4>1, <4>5
      <4>13. RingInv'
        BY <3>3, <3>4, <3>7, <3>8, <4>12 DEF RingInv
      <4> QED BY <4>11, <4>13
    <3> QED BY <3>10, <3>11
  <2> QED BY <2>7, <2>8
<1>5. CASE Written
  <2>1. /\ cpc = "written" /\ spc = "idle" /\ closed # "sender"
        /\ wq' = [wq EXCEPT ![wq_current] = Empty] /\ cpc' = "idle"
        /\ NextWrite(wq_current + 1)
        /\ UNCHANGED <<wq_count, spc, lost, overrun, closed, accepted, received, chunk, taken>>
    BY <1>5 DEF Written, ClearWritten, receiver, NextWrite
  <2>2. SUFFICES ASSUME Untroubled PROVE RingInv' /\ FlowInv'
    BY <2>1 DEF RingInv, FlowInv, Untroubled
  <2>3. PICK rest \in Seq(Packets) : /\ accepted = Passed \o rest
                                     /\ closed = Nobody => rest = Unwritten
    BY <2>2, <1>t DEF FlowInv
  <2>4. (chunk # None => chunk.kind \in {"whole", "full"}) /\ (taken # 0 => chunk.kind = "full")
    BY <2>2, <1>t DEF FlowInv
  <2>5. CASE closed # Nobody
    <3>1. stream' = stream /\ closed' # Nobody
      BY <2>1, <2>5 DEF NextWrite
    <3>2. Passed' = Passed
      BY <3>1, <2>1 DEF Passed
    <3> QED BY <3>1, <3>2, <2>1, <2>3, <2>4 DEF FlowInv, RingInv
  <2>6. CASE closed = Nobody
    <3>1. PICK n \in 0 .. Slots : /\ Run(wq, wq_current, n)
                                  /\ Slot = SlotAfter(wq_current, n)
                                  /\ operation <=> n > 0
      BY <2>2, <2>6, <1>t DEF RingInv
    <3>2. operation /\ writes = 0
      BY <2>1, <2>2, <2>6, <1>t DEF RingInv
    <3>3. /\ n \in 1 .. Slots /\ n \in Nat /\ n - 1 \in 0 .. Slots /\ n - 1 \in 0 .. Slots - 1
          /\ wq_current \in Index /\ wq \in Rings
      BY <3>1, <3>2, <1>a, <1>t DEF RingTypes
    <3> DEFINE old == Queue(wq, wq_current, n)
               new == Queue(wq', wq_current', n - 1)
    <3>4. wq_current' = SlotAfter(wq_current, 1)
      <4>1. wq_current \in Nat /\ wq_current < Slots
        BY <3>3, <1>a DEF Index
      <4>2. wq_current' = IF wq_current + 1 >= Slots THEN 0 ELSE wq_current + 1
        BY <2>1 DEF NextWrite
      <4> QED BY <4>1, <4>2, <1>a DEF SlotAfter
    <3>5. wq' \in Rings /\ wq_current' \in Index /\ Run(wq', wq_current', n - 1) /\ new = Tail(old)
      BY <2>1, <3>1, <3>3, <3>4, RunShrinks
    <3>6. Ring = old /\ old \in Seq(Packets) /\ Len(old) = n
      BY <3>1, <3>3, <1>t, RingFacts, QueueFacts
    <3>7. /\ new \in Seq(Packets) /\ Len(new) = n - 1
          /\ n - 1 > 0 => Head(new) = wq'[wq_current']
      BY <3>3, <3>5, QueueFacts
    <3>8. Slot' = SlotAfter(wq_current', n - 1)
      <4>1. Slot' = Slot
        BY <2>1 DEF Slot
      <4>2. SlotAfter(wq_current, (n - 1) + 1) = SlotAfter(SlotAfter(wq_current, 1), n - 1)
        BY <3>3, SlotFacts
      <4>3. (n - 1) + 1 = n
        BY <3>3
      <4> QED BY <4>1, <4>2, <4>3, <3>1, <3>4
    <3>9. Ring' = new
      <4>1. (CHOOSE m \in Filled' : TRUE) = n - 1
        BY <3>3, <3>5, FilledFacts DEF Filled, At
      <4> QED BY <4>1 DEF Ring, At, Queue
    <3>10. rest = new
      BY <2>3, <2>6, <3>2, <3>5, <3>6 DEF Unwritten
    <3>11. wq'[wq_current'] # Empty <=> n - 1 > 0
      <4>1. SlotAfter(wq_current', 0) = wq_current' /\ 0 \in 0 .. Slots - 1
        BY <3>5, <1>a, SlotFacts
      <4> QED BY <4>1, <3>5, <3>3 DEF Run
    <3> HIDE DEF new, old
    <3>12. CASE n - 1 > 0
      <4>1. operation' /\ writes' = 1 /\ stream' = Append(stream, Head(new))
        BY <2>1, <2>6, <3>2, <3>7, <3>11, <3>12 DEF NextWrite
      <4>2. new # <<>>
        BY <3>7, <3>12
      <4>3. accepted = ((received \o chunk.packets) \o stream) \o new
        BY <2>3, <3>10 DEF Passed
      <4>s. stream \in Seq(Packets)
        BY <1>s
      <4>4. ASSUME NEW x \in Seq(Packets)
            PROVE  (x \o stream) \o new = (x \o Append(stream, Head(new))) \o Tail(new)
        BY <3>7, <4>2, <4>s, MoveOne
      <4>5. ((received \o chunk.packets) \o stream) \o new
                = ((received \o chunk.packets) \o Append(stream, Head(new))) \o Tail(new)
        BY <4>4, <1>s
      <4>6. accepted' = Passed' \o Tail(new)
        BY <4>1, <4>3, <4>5, <2>1 DEF Passed
      <4>7. Unwritten' = Tail(new) /\ Tail(new) \in Seq(Packets)
        BY <4>1, <4>2, <3>7, <3>9, HeadTailProperties DEF Unwritten
      <4>8. FlowInv'
        BY <2>1, <2>4, <4>6, <4>7 DEF FlowInv
      <4>9. operation' /\ writes' = (IF cpc' = "written" THEN 0 ELSE 1)
        BY <2>1, <4>1
      <4>10. RingInv'
        BY <3>3, <3>5, <3>8, <3>12, <4>9 DEF RingInv
      <4> QED BY <4>8, <4>10
    <3>13. CASE ~(n - 1 > 0)
      <4>1. ~operation' /\ writes' = 0 /\ stream' = stream
        BY <2>1, <3>2, <3>11, <3>13 DEF NextWrite
      <4>2. Passed' = Passed /\ Unwritten' = new
        BY <4>1, <2>1, <3>9 DEF Passed, Unwritten
      <4>3. FlowInv'
        BY <2>1, <2>3, <2>4, <3>10, <4>2 DEF FlowInv
      <4>4. RingInv'
        BY <2>1, <3>3, <3>5, <3>8, <3>13, <4>1 DEF RingInv
      <4> QED BY <4>3, <4>4
    <3> QED BY <3>12, <3>13
  <2> QED BY <2>5, <2>6
<1>6. CASE ReadCompletes
  <2>1. /\ chunk = None
        /\ UNCHANGED <<wq, wq_current, wq_count, operation, writes, spc, cpc, lost, overrun, closed>>
        /\ UNCHANGED <<accepted, received>>
    BY <1>6 DEF ReadCompletes, sender, ring
  <2>2. RingInv' /\ Unwritten' = Unwritten /\ (Untroubled' => Untroubled)
    BY <2>1, <1>q
  <2>3. SUFFICES ASSUME Untroubled PROVE FlowInv'
    BY <2>2 DEF FlowInv
  <2>4. taken = 0
    BY <2>1, <2>3, <1>n, <1>t DEF FlowInv
  <2>5. PICK rest \in Seq(Packets) : /\ accepted = Passed \o rest
                                     /\ closed = Nobody => rest = Unwritten
    BY <2>3, <1>t DEF FlowInv
  <2>6. Passed = received \o stream
    <3>1. chunk.packets = <<>>
      BY <2>1, <1>n
    <3> QED BY <3>1, <1>s, ConcatEmptySeq DEF Passed
  <2>7. CASE Bytes(stream) - taken < ReadMax
    <3>1. chunk' = [packets |-> stream, kind |-> "whole"] /\ stream' = <<>> /\ taken' = 0
      BY <1>6, <2>4, <2>7 DEF ReadCompletes
    <3>2. Passed' = (received \o stream) \o <<>>
      BY <3>1, <2>1 DEF Passed
    <3>3. received \o stream \in Seq(Packets)
      BY <1>s, ConcatProperties
    <3>4. Passed' = Passed
      BY <3>2, <3>3, <2>6, ConcatEmptySeq
    <3> QED BY <3>1, <3>4, <2>1, <2>2, <2>5 DEF FlowInv
  <2>8. CASE ~(Bytes(stream) - taken < ReadMax)
    <3> DEFINE k == Max(Within(ReadMax))
               a == SubSeq(stream, 1, k)
               b == SubSeq(stream, k + 1, Len(stream))
    <3>1. chunk' = [packets |-> a, kind |-> "full"] /\ stream' = b
      BY <1>6, <2>8 DEF ReadCompletes
    <3>2. k \in 0 .. Len(stream)
      BY <1>t, WithinFacts
    <3> HIDE DEF k
    <3>3. a \in Seq(Packets) /\ b \in Seq(Packets) /\ a \o b = stream
      <4>1. Len(stream) \in Nat /\ k \in Nat /\ k <= Len(stream)
        BY <3>2, <1>s
      <4>2. a \in Seq(Packets) /\ b \in Seq(Packets)
        BY <4>1, <1>s
      <4>3. a \o b = SubSeq(stream, 1, Len(stream))
        <5>1. 1 \in 1 .. Len(stream) + 1 /\ k \in 1 - 1 .. Len(stream) /\ Len(stream) \in k .. Len(stream)
          BY <4>1
        <5> QED BY <5>1, <1>s, ConcatAdjacentSubSeq
      <4>4. SubSeq(stream, 1, Len(stream)) = stream
        BY <1>s, SubSeqFull
      <4> QED BY <4>2, <4>3, <4>4
    <3> HIDE DEF a, b
    <3>4. Passed' = (received \o a) \o b
      BY <3>1, <2>1 DEF Passed
    <3>s. received \in Seq(Packets) /\ a \in Seq(Packets) /\ b \in Seq(Packets)
      BY <3>3, <1>s
    <3>5. (received \o a) \o b = received \o (a \o b)
      BY SMTT(30), <3>s, Regroup
    <3>6. Passed' = Passed
      BY <3>3, <3>4, <3>5, <2>6
    <3> QED BY <3>1, <3>6, <2>1, <2>2, <2>5 DEF FlowInv
  <2> QED BY <2>2, <2>7, <2>8
<1>7. CASE OnRead
  <2>1. /\ chunk # None /\ chunk' = None
        /\ received' = (IF chunk.kind = "whole" THEN received \o Split(chunk.packets) ELSE received)
        /\ overrun' = (overrun \/ chunk.kind = "full")
        /\ UNCHANGED <<wq, wq_current, wq_count, operation, writes, spc, cpc, lost, closed>>
        /\ UNCHANGED <<accepted, stream, taken>>
    BY <1>7 DEF OnRead, sender, ring, pipe
  <2>2. overrun => overrun'
    BY <2>1, <1>t, <1>p DEF EndTypes
  <2>3. RingInv' /\ Unwritten' = Unwritten /\ (Untroubled' => Untroubled)
    BY <2>1, <2>2, <1>q
  <2>4. SUFFICES ASSUME Untroubled, Untroubled' PROVE FlowInv'
    BY <2>3 DEF FlowInv
  <2>5. chunk.kind = "whole" /\ taken = 0
    <3>1. ~overrun'
      BY <2>4 DEF Untroubled
    <3>2. chunk.kind # "full"
      BY <2>1, <3>1
    <3> QED BY <3>2, <2>1, <2>4, <1>t DEF FlowInv
  <2>6. received' = received \o chunk.packets
    BY <2>1, <2>5, <1>s, SplitWhole
  <2>7. Passed' = Passed
    <3>1. Passed' = (received' \o <<>>) \o stream
      BY <2>1, <1>n DEF Passed
    <3>2. received' \o <<>> = received'
      BY <2>6, <1>s, ConcatEmptySeq
    <3> QED BY <3>1, <3>2, <2>6 DEF Passed
  <2>8. PICK rest \in Seq(Packets) : /\ accepted = Passed \o rest
                                     /\ closed = Nobody => rest = Unwritten
    BY <2>4, <1>t DEF FlowInv
  <2>9. FlowInv'
    BY <2>1, <2>3, <2>5, <2>7, <2>8 DEF FlowInv
  <2> QED BY <2>3, <2>9
<1>8. ASSUME NEW e \in Ends, Close(e) PROVE RingInv' /\ FlowInv'
  <2>1. /\ closed' # Nobody /\ stream' \in {stream, <<>>} /\ taken' \in {taken, 0}
        /\ UNCHANGED <<wq, wq_current, wq_count, operation, writes, spc, cpc, lost, overrun>>
        /\ UNCHANGED <<accepted, received, chunk>>
    BY <1>8, <1>a DEF Close, sender, ring, receiver
  <2>2. RingInv' /\ (Untroubled' => Untroubled)
    BY <2>1, <1>q
  <2>3. SUFFICES ASSUME Untroubled PROVE FlowInv'
    BY <2>2 DEF FlowInv
  <2>4. PICK rest \in Seq(Packets) : accepted = Passed \o rest
    BY <2>3, <1>t DEF FlowInv
  <2>5. (chunk # None => chunk.kind \in {"whole", "full"}) /\ (taken # 0 => chunk.kind = "full")
    BY <2>3, <1>t DEF FlowInv
  <2>6. \E more \in Seq(Packets) : accepted = Passed' \o more
    <3>1. CASE stream' = stream
      <4>1. Passed' = Passed
        BY <2>1, <3>1 DEF Passed
      <4> QED BY <4>1, <2>4
    <3>2. CASE stream' = <<>>
      <4>1. Passed' = (received \o chunk.packets) \o <<>>
        BY <2>1, <3>2 DEF Passed
      <4>2. Passed' = received \o chunk.packets
        BY <4>1, <1>s, ConcatEmptySeq
      <4>s. stream \in Seq(Packets)
        BY <1>s
      <4>x. ASSUME NEW x \in Seq(Packets) PROVE (x \o stream) \o rest = x \o (stream \o rest)
        BY SMTT(30), <4>s, Regroup
      <4>3. ((received \o chunk.packets) \o stream) \o rest
                = (received \o chunk.packets) \o (stream \o rest)
        BY <4>x, <1>s
      <4>4. stream \o rest \in Seq(Packets)
        BY <1>s, ConcatProperties
      <4> QED BY <2>4, <4>2, <4>3, <4>4 DEF Passed
    <3> QED BY <2>1, <3>1, <3>2
  <2>7. FlowInv'
    BY <2>1, <2>5, <2>6 DEF FlowInv
  <2> QED BY <2>2, <2>7
<1> QED BY <1>1, <1>2, <1>3, <1>4, <1>5, <1>6, <1>7, <1>8 DEF Next

\* At first the ring is empty: the run from the current slot on has no packets.
LEMMA InitIInv == Init => IInv
<1> SUFFICES ASSUME Init PROVE IInv
  OBVIOUS
<1>a. Slots \in Nat /\ Slots > 0 /\ 0 \in Index /\ 0 \in 0 .. Slots /\ Nobody \notin Ends
  BY PipeAssumption DEF Index, Ends
<1>e. <<>> \in Seq(Packets)
  OBVIOUS
<1>n. None.packets = <<>> /\ None.kind = "none" /\ None \in Chunks
  BY <1>e DEF None, Chunks
<1>1. RingTypes
  BY <1>a DEF Init, RingTypes, Rings
<1>2. StreamTypes /\ EndTypes
  BY <1>e, <1>n DEF Init, StreamTypes, EndTypes
<1>3. Run(wq, wq_current, 0)
  <2>1. wq[SlotAfter(0, 0)] = Empty
    BY <1>a, SlotFacts DEF Init
  <2> QED BY <2>1, <1>a DEF Init, Run
<1>4. RingInv
  <2>1. Slot = 0 /\ SlotAfter(wq_current, 0) = 0
    BY <1>a, SlotFacts DEF Init, Slot, Index
  <2> QED BY <1>a, <1>3, <2>1 DEF Init, RingInv
<1>5. Ring = <<>>
  <2>1. Ring = Queue(wq, wq_current, 0)
    BY <1>1, <1>3, <1>a, RingFacts
  <2>2. Len(Queue(wq, wq_current, 0)) = 0 /\ Queue(wq, wq_current, 0) \in Seq(Packets)
    BY <1>1, <1>3, <1>a, QueueFacts DEF RingTypes
  <2> QED BY <2>1, <2>2
<1>6. FlowInv
  <2>1. Unwritten = <<>>
    BY <1>5 DEF Init, Unwritten
  <2>2. accepted = Passed \o <<>>
    BY <1>n DEF Init, Passed
  <2> QED BY <2>1, <2>2, <1>e, <1>n DEF Init, FlowInv
<1> QED BY <1>1, <1>2, <1>4, <1>6, TypeParts DEF IInv

\* Every step keeps the invariant.
LEMMA NextIInv == IInv /\ [Next]_vars => IInv'
<1> SUFFICES ASSUME IInv, [Next]_vars PROVE IInv'
  OBVIOUS
<1>1. RingTypes' /\ StreamTypes' /\ EndTypes'
  BY TypesKept DEF IInv
<1>2. TypeOK'
  BY <1>1 DEF TypeOK, RingTypes, StreamTypes, EndTypes, Rings, Chunks
<1>3. RingInv' /\ FlowInv'
  BY PacketsKept
<1> QED BY <1>2, <1>3 DEF IInv
----------------------------------------------------------------------------
(* What holds in every execution.                                          *)

\* The invariant: types, where the ring stands and where the packets are.
THEOREM Invariant == Spec => []IInv
<1>1. Init => IInv
  BY InitIInv
<1>2. IInv /\ [Next]_vars => IInv'
  BY NextIInv
<1> QED BY <1>1, <1>2, PTL DEF Spec

\* Every variable stays within its type; above all, the current slot of the
\* ring is one of its slots after any number of writes and completions.
THEOREM Types == Spec => []TypeOK
<1>1. IInv => TypeOK
  BY DEF IInv
<1> QED BY <1>1, Invariant, PTL

\* What a sequence begins with.
LEMMA FirstOfFour ==
  ASSUME NEW a \in Seq(Packets), NEW b \in Seq(Packets), NEW c \in Seq(Packets),
         NEW d \in Seq(Packets)
  PROVE  IsPrefix(a, ((a \o b) \o c) \o d)
<1> DEFINE s == ((a \o b) \o c) \o d
           e == (b \o c) \o d
<1>1. /\ b \o c \in Seq(Packets) /\ a \o b \in Seq(Packets)
      /\ e \in Seq(Packets)
  OBVIOUS
<1>2. (a \o b) \o c = a \o (b \o c)
  <2> HIDE DEF s, e
  <2> QED BY SMTT(30), Regroup
<1>3. (a \o (b \o c)) \o d = a \o ((b \o c) \o d)
  <2> DEFINE bc == b \o c
  <2>1. bc \in Seq(Packets)
    BY <1>1
  <2> HIDE DEF s, e, bc
  <2>2. (a \o bc) \o d = a \o (bc \o d)
    BY SMTT(30), <2>1, Regroup
  <2> QED BY <2>2 DEF bc
<1>4. s = a \o e
  BY <1>2, <1>3
<1> HIDE DEF s, e
<1>5. /\ Len(s) = Len(a) + Len(e) /\ Len(a) \in Nat /\ Len(e) \in Nat
      /\ \A i \in 1 .. Len(a) : s[i] = a[i]
  BY <1>1, <1>4, ConcatProperties
<1>6. SubSeq(s, 1, Len(a)) = SubSeq(a, 1, Len(a))
  BY <1>5
<1>7. IsPrefix(a, s)
  BY <1>5, <1>6 DEF IsPrefix
<1> QED BY <1>7 DEF s

\* For rings of any size and any packets: until LOSTDATA is reported or a read
\* fills the buffer, the receiver has the first of the packets write has taken, in
\* order; while neither end has closed, the others are in its buffer, in the pipe
\* and in the ring, each once.
THEOREM NothingIsLost == Spec => []NothingLost
<1>1. IInv => NothingLost
  <2> SUFFICES ASSUME IInv, Untroubled PROVE NothingLost
    BY DEF NothingLost
  <2>t. /\ received \in Seq(Packets) /\ chunk.packets \in Seq(Packets)
        /\ stream \in Seq(Packets) /\ accepted \in Seq(Packets)
    BY TypeParts DEF IInv, StreamTypes, EndTypes, Chunks
  <2>1. PICK rest \in Seq(Packets) : /\ accepted = Passed \o rest
                                     /\ closed = Nobody => rest = Unwritten
    BY DEF IInv, FlowInv
  <2>2. IsPrefix(received, accepted)
    <3>1. accepted = ((received \o chunk.packets) \o stream) \o rest
      BY <2>1 DEF Passed
    <3>2. IsPrefix(received, ((received \o chunk.packets) \o stream) \o rest)
      BY <2>t, FirstOfFour
    <3> QED BY <3>1, <3>2
  <2>3. closed = Nobody => accepted = Passed \o Unwritten
    BY <2>1
  <2> QED BY <2>2, <2>3 DEF NothingLost, Passed, Unwritten
<1> QED BY <1>1, Invariant, PTL
=============================================================================
