---------------------------- MODULE SocketsProofs ----------------------------
(***************************************************************************)
(* The dispatcher's list holds the open sockets, once each, a wait never    *)
(* overlooks what has come for one of them, and packets are signalled       *)
(* whole, unchanged and in order: for any number of sockets, any lengths of *)
(* packets and any cuts of what is sent.                                    *)
(***************************************************************************)
EXTENDS Sockets, SequenceTheorems, WellFoundedInduction, NaturalsInduction, TLAPS

Bytes == 0 .. Radix - 1
----------------------------------------------------------------------------
(* Functions that are defined by recursion.                                *)

\* A set of natural numbers that is not empty has a least element.
LEMMA LeastNat ==
  ASSUME NEW S \in SUBSET Nat, S # {}
  PROVE  \E x \in S : \A y \in S : x <= y
<1> DEFINE Less == {ss \in Nat \X Nat : ss[1] < ss[2]}
<1>1. IsWellFoundedOn(Less, Nat)
  BY NatLessThanWellFounded DEF OpToRel
<1> HIDE DEF Less
<1>2. PICK x \in S : \A y \in S : ~(<<y, x>> \in Less)
  BY <1>1, WFMin
<1>3. ASSUME NEW y \in S PROVE x <= y
  <2>1. x \in Nat /\ y \in Nat /\ ~(<<y, x>> \in Less)
    BY <1>2
  <2>2. ~(y < x)
    BY <2>1 DEF Less
  <2> QED BY <2>1, <2>2
<1> QED BY <1>3

\* What holds of 0 and goes from each number to the next holds up to any bound.
LEMMA Upward ==
  ASSUME NEW n \in Nat, NEW P, 0 \in P, \A k \in 1 .. n : k - 1 \in P => k \in P
  PROVE  \A k \in 0 .. n : k \in P
<1> DEFINE Bad == {k \in 0 .. n : k \notin P}
<1>1. SUFFICES ASSUME Bad # {} PROVE FALSE
  OBVIOUS
<1>2. PICK k \in Bad : \A m \in Bad : k <= m
  <2>1. Bad \in SUBSET Nat
    OBVIOUS
  <2> HIDE DEF Bad
  <2> QED BY <1>1, <2>1, LeastNat
<1>3. k \in 0 .. n /\ k \notin P /\ k # 0
  BY <1>2
<1>4. k \in 1 .. n /\ k - 1 \in 0 .. n /\ ~(k <= k - 1)
  BY <1>3
<1>5. k - 1 \notin Bad
  <2> HIDE DEF Bad
  <2> QED BY <1>2, <1>4
<1>6. k - 1 \in P
  BY <1>4, <1>5
<1> QED BY <1>3, <1>4, <1>6

Steps(g, n, S, a, F) ==
    g \in [0 .. n -> S] /\ g[0] = a /\ \A k \in 1 .. n : g[k] = F[<<k, g[k - 1]>>]

\* A sequence of steps, each a function of the one before it, exists.
LEMMA StepsExist ==
  ASSUME NEW n \in Nat, NEW S, NEW a \in S, NEW F \in [(1 .. n) \X S -> S]
  PROVE  \E g : Steps(g, n, S, a, F)
<1> DEFINE Upto(g, m) == g[0] = a /\ \A k \in 1 .. m : g[k] = F[<<k, g[k - 1]>>]
           P == {m \in 0 .. n : \E g \in [0 .. m -> S] : Upto(g, m)}
<1>1. 0 \in P
  <2>1. [k \in 0 .. 0 |-> a] \in [0 .. 0 -> S] /\ Upto([k \in 0 .. 0 |-> a], 0)
    OBVIOUS
  <2>2. 0 \in 0 .. n
    OBVIOUS
  <2> QED BY <2>1, <2>2
<1>2. ASSUME NEW m \in 1 .. n, m - 1 \in P PROVE m \in P
  <2>1. PICK g \in [0 .. m - 1 -> S] : Upto(g, m - 1)
    BY <1>2
  <2> DEFINE b == F[<<m, g[m - 1]>>]
             h == [k \in 0 .. m |-> IF k = m THEN b ELSE g[k]]
  <2>2. g[m - 1] \in S
    BY <2>1
  <2>3. b \in S
    BY <2>2
  <2>4. h \in [0 .. m -> S]
    <3> HIDE DEF b
    <3> QED BY <2>1, <2>3
  <2>5. h[0] = a
    BY <2>1
  <2>6. ASSUME NEW k \in 1 .. m PROVE h[k] = F[<<k, h[k - 1]>>]
    <3>1. CASE k = m
      <4>1. h[m] = b /\ h[m - 1] = g[m - 1]
        <5> HIDE DEF b
        <5> QED OBVIOUS
      <4> QED BY <3>1, <4>1
    <3>2. CASE k # m
      <4>1. k \in 1 .. m - 1 /\ h[k] = g[k] /\ h[k - 1] = g[k - 1]
        <5> HIDE DEF b
        <5> QED BY <3>2
      <4> QED BY <4>1, <2>1
    <3> QED BY <3>1, <3>2
  <2> HIDE DEF h
  <2>7. Upto(h, m)
    BY <2>5, <2>6
  <2>8. m \in 0 .. n
    OBVIOUS
  <2> QED BY <2>4, <2>7, <2>8
<1>3. n \in P
  <2> HIDE DEF P
  <2>1. \A k \in 0 .. n : k \in P
    BY <1>1, <1>2, Upward
  <2> QED BY <2>1
<1> QED BY <1>3 DEF Steps
----------------------------------------------------------------------------
(* The invariant.                                                          *)

Events == {"read", "write", "connect", "close"}

Records == [open : BOOLEAN, mState : {"CLOSED", "CONNECTING", "CONNECTED"},
            mEnabledEvents : SUBSET Events, index : {-1, 0}, mask : SUBSET Events,
            mInBuf : Seq(Bytes), mOutBuf : Seq(Bytes),
            link : {"none", "pending", "up", "failed"}, rbuf : Seq(Bytes), fin : BOOLEAN,
            wire : Seq(Seq(Bytes)), got : Seq(Seq(Bytes)), clean : BOOLEAN, torn : BOOLEAN]

Loops == [at : {"idle", "wait", "pass"}, i : Nat, todo : SUBSET Events,
          cur : Sockets \union {Nobody}, called : BOOLEAN]

TypeOK ==
    /\ mDispatchers \in Seq(Sockets) /\ loop \in Loops /\ st \in [Sockets -> Records]
    /\ sends \in Nat /\ connects \in Nat /\ closes \in Nat

\* A connection that is under way or up, and that no event of an earlier one can mislead.
Live(x) == x.link \in {"pending", "up"} /\ ~x.torn

\* Where a connection can be, and that it is read from.
Sound(x) ==
    /\ ~x.open => x.link = "none" /\ x.rbuf = <<>>
    /\ x.rbuf # <<>> => x.link = "up"
    /\ x.link # "up" /\ x.open => ~x.fin
    /\ Len(x.mInBuf) < BufSize
    /\ Live(x) => "read" \in x.mEnabledEvents

\* While a read is still to be told to the socket of the pass, there is something to read.
Told(l, s, x) == l.cur = s /\ "read" \in l.todo /\ Live(x) => x.rbuf # <<>>

\* In a wait each open socket is armed with what it asks for.
Armed(l, x) == l.at = "wait" /\ x.open /\ "read" \in x.mEnabledEvents => "read" \in x.mask

\* Where the loop stands.
LoopInv(l) ==
    /\ l.at # "pass" => l.todo = {} /\ ~l.called
    /\ l.at = "pass" => l.i >= 1
    /\ l.todo # {} => l.cur \in Sockets

\* What holds of the sockets; connections are joined in pairs.
SocketInv(l, t) ==
    /\ \A s \in Sockets : Sound(t[s]) /\ Told(l, s, t[s]) /\ Armed(l, t[s])
    /\ \A s \in Sockets : Joined(t, s) => Joined(t, Peer(s))

IInv == TypeOK /\ Registered /\ LoopInv(loop) /\ SocketInv(loop, st)
----------------------------------------------------------------------------
(* Lengths and packets.                                                    *)

\* A product of positive numbers is positive.
LEMMA Positive ==
  ASSUME NEW r \in Nat \ {0}, NEW w \in Nat \ {0}
  PROVE  r * w \in Nat \ {0}
OBVIOUS

\* One more digit leaves a number.
LEMMA DigitMore ==
  ASSUME NEW r \in Nat \ {0}, NEW x \in Nat, NEW y \in Nat
  PROVE  x * r + y \in Nat
OBVIOUS

\* A number with a digit more is less than what the next digit counts.
LEMMA DigitLess ==
  ASSUME NEW r \in Nat \ {0}, NEW w \in Nat, NEW x \in Nat, NEW y \in Nat, x < w, y < r
  PROVE  x * r + y < r * w
<1>1. w - x - 1 \in Nat
  OBVIOUS
<1>2. (w - x - 1) * r \in Nat
  BY <1>1
<1>3. (w - x - 1) * r = r * w - x * r - r
  OBVIOUS
<1>4. r * w \in Nat /\ x * r \in Nat
  OBVIOUS
<1> QED BY <1>2, <1>3, <1>4

\* What a digit counts is Radix times what the next one does, and never 0.
LEMMA WeightFacts ==
  /\ \A k \in 0 .. PktLenSize : Weight[k] \in Nat \ {0}
  /\ Weight[0] = 1 /\ \A k \in 1 .. PktLenSize : Weight[k] = Radix * Weight[k - 1]
  /\ MaxPacketSize \in Nat \ {0} /\ BufSize \in Nat /\ BufSize > PktLenSize
<1> DEFINE n == PktLenSize
           S == Nat \ {0}
           F == [p \in (1 .. n) \X S |-> Radix * p[2]]
           Step(f) == [k \in 0 .. n |-> IF k = 0 THEN 1 ELSE Radix * f[k - 1]]
           W == CHOOSE f : f = Step(f)
<1>a. n \in Nat \ {0} /\ Radix \in Nat \ {0}
  BY SocketsAssumption
<1>1. F \in [(1 .. n) \X S -> S] /\ 1 \in S
  BY <1>a, Positive
<1>2. PICK g : Steps(g, n, S, 1, F)
  <2>1. n \in Nat
    BY <1>a
  <2> HIDE DEF F, S, n
  <2> QED BY <1>1, <2>1, StepsExist
<1>3. \A k \in 1 .. n : g[k] = Radix * g[k - 1]
  <2>1. ASSUME NEW k \in 1 .. n PROVE g[k] = Radix * g[k - 1]
    <3>1. g[k - 1] \in S
      BY <1>a, <1>2 DEF Steps
    <3> QED BY <1>2, <3>1 DEF Steps
  <2> QED BY <2>1
<1>4. g = Step(g)
  BY <1>2, <1>3, <1>a DEF Steps
<1>5. W = Step(W)
  <2> HIDE DEF Step
  <2> QED BY <1>4
<1>6. Weight = W
  BY DEF Weight
<1> HIDE DEF W, F
<1>7. W[0] = 1 /\ \A k \in 1 .. n : W[k] = Radix * W[k - 1]
  BY <1>5, <1>a
<1>8. \A k \in 0 .. n : W[k] \in S
  <2> DEFINE P == {k \in 0 .. n : W[k] \in S}
  <2>1. 0 \in P
    BY <1>a, <1>7
  <2>2. ASSUME NEW k \in 1 .. n, k - 1 \in P PROVE k \in P
    <3>1. W[k - 1] \in S /\ W[k] = Radix * W[k - 1] /\ k \in 0 .. n
      BY <2>2, <1>7, <1>a
    <3>2. W[k] \in S
      BY <3>1, <1>a, Positive
    <3> QED BY <3>1, <3>2
  <2>3. \A k \in 0 .. n : k \in P
    <3>1. n \in Nat
      BY <1>a
    <3> HIDE DEF P, n
    <3> QED BY <2>1, <2>2, <3>1, Upward
  <2> QED BY <2>3
<1>9. W[n] \in Nat \ {0}
  BY <1>8, <1>a
<1> QED BY <1>6, <1>7, <1>8, <1>9, <1>a DEF MaxPacketSize, BufSize

\* The length of a packet has PktLenSize digits.
LEMMA DigitsFacts ==
  ASSUME NEW n \in Nat
  PROVE  /\ PacketLength(n) \in Nat
         /\ Digits(n) \in Seq(Bytes) /\ Len(Digits(n)) = PktLenSize
<1>a. PktLenSize \in Nat /\ Radix \in Nat \ {0}
  BY SocketsAssumption
<1>1. PacketLength(n) \in Nat
  BY WeightFacts DEF PacketLength
<1>2. ASSUME NEW i \in 1 .. PktLenSize
      PROVE  (n \div Weight[PktLenSize - i]) % Radix \in Bytes
  <2>1. PktLenSize - i \in 0 .. PktLenSize
    BY <1>a
  <2>2. Weight[PktLenSize - i] \in Nat \ {0}
    BY <2>1, WeightFacts
  <2>3. n \div Weight[PktLenSize - i] \in Nat
    BY <2>2
  <2> QED BY <1>a, <2>3 DEF Bytes
<1>3. Digits(n) \in [1 .. PktLenSize -> Bytes]
  BY <1>2 DEF Digits
<1> HIDE DEF Digits
<1> QED BY <1>1, <1>3, <1>a

\* f counts the number that the first digits stand for, digit by digit.
Counts(d, f) == f[0] = 0 /\ \A k \in 1 .. PktLenSize : f[k] = f[k - 1] * Radix + d[k]

\* The number of a sequence's first digits is reached digit by digit, and is less than
\* what a digit more would count.
LEMMA ValueSteps ==
  ASSUME NEW d \in Seq(Bytes), Len(d) >= PktLenSize
  PROVE  \E f : Counts(d, f) /\ Value(d) = f[PktLenSize]
                /\ \A k \in 0 .. PktLenSize : f[k] \in Nat /\ f[k] < Weight[k]
<1> DEFINE n == PktLenSize
           F == [p \in (1 .. n) \X Nat |-> p[2] * Radix + d[p[1]]]
           Step(f) == [k \in 0 .. n |-> IF k = 0 THEN 0 ELSE f[k - 1] * Radix + d[k]]
           upTo == CHOOSE f : f = Step(f)
<1>a. n \in Nat \ {0} /\ Radix \in Nat \ {0}
  BY SocketsAssumption
<1>d. \A k \in 1 .. n : d[k] \in Nat /\ d[k] < Radix
  BY <1>a DEF Bytes
<1>1. F \in [(1 .. n) \X Nat -> Nat]
  <2>1. ASSUME NEW x \in Nat, NEW k \in 1 .. n PROVE x * Radix + d[k] \in Nat
    BY <1>a, <1>d, DigitMore
  <2> QED BY <2>1
<1>2. PICK g : Steps(g, n, Nat, 0, F)
  <2>1. n \in Nat /\ 0 \in Nat
    BY <1>a
  <2> HIDE DEF F, n
  <2> QED BY <1>1, <2>1, StepsExist
<1>3. \A k \in 1 .. n : g[k] = g[k - 1] * Radix + d[k]
  <2>1. ASSUME NEW k \in 1 .. n PROVE g[k] = g[k - 1] * Radix + d[k]
    <3>1. g[k - 1] \in Nat
      BY <1>a, <1>2 DEF Steps
    <3> QED BY <1>2, <3>1 DEF Steps
  <2> QED BY <2>1
<1>4. g = Step(g)
  BY <1>2, <1>3, <1>a DEF Steps
<1>5. upTo = Step(upTo)
  <2> HIDE DEF Step
  <2> QED BY <1>4
<1>6. Value(d) = upTo[n]
  BY DEF Value
<1> HIDE DEF upTo, F
<1>7. upTo[0] = 0 /\ \A k \in 1 .. n : upTo[k] = upTo[k - 1] * Radix + d[k]
  BY <1>5, <1>a
<1>8. \A k \in 0 .. n : upTo[k] \in Nat /\ upTo[k] < Weight[k]
  <2> DEFINE P == {k \in 0 .. n : upTo[k] \in Nat /\ upTo[k] < Weight[k]}
  <2>1. 0 \in P
    BY <1>a, <1>7, WeightFacts
  <2>2. ASSUME NEW k \in 1 .. n, k - 1 \in P PROVE k \in P
    <3>1. /\ upTo[k - 1] \in Nat /\ upTo[k] = upTo[k - 1] * Radix + d[k] /\ k \in 0 .. n
          /\ d[k] \in Nat /\ d[k] < Radix /\ upTo[k - 1] < Weight[k - 1]
      BY <2>2, <1>7, <1>a, <1>d
    <3>2. Weight[k - 1] \in Nat /\ Weight[k] = Radix * Weight[k - 1]
      <4>1. k - 1 \in 0 .. n
        BY <1>a
      <4> QED BY <4>1, WeightFacts
    <3>3. upTo[k] \in Nat
      BY <3>1, <1>a, DigitMore
    <3>4. upTo[k] < Weight[k]
      BY <3>1, <3>2, <1>a, DigitLess
    <3> QED BY <3>1, <3>3, <3>4
  <2>3. \A k \in 0 .. n : k \in P
    <3>1. n \in Nat
      BY <1>a
    <3> HIDE DEF P, n
    <3> QED BY <2>1, <2>2, <3>1, Upward
  <2> QED BY <2>3
<1> HIDE DEF n
<1>9. Counts(d, upTo)
  BY <1>7 DEF Counts, n
<1> QED BY <1>6, <1>8, <1>9 DEF n

\* The number its first digits give a sequence of bytes.
LEMMA ValueFacts ==
  ASSUME NEW d \in Seq(Bytes), Len(d) >= PktLenSize
  PROVE  Value(d) \in Nat /\ Value(d) < MaxPacketSize
<1>1. PICK f : Value(d) = f[PktLenSize] /\ \A k \in 0 .. PktLenSize : f[k] \in Nat /\ f[k] < Weight[k]
  BY ValueSteps
<1>2. PktLenSize \in 0 .. PktLenSize
  BY SocketsAssumption
<1> QED BY <1>1, <1>2 DEF MaxPacketSize

Parts(n, d, a, e) == n = a * d + e /\ e < d

\* There is one quotient.
LEMMA Quotient ==
  ASSUME NEW n \in Nat, NEW d \in Nat \ {0}, NEW a \in Nat, NEW e \in Nat, Parts(n, d, a, e)
  PROVE  n \div d = a
<1> DEFINE q == n \div d
           m == n % d
<1>0. n = a * d + e /\ e < d
  BY DEF Parts
<1>1. q \in Nat /\ m \in Nat /\ m < d /\ n = q * d + m
  OBVIOUS
<1> HIDE DEF q, m
<1>2. ASSUME NEW x \in Nat, NEW y \in Nat, x < y PROVE x * d + d <= y * d
  <2>1. y - x - 1 \in Nat
    BY <1>2
  <2>2. (y - x - 1) * d \in Nat
    BY <2>1
  <2>3. (y - x - 1) * d = y * d - x * d - d
    OBVIOUS
  <2>4. x * d \in Nat /\ y * d \in Nat
    OBVIOUS
  <2> QED BY <2>2, <2>3, <2>4
<1>p. q * d \in Nat /\ a * d \in Nat
  BY <1>1
<1>3. ~(q < a)
  <2> SUFFICES ASSUME q < a PROVE FALSE
    OBVIOUS
  <2>1. q * d + d <= a * d
    BY <1>1, <1>2
  <2> QED BY <2>1, <1>0, <1>1, <1>p
<1>4. ~(a < q)
  <2> SUFFICES ASSUME a < q PROVE FALSE
    OBVIOUS
  <2>1. a * d + d <= q * d
    BY <1>1, <1>2
  <2> QED BY <2>1, <1>0, <1>1, <1>p
<1>5. q = a
  BY <1>1, <1>3, <1>4
<1> QED BY <1>5 DEF q

\* The number above a digit and the digit make the number from there on.
LEMMA DigitDown ==
  ASSUME NEW n \in Nat, NEW r \in Nat \ {0}, NEW w \in Nat \ {0}
  PROVE  (n \div (r * w)) * r + ((n \div w) % r) = n \div w
<1> DEFINE q == n \div w
           m == n % w
           a == q \div r
           b == q % r
           e == b * w + m
<1>1. q \in Nat /\ m \in Nat /\ m < w /\ n = q * w + m
  OBVIOUS
<1>2. a \in Nat /\ b \in Nat /\ b < r /\ q = a * r + b
  <2> HIDE DEF q
  <2> QED BY <1>1
<1> HIDE DEF q, m, a, b
<1>3. e \in Nat /\ r * w \in Nat \ {0} /\ e < r * w
  <2>1. b * w \in Nat /\ r * w \in Nat \ {0} /\ r - b - 1 \in Nat
    BY <1>2, Positive
  <2>2. (r - b - 1) * w \in Nat
    BY <2>1
  <2>3. (r - b - 1) * w = r * w - b * w - w
    BY <1>2
  <2> QED BY <2>1, <2>2, <2>3, <1>1
<1>4. n = a * (r * w) + e
  <2>1. q * w = (a * r + b) * w
    BY <1>2
  <2>2. (a * r + b) * w = a * (r * w) + b * w
    BY <1>2
  <2> QED BY <1>1, <1>2, <2>1, <2>2
<1> HIDE DEF e
<1>5. n \div (r * w) = a
  <2> DEFINE v == r * w
  <2>1. v \in Nat \ {0} /\ Parts(n, v, a, e)
    BY <1>3, <1>4 DEF Parts
  <2> HIDE DEF v
  <2>2. n \div v = a
    BY <2>1, <1>2, <1>3, Quotient
  <2> QED BY <2>2 DEF v
<1> QED BY <1>2, <1>5 DEF q, b

\* The digits of a length that is less than 64K are read as that length.
LEMMA ValueOfDigits ==
  ASSUME NEW n \in Nat, n < MaxPacketSize, NEW d \in Seq(Bytes), Len(d) >= PktLenSize,
         \A i \in 1 .. PktLenSize : d[i] = Digits(n)[i]
  PROVE  Value(d) = n
<1> DEFINE s == PktLenSize
           P(f) == {k \in 0 .. s : f[k] = n \div Weight[s - k]}
<1>a. s \in Nat \ {0} /\ Radix \in Nat \ {0}
  BY SocketsAssumption
<1>1. PICK f : Counts(d, f) /\ Value(d) = f[s]
  BY ValueSteps
<1>2. 0 \in P(f)
  <2>1. f[0] = 0 /\ Weight[s - 0] = MaxPacketSize
    BY <1>1, <1>a DEF Counts, MaxPacketSize
  <2>2. MaxPacketSize \in Nat \ {0}
    BY WeightFacts
  <2>3. Parts(n, MaxPacketSize, 0, n)
    BY <2>2 DEF Parts
  <2>4. n \div MaxPacketSize = 0
    BY <2>2, <2>3, Quotient
  <2> QED BY <2>1, <2>4, <1>a
<1>3. ASSUME NEW k \in 1 .. s, k - 1 \in P(f) PROVE k \in P(f)
  <2> DEFINE w == Weight[s - k]
  <2>1. f[k - 1] = n \div Weight[s - (k - 1)] /\ f[k] = f[k - 1] * Radix + d[k]
    BY <1>1, <1>3, <1>a DEF Counts
  <2>2. s - k \in 0 .. s /\ s - (k - 1) \in 1 .. s /\ (s - (k - 1)) - 1 = s - k /\ k \in 0 .. s
    BY <1>a
  <2>3. w \in Nat \ {0} /\ Weight[s - (k - 1)] = Radix * w
    BY <2>2, WeightFacts
  <2>4. d[k] = (n \div w) % Radix
    BY DEF Digits
  <2> HIDE DEF w
  <2>5. (n \div (Radix * w)) * Radix + ((n \div w) % Radix) = n \div w
    BY <2>3, <1>a, DigitDown
  <2> DEFINE x == n \div (Radix * w)
             y == (n \div w) % Radix
  <2>6. f[k - 1] = x /\ d[k] = y /\ x * Radix + y = n \div w
    BY <2>1, <2>3, <2>4, <2>5
  <2>x. x \in Nat /\ y \in Nat
    BY <2>3, <1>a, Positive
  <2> HIDE DEF x, y
  <2>7. f[k] = n \div w
    BY <2>1, <2>6, <2>x
  <2> QED BY <2>2, <2>7 DEF w
<1>4. s \in P(f)
  <2>1. \A k \in 0 .. s : k \in P(f)
    <3>1. s \in Nat
      BY <1>a
    <3> HIDE DEF P, s
    <3> QED BY <1>2, <1>3, <3>1, Upward
  <2> QED BY <2>1, <1>a
<1>5. f[s] = n
  <2>1. Weight[s - s] = 1
    BY <1>a, WeightFacts
  <2>2. Parts(n, 1, n, 0)
    BY DEF Parts
  <2>3. n \div 1 = n
    BY <2>2, Quotient
  <2> QED BY <1>4, <2>1, <2>3
<1> QED BY <1>1, <1>5
----------------------------------------------------------------------------
(* What the operations do to a socket.                                     *)

\* All but the input buffer and what has been signalled.
Alike(x, y) ==
    /\ y.open = x.open /\ y.link = x.link /\ y.fin = x.fin /\ y.torn = x.torn
    /\ y.mEnabledEvents = x.mEnabledEvents /\ y.mask = x.mask /\ y.rbuf = x.rbuf
    /\ y.mOutBuf = x.mOutBuf /\ y.wire = x.wire /\ y.clean = x.clean

\* Parts of a sequence of bytes.
LEMMA SubBytes ==
  ASSUME NEW b \in Seq(Bytes), NEW k \in Nat, NEW m \in Nat
  PROVE  /\ k >= 1 /\ m <= Len(b) => SubSeq(b, k, m) \in Seq(Bytes)
         /\ SubSeq(b, k + 1, Len(b)) \in Seq(Bytes)
<1>1. Len(b) \in Nat /\ \A i \in 1 .. Len(b) : b[i] \in Bytes
  OBVIOUS
<1>2. ASSUME k >= 1, m <= Len(b) PROVE SubSeq(b, k, m) \in Seq(Bytes)
  BY <1>1, <1>2, SubSeqProperties
<1>3. SubSeq(b, k + 1, Len(b)) \in Seq(Bytes)
  BY <1>1, SubSeqProperties
<1> QED BY <1>2, <1>3

\* Taking a packet out of the input buffer leaves the events and the connection alone.
LEMMA TakeFacts ==
  ASSUME NEW x \in Records
  PROVE  TakePacket(x) \in Records /\ Alike(x, TakePacket(x))
<1> DEFINE n == PktLenSize + Value(x.mInBuf)
<1>t. x.mInBuf \in Seq(Bytes) /\ Len(x.mInBuf) \in Nat /\ x.got \in Seq(Seq(Bytes))
  BY DEF Records
<1>1. CASE Len(x.mInBuf) < PktLenSize \/ Len(x.mInBuf) < n
  <2>1. TakePacket(x) = x
    BY <1>1 DEF TakePacket
  <2> QED BY <2>1 DEF Alike
<1>2. CASE ~(Len(x.mInBuf) < PktLenSize \/ Len(x.mInBuf) < n)
  <2> DEFINE rest == SubSeq(x.mInBuf, n + 1, Len(x.mInBuf))
             p == SubSeq(x.mInBuf, PktLenSize + 1, n)
  <2>a. PktLenSize \in Nat
    BY SocketsAssumption
  <2>1. Value(x.mInBuf) \in Nat
    BY <1>2, <1>t, <2>a, ValueFacts
  <2>2. n \in Nat /\ n <= Len(x.mInBuf)
    BY <1>2, <1>t, <2>1, <2>a
  <2> HIDE DEF n
  <2>3. rest \in Seq(Bytes) /\ p \in Seq(Bytes)
    BY <1>t, <2>a, <2>2, SubBytes
  <2>4. TakePacket(x) = [x EXCEPT !.mInBuf = rest, !.got = Append(x.got, p)]
    BY <1>2, <1>t DEF TakePacket, n
  <2> HIDE DEF rest, p
  <2>5. Append(x.got, p) \in Seq(Seq(Bytes))
    BY <1>t, <2>3
  <2> QED BY <2>3, <2>4, <2>5 DEF Records, Alike
<1> QED BY <1>1, <1>2

\* processInput takes a packet as often as there are bytes.
LEMMA ProcessSteps ==
  ASSUME NEW x \in Records
  PROVE  \E f : /\ f[0] = x /\ processInput(x) = f[Len(x.mInBuf)]
                /\ \A k \in 1 .. Len(x.mInBuf) : f[k] = TakePacket(f[k - 1])
<1> DEFINE n == Len(x.mInBuf)
           F == [p \in (1 .. n) \X Records |-> TakePacket(p[2])]
           Step(f) == [k \in 0 .. n |-> IF k = 0 THEN x ELSE TakePacket(f[k - 1])]
           after == CHOOSE f : f = Step(f)
<1>a. n \in Nat
  BY DEF Records
<1>s. \A y \in Records : TakePacket(y) \in Records
  BY TakeFacts
<1> HIDE DEF n
<1>1. F \in [(1 .. n) \X Records -> Records]
  BY <1>s
<1> HIDE DEF F
<1>2. PICK g : Steps(g, n, Records, x, F)
  BY <1>1, <1>a, <1>s, StepsExist
<1>3. \A k \in 1 .. n : g[k] = TakePacket(g[k - 1])
  <2>1. ASSUME NEW k \in 1 .. n PROVE g[k] = TakePacket(g[k - 1])
    <3>1. g[k - 1] \in Records
      BY <1>a, <1>2 DEF Steps
    <3>2. F[<<k, g[k - 1]>>] = TakePacket(g[k - 1])
      BY <3>1 DEF F
    <3> QED BY <1>2, <3>2 DEF Steps
  <2> QED BY <2>1
<1>4. g = Step(g)
  BY <1>2, <1>3, <1>a DEF Steps
<1>5. after = Step(after)
  <2> HIDE DEF Step
  <2> QED BY <1>4
<1>6. processInput(x) = after[n]
  BY DEF processInput, n
<1> HIDE DEF after
<1>7. after[0] = x /\ \A k \in 1 .. n : after[k] = TakePacket(after[k - 1])
  BY <1>5, <1>a
<1> QED BY <1>6, <1>7 DEF n

\* What taking a packet keeps, processInput keeps.
LEMMA ProcessStays ==
  ASSUME NEW x \in Records, NEW S, x \in S, \A y \in S : TakePacket(y) \in S
  PROVE  processInput(x) \in S
<1> DEFINE n == Len(x.mInBuf)
<1>a. n \in Nat
  BY DEF Records
<1>1. PICK f : /\ f[0] = x /\ processInput(x) = f[n]
               /\ \A k \in 1 .. n : f[k] = TakePacket(f[k - 1])
  BY ProcessSteps
<1> HIDE DEF n
<1> DEFINE P == {k \in 0 .. n : f[k] \in S}
<1>2. 0 \in P
  BY <1>a, <1>1
<1>3. ASSUME NEW k \in 1 .. n, k - 1 \in P PROVE k \in P
  BY <1>a, <1>1, <1>3
<1>4. \A k \in 0 .. n : k \in P
  <2> HIDE DEF P
  <2> QED BY <1>2, <1>3, <1>a, Upward
<1> QED BY <1>1, <1>4, <1>a

\* Taking packets leaves a socket.
LEMMA ProcessFacts ==
  ASSUME NEW x \in Records
  PROVE  processInput(x) \in Records /\ Alike(x, processInput(x))
<1> DEFINE S == {y \in Records : Alike(x, y)}
<1>1. x \in S
  BY DEF Alike
<1>2. ASSUME NEW y \in S PROVE TakePacket(y) \in S
  <2>1. TakePacket(y) \in Records /\ Alike(y, TakePacket(y)) /\ Alike(x, y)
    BY TakeFacts
  <2> QED BY <2>1 DEF Alike
<1>3. processInput(x) \in S
  <2> HIDE DEF S
  <2> QED BY <1>1, <1>2, ProcessStays
<1> QED BY <1>3

Lesser(a, b) == Min({a, b})

\* The lesser of two numbers is one of them and exceeds neither.
LEMMA MinFacts ==
  ASSUME NEW a \in Int, NEW b \in Int
  PROVE  /\ Lesser(a, b) \in Int /\ Lesser(a, b) <= a /\ Lesser(a, b) <= b
         /\ Lesser(a, b) = a \/ Lesser(a, b) = b
<1>1. \E x \in {a, b} : \A y \in {a, b} : x <= y
  <2>1. CASE a <= b
    BY <2>1
  <2>2. CASE b <= a
    BY <2>2
  <2> QED BY <2>1, <2>2
<1>2. Min({a, b}) \in {a, b} /\ \A y \in {a, b} : Min({a, b}) <= y
  BY <1>1 DEF Min
<1> HIDE DEF Min
<1> QED BY <1>2 DEF Lesser

\* What a read may change: what it finds lets it ask for the next one, and it
\* leaves room in the buffer.
Read(t, u, s) ==
    /\ u \in [Sockets -> Records] /\ \A q \in Sockets \ {s} : u[q] = t[q]
    /\ u[s].open = t[s].open /\ u[s].link = t[s].link /\ u[s].fin = t[s].fin
    /\ u[s].torn = t[s].torn /\ u[s].mask = t[s].mask
    /\ u[s].rbuf # <<>> => t[s].rbuf # <<>>
    /\ Len(u[s].mInBuf) < BufSize
    /\ t[s].open /\ t[s].rbuf # <<>> => "read" \in u[s].mEnabledEvents

\* recv moves bytes from the connection to the input buffer.
LEMMA RecvFacts ==
  ASSUME NEW x \in Records, NEW n \in Nat, n <= Len(x.rbuf)
  PROVE  /\ recv(x, n) \in Records
         /\ recv(x, n).mEnabledEvents = x.mEnabledEvents \union {"read"}
         /\ recv(x, n).mInBuf = x.mInBuf \o SubSeq(x.rbuf, 1, n)
         /\ recv(x, n).rbuf = SubSeq(x.rbuf, n + 1, Len(x.rbuf))
         /\ recv(x, n).open = x.open /\ recv(x, n).link = x.link /\ recv(x, n).fin = x.fin
         /\ recv(x, n).torn = x.torn /\ recv(x, n).mask = x.mask /\ recv(x, n).got = x.got
         /\ recv(x, n).mOutBuf = x.mOutBuf /\ recv(x, n).wire = x.wire
         /\ recv(x, n).clean = x.clean
<1>t. x.rbuf \in Seq(Bytes) /\ x.mInBuf \in Seq(Bytes) /\ Len(x.rbuf) \in Nat
  BY DEF Records
<1>1. SubSeq(x.rbuf, 1, n) \in Seq(Bytes) /\ SubSeq(x.rbuf, n + 1, Len(x.rbuf)) \in Seq(Bytes)
  BY <1>t, SubBytes
<1>2. x.mInBuf \o SubSeq(x.rbuf, 1, n) \in Seq(Bytes)
  BY <1>1, <1>t
<1>3. x.mEnabledEvents \union {"read"} \in SUBSET Events
  BY DEF Records, Events
<1> QED BY <1>1, <1>2, <1>3 DEF recv, Records

Received(x) == Min({Len(x.rbuf), BufSize - Len(x.mInBuf)})

\* As much is received as there is, or as there is room for.
LEMMA ReceivedFacts ==
  ASSUME NEW x \in Records, Len(x.mInBuf) < BufSize
  PROVE  /\ Received(x) \in Nat /\ Received(x) <= Len(x.rbuf)
         /\ (Received(x) = 0 <=> x.rbuf = <<>>)
<1> DEFINE n == Received(x)
<1>t. /\ x.rbuf \in Seq(Bytes) /\ Len(x.rbuf) \in Nat /\ Len(x.mInBuf) \in Nat /\ BufSize \in Nat
      /\ BufSize > 0
  <2>1. x.rbuf \in Seq(Bytes) /\ x.mInBuf \in Seq(Bytes)
    BY DEF Records
  <2>2. BufSize \in Nat /\ BufSize > 0
    BY WeightFacts, SocketsAssumption
  <2> QED BY <2>1, <2>2
<1>e. x.rbuf = <<>> <=> Len(x.rbuf) = 0
  BY <1>t
<1>1. BufSize - Len(x.mInBuf) \in Int /\ BufSize - Len(x.mInBuf) > 0
  BY <1>t
<1>2. /\ n \in Int /\ n <= Len(x.rbuf) /\ n <= BufSize - Len(x.mInBuf)
      /\ n = Len(x.rbuf) \/ n = BufSize - Len(x.mInBuf)
  <2>1. n = Lesser(Len(x.rbuf), BufSize - Len(x.mInBuf))
    BY DEF Lesser, Received
  <2>2. Len(x.rbuf) \in Int
    BY <1>t
  <2> HIDE DEF n
  <2> QED BY <1>1, <2>1, <2>2, MinFacts
<1> HIDE DEF n
<1> QED BY <1>1, <1>2, <1>t, <1>e DEF n

\* onReadEvent takes bytes from the receive buffer only, and turns read on again
\* whenever it found some on an open socket.
LEMMA ReadFacts ==
  ASSUME NEW t \in [Sockets -> Records], NEW s \in Sockets, Len(t[s].mInBuf) < BufSize
  PROVE  Read(t, onReadEvent(t, s), s)
<1> DEFINE x == t[s]
           n == Received(x)
           v == recv(x, n)
           y == processInput(v)
           z == [y EXCEPT !.mInBuf = IF Len(@) >= BufSize THEN <<>> ELSE @]
           u == onReadEvent(t, s)
<1>t. x \in Records /\ BufSize \in Nat /\ BufSize > 0
  BY WeightFacts, SocketsAssumption
<1>1. n \in Nat /\ n <= Len(x.rbuf) /\ (n = 0 <=> x.rbuf = <<>>)
  BY <1>t, ReceivedFacts
<1>2. CASE ~x.open \/ n = 0
  <2>1. u = t
    BY <1>2 DEF onReadEvent, Received
  <2> HIDE DEF u, n
  <2>2. Read(t, u, s)
    BY <2>1, <1>1, <1>2 DEF Read
  <2> QED BY <2>2 DEF u
<1>3. CASE x.open /\ n # 0
  <2>1. u = [t EXCEPT ![s] = z]
    BY <1>3 DEF onReadEvent, Received
  <2> HIDE DEF u
  <2>2. /\ v \in Records /\ "read" \in v.mEnabledEvents /\ v.open = x.open /\ v.link = x.link
        /\ v.fin = x.fin /\ v.torn = x.torn /\ v.mask = x.mask
    <3> HIDE DEF n
    <3> QED BY <1>t, <1>1, RecvFacts
  <2> HIDE DEF v
  <2>3. y \in Records /\ Alike(v, y)
    BY <2>2, ProcessFacts
  <2> HIDE DEF y
  <2>4. /\ z \in Records /\ Alike(y, z) /\ Len(z.mInBuf) < BufSize
    <3>1. y.mInBuf \in Seq(Bytes) /\ Len(y.mInBuf) \in Nat
      BY <2>3 DEF Records
    <3>2. CASE Len(y.mInBuf) >= BufSize
      <4>1. z = [y EXCEPT !.mInBuf = <<>>]
        BY <3>2
      <4>2. <<>> \in Seq(Bytes) /\ Len(<<>>) = 0
        OBVIOUS
      <4> HIDE DEF z
      <4> QED BY <4>1, <4>2, <2>3, <1>t DEF Records, Alike
    <3>3. CASE ~(Len(y.mInBuf) >= BufSize)
      <4>1. z = y
        BY <3>3, <2>3 DEF Records
      <4> HIDE DEF z
      <4> QED BY <4>1, <2>3, <3>1, <3>3, <1>t DEF Alike
    <3> QED BY <3>2, <3>3
  <2> HIDE DEF z
  <2>5. /\ u \in [Sockets -> Records] /\ u[s] = z /\ \A q \in Sockets \ {s} : u[q] = t[q]
    BY <2>1, <2>4
  <2>6. x.rbuf # <<>>
    BY <1>1, <1>3
  <2> HIDE DEF n
  <2>7. Alike(v, z)
    BY <2>3, <2>4 DEF Alike
  <2>8. Read(t, u, s)
    BY <2>2, <2>4, <2>5, <2>6, <2>7 DEF Alike, Read
  <2> QED BY <2>8 DEF u
<1> QED BY <1>2, <1>3

\* What a send may change: bytes come to a joined peer, and write may be asked for.
Sent(t, u, s) ==
    /\ u \in [Sockets -> Records]
    /\ \A q \in Sockets :
          /\ u[q].open = t[q].open /\ u[q].link = t[q].link /\ u[q].fin = t[q].fin
          /\ u[q].torn = t[q].torn /\ u[q].mask = t[q].mask /\ u[q].mInBuf = t[q].mInBuf
          /\ "read" \in u[q].mEnabledEvents <=> "read" \in t[q].mEnabledEvents
          /\ t[q].rbuf # <<>> => u[q].rbuf # <<>>
          /\ u[q].rbuf # <<>> => t[q].rbuf # <<>> \/ (q = Peer(s) /\ Joined(t, s))

\* What ::send answers.
LEMMA Answers ==
  ASSUME NEW t \in [Sockets -> Records], NEW s \in Sockets, NEW n \in Nat,
         NEW r \in SendResults(t, s, n)
  PROVE  \/ r = Failed \/ r = WouldBlock
         \/ r \in Nat /\ r >= 1 /\ r <= n /\ Joined(t, s)
<1>1. CASE ~Joined(t, s)
  BY <1>1 DEF SendResults
<1>2. CASE Joined(t, s) /\ Space(t, s) = 0
  BY <1>2 DEF SendResults
<1>3. CASE Joined(t, s) /\ Space(t, s) # 0
  <2>1. Space(t, s) \in Int
    <3>1. t[Peer(s)] \in Records
      BY SocketsAssumption
    <3>2. t[Peer(s)].rbuf \in Seq(Bytes)
      BY <3>1 DEF Records
    <3>3. Len(t[Peer(s)].rbuf) \in Nat /\ KernelBuf \in Nat
      BY <3>2, SocketsAssumption
    <3> QED BY <3>3 DEF Space
  <2>2. Lesser(n, Space(t, s)) \in Int /\ Lesser(n, Space(t, s)) <= n
    BY <2>1, MinFacts
  <2>3. r \in 1 .. Lesser(n, Space(t, s))
    BY <1>3 DEF SendResults, Lesser
  <2> QED BY <1>3, <2>2, <2>3
<1> QED BY <1>1, <1>2, <1>3

\* PhysicalSend moves bytes to the peer's receive buffer only when the two are joined,
\* and leaves the rest of both sockets alone.
LEMMA PhysicalFacts ==
  ASSUME NEW t \in [Sockets -> Records], NEW s \in Sockets,
         NEW n \in Nat, n <= Len(t[s].mOutBuf), NEW r \in SendResults(t, s, n)
  PROVE  /\ Sent(t, PhysicalSend(t, s, r), s)
         /\ PhysicalSend(t, s, r)[s].mOutBuf = t[s].mOutBuf
         /\ r \in Int /\ (Progress(r) => r \in Nat)
<1> DEFINE u == PhysicalSend(t, s, r)
           p == Peer(s)
<1>a. p \in Sockets /\ p # s
  BY SocketsAssumption
<1>t. /\ \A q \in Sockets : t[q] \in Records
      /\ t[s].mOutBuf \in Seq(Bytes) /\ Len(t[s].mOutBuf) \in Nat
      /\ t[p].rbuf \in Seq(Bytes) /\ Len(t[p].rbuf) \in Nat
      /\ t[s].mEnabledEvents \in SUBSET Events /\ KernelBuf \in Nat
  <2>1. t[s] \in Records /\ t[p] \in Records
    BY <1>a
  <2> QED BY SMTT(30), <2>1, SocketsAssumption DEF Records
<1> HIDE DEF p
<1>1. \/ r = Failed \/ r = WouldBlock
      \/ r \in Nat /\ r >= 1 /\ r <= n /\ Joined(t, s)
  BY Answers
<1>2. CASE r = Failed
  <2>1. u = t
    BY <1>2 DEF PhysicalSend, Failed, WouldBlock
  <2> HIDE DEF u
  <2>2. r \in Int /\ ~Progress(r)
    BY <1>2 DEF Failed, Progress
  <2>3. Sent(t, u, s)
    BY <2>1 DEF Sent
  <2> QED BY <2>1, <2>2, <2>3 DEF u
<1>3. CASE r = WouldBlock
  <2>1. u = [t EXCEPT ![s].mEnabledEvents = @ \union {"write"}]
    BY <1>3 DEF PhysicalSend, Failed, WouldBlock
  <2> HIDE DEF u
  <2>2. r \in Int /\ ~Progress(r)
    BY <1>3 DEF WouldBlock, Progress
  <2>3. t[s].mEnabledEvents \union {"write"} \in SUBSET Events
    BY <1>t DEF Events
  <2>4. u[s] = [t[s] EXCEPT !.mEnabledEvents = @ \union {"write"}]
    BY <2>1
  <2>5. \A q \in Sockets \ {s} : u[q] = t[q]
    BY <2>1
  <2>6. u[s] \in Records
    BY <2>3, <2>4, <1>t DEF Records
  <2>7. u \in [Sockets -> Records]
    BY <2>1, <2>5, <2>6
  <2>8. Sent(t, u, s)
    <3>1. ASSUME NEW q \in Sockets
          PROVE  /\ u[q].open = t[q].open /\ u[q].link = t[q].link /\ u[q].fin = t[q].fin
                 /\ u[q].torn = t[q].torn /\ u[q].mask = t[q].mask /\ u[q].mInBuf = t[q].mInBuf
                 /\ "read" \in u[q].mEnabledEvents <=> "read" \in t[q].mEnabledEvents
                 /\ u[q].rbuf = t[q].rbuf
      <4>1. CASE q = s
        <5>1. t[s] \in Records
          BY <1>t
        <5> QED BY <4>1, <2>4, <5>1 DEF Records
      <4>2. CASE q # s
        BY <4>2, <2>5
      <4> QED BY <4>1, <4>2
    <3> QED BY <2>7, <3>1 DEF Sent
  <2> QED BY <2>2, <2>4, <2>8, <1>t DEF u, Records
<1>4. CASE r \in Nat /\ r >= 1 /\ r <= n /\ Joined(t, s)
  <2> DEFINE more == t[p].rbuf \o SubSeq(t[s].mOutBuf, 1, r)
  <2>1. u = [t EXCEPT ![p].rbuf = more]
    BY <1>4 DEF PhysicalSend, Failed, WouldBlock, p
  <2> HIDE DEF u
  <2>2. more \in Seq(Bytes) /\ more # <<>>
    <3>1. r \in 1 .. Len(t[s].mOutBuf)
      BY <1>4, <1>t
    <3>2. SubSeq(t[s].mOutBuf, 1, r) \in Seq(Bytes) /\ Len(SubSeq(t[s].mOutBuf, 1, r)) = r
      BY <3>1, <1>t, SubBytes, SubSeqProperties
    <3> DEFINE b == SubSeq(t[s].mOutBuf, 1, r)
    <3>3. b \in Seq(Bytes) /\ Len(b) = r
      BY <3>2
    <3> HIDE DEF b
    <3>4. t[p].rbuf \o b \in Seq(Bytes) /\ Len(t[p].rbuf \o b) = Len(t[p].rbuf) + Len(b)
      BY <3>3, <1>t, ConcatProperties
    <3>5. t[p].rbuf \o b # <<>>
      BY <3>3, <3>4, <1>4, <1>t
    <3> QED BY <3>4, <3>5 DEF b
  <2> HIDE DEF more
  <2>4. u[p] = [t[p] EXCEPT !.rbuf = more]
    BY <2>1, <1>a DEF p
  <2>5. \A q \in Sockets \ {p} : u[q] = t[q]
    BY <2>1
  <2>6. u[p] \in Records
    BY <2>2, <2>4, <1>t, <1>a DEF Records, p
  <2>7. u \in [Sockets -> Records]
    BY <2>1, <2>5, <2>6
  <2>8. Sent(t, u, s)
    <3>1. p = Peer(s) /\ t[p] \in Records
      BY <1>a, <1>t DEF p
    <3>2. ASSUME NEW q \in Sockets
          PROVE  /\ u[q].open = t[q].open /\ u[q].link = t[q].link /\ u[q].fin = t[q].fin
                 /\ u[q].torn = t[q].torn /\ u[q].mask = t[q].mask /\ u[q].mInBuf = t[q].mInBuf
                 /\ "read" \in u[q].mEnabledEvents <=> "read" \in t[q].mEnabledEvents
                 /\ u[q].rbuf = t[q].rbuf \/ (q = p /\ u[q].rbuf # <<>>)
      <4>1. CASE q = p
        BY <4>1, <2>2, <2>4, <3>1 DEF Records
      <4>2. CASE q # p
        BY <4>2, <2>5
      <4> QED BY <4>1, <4>2
    <3> QED BY <1>4, <2>7, <3>1, <3>2 DEF Sent
  <2>9. u[s] = t[s] /\ r \in Int
    BY <2>5, <1>a, <1>4 DEF p
  <2> QED BY <2>8, <2>9, <1>4 DEF u
<1> QED BY <1>1, <1>2, <1>3, <1>4

\* flush takes what has been sent from the output buffer.
LEMMA FlushFacts ==
  ASSUME NEW t \in [Sockets -> Records], NEW s \in Sockets,
         NEW r \in SendResults(t, s, Len(t[s].mOutBuf))
  PROVE  Sent(t, flush(t, s, r), s)
<1> DEFINE u == PhysicalSend(t, s, r)
           v == flush(t, s, r)
<1>t. t[s].mOutBuf \in Seq(Bytes) /\ Len(t[s].mOutBuf) \in Nat
  BY DEF Records
<1>1. Sent(t, u, s) /\ u[s].mOutBuf = t[s].mOutBuf /\ (Progress(r) => r \in Nat)
  BY <1>t, PhysicalFacts
<1>2. CASE ~Progress(r)
  BY <1>1, <1>2 DEF flush
<1>3. CASE Progress(r)
  <2> DEFINE rest == SubSeq(t[s].mOutBuf, r + 1, Len(t[s].mOutBuf))
  <2>1. v = [u EXCEPT ![s].mOutBuf = rest]
    <3> HIDE DEF u
    <3>1. flush(t, s, r) = [u EXCEPT ![s].mOutBuf = SubSeq(@, r + 1, Len(@))]
      BY <1>3 DEF flush, u
    <3> QED BY <1>1, <3>1
  <2>2. rest \in Seq(Bytes)
    BY <1>1, <1>3, <1>t, SubBytes
  <2> HIDE DEF u, v, rest
  <2>3. v \in [Sockets -> Records] /\ \A q \in Sockets : v[q] = [u[q] EXCEPT !.mOutBuf = v[q].mOutBuf]
    <3>1. \A q \in Sockets : u[q] \in Records
      BY <1>1 DEF Sent
    <3>2. v[s] = [u[s] EXCEPT !.mOutBuf = rest] /\ \A q \in Sockets \ {s} : v[q] = u[q]
      BY <2>1, <1>1 DEF Sent
    <3>3. v[s] \in Records
      BY <2>2, <3>1, <3>2 DEF Records
    <3>4. v \in [Sockets -> Records]
      BY <2>1, <3>1, <3>2, <3>3, <1>1 DEF Sent
    <3>5. ASSUME NEW q \in Sockets PROVE v[q] = [u[q] EXCEPT !.mOutBuf = v[q].mOutBuf]
      <4>1. CASE q = s
        <5>1. u[s] \in Records
          BY <3>1
        <5> QED BY <4>1, <3>2, <5>1 DEF Records
      <4>2. CASE q # s
        <5>1. u[q] \in Records /\ v[q] = u[q]
          BY <4>2, <3>1, <3>2
        <5> QED BY <5>1 DEF Records
      <4> QED BY <4>1, <4>2
    <3> QED BY <3>4, <3>5
  <2>4. ASSUME NEW q \in Sockets
        PROVE  /\ v[q].open = u[q].open /\ v[q].link = u[q].link /\ v[q].fin = u[q].fin
               /\ v[q].torn = u[q].torn /\ v[q].mask = u[q].mask /\ v[q].mInBuf = u[q].mInBuf
               /\ v[q].mEnabledEvents = u[q].mEnabledEvents /\ v[q].rbuf = u[q].rbuf
    <3>1. u[q] \in Records /\ v[q] = [u[q] EXCEPT !.mOutBuf = v[q].mOutBuf]
      BY <2>3, <1>1 DEF Sent
    <3> QED BY <3>1 DEF Records
  <2>5. Sent(t, v, s)
    BY <1>1, <2>3, <2>4 DEF Sent
  <2> QED BY <2>5 DEF v
<1> QED BY <1>2, <1>3

\* Only what Sent does not mention differs.
Beside(t, u, s) ==
    /\ u \in [Sockets -> Records] /\ \A q \in Sockets \ {s} : u[q] = t[q]
    /\ u[s].open = t[s].open /\ u[s].link = t[s].link /\ u[s].fin = t[s].fin
    /\ u[s].torn = t[s].torn /\ u[s].mask = t[s].mask /\ u[s].mInBuf = t[s].mInBuf
    /\ u[s].mEnabledEvents = t[s].mEnabledEvents /\ u[s].rbuf = t[s].rbuf

\* What a send does is not disturbed by changes of the sender's output buffer before and
\* after it.
LEMMA SentBeside ==
  ASSUME NEW s \in Sockets, NEW t, NEW u, NEW v, NEW w, t \in [Sockets -> Records],
         Beside(t, u, s), Sent(u, v, s), Beside(v, w, s)
  PROVE  Sent(t, w, s)
<1>1. Joined(u, s) => Joined(t, s)
  BY DEF Beside, Joined
<1>2. ASSUME NEW q \in Sockets
      PROVE  /\ u[q].open = t[q].open /\ u[q].link = t[q].link /\ u[q].fin = t[q].fin
             /\ u[q].torn = t[q].torn /\ u[q].mask = t[q].mask /\ u[q].mInBuf = t[q].mInBuf
             /\ u[q].mEnabledEvents = t[q].mEnabledEvents /\ u[q].rbuf = t[q].rbuf
  BY DEF Beside
<1>3. ASSUME NEW q \in Sockets
      PROVE  /\ w[q].open = v[q].open /\ w[q].link = v[q].link /\ w[q].fin = v[q].fin
             /\ w[q].torn = v[q].torn /\ w[q].mask = v[q].mask /\ w[q].mInBuf = v[q].mInBuf
             /\ w[q].mEnabledEvents = v[q].mEnabledEvents /\ w[q].rbuf = v[q].rbuf
  BY DEF Beside
<1>4. w \in [Sockets -> Records]
  BY DEF Beside
<1> QED BY <1>1, <1>2, <1>3, <1>4 DEF Sent

Buffered(t, s, p) == [t EXCEPT ![s].mOutBuf = Digits(PacketLength(Len(p))) \o p]

\* The packet and its length are put in the output buffer first.
LEMMA BufferedFacts ==
  ASSUME NEW t \in [Sockets -> Records], NEW s \in Sockets, NEW p \in Packets,
         NEW r \in SendResults(t, s, PktLenSize + Len(p))
  PROVE  /\ Beside(t, Buffered(t, s, p), s)
         /\ Buffered(t, s, p)[s].mOutBuf = Digits(PacketLength(Len(p))) \o p
         /\ Buffered(t, s, p)[s].wire = t[s].wire /\ Buffered(t, s, p)[s].got = t[s].got
         /\ Buffered(t, s, p)[s].clean = t[s].clean
         /\ r \in SendResults(Buffered(t, s, p), s, Len(Buffered(t, s, p)[s].mOutBuf))
<1> DEFINE b == Digits(PacketLength(Len(p))) \o p
           u == Buffered(t, s, p)
<1>p. p \in Seq(Bytes) /\ Len(p) \in Nat /\ PktLenSize \in Nat
  BY SocketsAssumption DEF Bytes
<1>t. t[s] \in Records /\ \A q \in Sockets : t[q] \in Records
  OBVIOUS
<1>1. b \in Seq(Bytes) /\ Len(b) = PktLenSize + Len(p)
  <2> DEFINE d == Digits(PacketLength(Len(p)))
  <2>1. PacketLength(Len(p)) \in Nat
    BY <1>p, DigitsFacts
  <2>2. d \in Seq(Bytes) /\ Len(d) = PktLenSize
    BY <2>1, DigitsFacts
  <2>3. b = d \o p
    OBVIOUS
  <2> HIDE DEF b, d
  <2> QED BY <2>2, <2>3, <1>p, ConcatProperties
<1>u. u = [t EXCEPT ![s].mOutBuf = b]
  BY DEF Buffered
<1> HIDE DEF b, u
<1>2. /\ Beside(t, u, s) /\ u[s].mOutBuf = b
      /\ u[s].wire = t[s].wire /\ u[s].got = t[s].got /\ u[s].clean = t[s].clean
  <2>1. u[s] = [t[s] EXCEPT !.mOutBuf = b] /\ \A q \in Sockets \ {s} : u[q] = t[q]
    BY <1>u
  <2>2. u[s] \in Records
    BY <2>1, <1>1, <1>t DEF Records
  <2>3. u \in [Sockets -> Records]
    BY <2>1, <2>2, <1>t, <1>u
  <2> QED BY <2>1, <2>3, <1>t DEF Beside, Records
<1>3. r \in SendResults(u, s, Len(u[s].mOutBuf))
  <2>1. Joined(u, s) <=> Joined(t, s)
    BY <1>2 DEF Beside, Joined
  <2>2. u[Peer(s)].rbuf = t[Peer(s)].rbuf
    BY <1>2, SocketsAssumption DEF Beside
  <2>3. Space(u, s) = Space(t, s)
    BY <2>2 DEF Space
  <2>4. Len(u[s].mOutBuf) = PktLenSize + Len(p)
    BY <1>1, <1>2
  <2> QED BY <2>1, <2>3, <2>4 DEF SendResults
<1> QED BY <1>2, <1>3 DEF b, u

\* A packet that is sent, or dropped.
LEMMA SendFacts ==
  ASSUME NEW t \in [Sockets -> Records], NEW s \in Sockets, NEW p \in Packets,
         NEW r \in SendResults(t, s, PktLenSize + Len(p))
  PROVE  Sent(t, SendPacket(t, s, p, r), s)
<1> DEFINE u == Buffered(t, s, p)
           v == flush(u, s, r)
           w == SendPacket(t, s, p, r)
<1>p. p \in Seq(Bytes) /\ Len(p) \in Nat
  BY SocketsAssumption DEF Bytes
<1>w. w = IF Progress(r)
          THEN [v EXCEPT ![s].wire = Append(@, p), ![s].clean = @ /\ Len(p) < MaxPacketSize]
          ELSE [v EXCEPT ![s].mOutBuf = <<>>]
  BY DEF SendPacket, Buffered
<1>2. Beside(t, u, s) /\ r \in SendResults(u, s, Len(u[s].mOutBuf))
  BY BufferedFacts
<1> HIDE DEF u
<1>3. u \in [Sockets -> Records]
  BY <1>2 DEF Beside
<1>5. Sent(u, v, s)
  BY <1>2, <1>3, FlushFacts
<1> HIDE DEF v
<1>6. Beside(v, w, s)
  <2>1. v \in [Sockets -> Records] /\ v[s] \in Records
    BY <1>5 DEF Sent
  <2>2. w = IF Progress(r)
            THEN [v EXCEPT ![s].wire = Append(@, p), ![s].clean = @ /\ Len(p) < MaxPacketSize]
            ELSE [v EXCEPT ![s].mOutBuf = <<>>]
    BY <1>w
  <2> HIDE DEF w
  <2>3. CASE Progress(r)
    <3> DEFINE wires == Append(v[s].wire, p)
               cleans == v[s].clean /\ Len(p) < MaxPacketSize
    <3>1. wires \in Seq(Seq(Bytes)) /\ cleans \in BOOLEAN
      <4>1. v[s].wire \in Seq(Seq(Bytes))
        BY <2>1 DEF Records
      <4> QED BY <4>1, <1>p
    <3>2. w[s] = [v[s] EXCEPT !.wire = wires, !.clean = cleans]
          /\ \A q \in Sockets \ {s} : w[q] = v[q]
      BY <2>1, <2>2, <2>3
    <3> HIDE DEF wires, cleans
    <3>3. w[s] \in Records
      BY <2>1, <3>1, <3>2 DEF Records
    <3>4. w \in [Sockets -> Records]
      <4>1. DOMAIN w = Sockets /\ \A q \in Sockets : w[q] \in Records
        BY <2>1, <2>2, <2>3, <3>2, <3>3
      <4>2. w = [q \in Sockets |-> w[q]]
        BY <2>1, <2>2, <2>3
      <4> QED BY <4>1, <4>2
    <3> QED BY <2>1, <3>2, <3>4 DEF Beside, Records
  <2>4. CASE ~Progress(r)
    <3>1. w[s] = [v[s] EXCEPT !.mOutBuf = <<>>] /\ \A q \in Sockets \ {s} : w[q] = v[q]
      BY <2>1, <2>2, <2>4
    <3>2. w[s] \in Records
      <4>1. <<>> \in Seq(Bytes)
        OBVIOUS
      <4> QED BY <2>1, <3>1, <4>1 DEF Records
    <3>3. w \in [Sockets -> Records]
      <4>1. w = [q \in Sockets |-> w[q]]
        BY <2>1, <2>2, <2>4
      <4> QED BY <2>1, <3>1, <3>2, <4>1
    <3> QED BY <2>1, <3>1, <3>3 DEF Beside, Records
  <2> QED BY <2>3, <2>4
<1> HIDE DEF w
<1>7. Sent(t, w, s)
  BY <1>2, <1>5, <1>6, SentBeside
<1> QED BY <1>7 DEF w
----------------------------------------------------------------------------
(* The list of open sockets.                                               *)

Lists == {l \in Seq(Sockets) : IsInjective(l)}

\* What it means to be a list of distinct sockets.
LEMMA ListFacts ==
  ASSUME NEW l \in Lists
  PROVE  /\ l \in Seq(Sockets) /\ Len(l) \in Nat /\ DOMAIN l = 1 .. Len(l)
         /\ \A i, j \in 1 .. Len(l) : l[i] = l[j] => i = j
         /\ \A a : a \in ToSet(l) <=> \E i \in 1 .. Len(l) : l[i] = a
BY DEF Lists, IsInjective, ToSet

\* A sequence whose elements differ is a list of distinct sockets.
LEMMA ListIs ==
  ASSUME NEW l \in Seq(Sockets), \A i, j \in 1 .. Len(l) : l[i] = l[j] => i = j
  PROVE  /\ l \in Lists
         /\ \A a : a \in ToSet(l) <=> \E i \in 1 .. Len(l) : l[i] = a
BY DEF Lists, IsInjective, ToSet

\* A socket that is opened comes to the end of the list.
LEMMA ListMore ==
  ASSUME NEW l \in Lists, NEW s \in Sockets, s \notin ToSet(l)
  PROVE  Append(l, s) \in Lists /\ ToSet(Append(l, s)) = ToSet(l) \union {s}
<1> DEFINE m == Append(l, s)
<1>1. /\ l \in Seq(Sockets) /\ Len(l) \in Nat
      /\ \A i, j \in 1 .. Len(l) : l[i] = l[j] => i = j
      /\ \A a : a \in ToSet(l) <=> \E i \in 1 .. Len(l) : l[i] = a
  BY ListFacts
<1>2. /\ m \in Seq(Sockets) /\ Len(m) = Len(l) + 1 /\ m[Len(l) + 1] = s
      /\ \A i \in 1 .. Len(l) : m[i] = l[i]
  BY <1>1, AppendProperties
<1> HIDE DEF m
<1>3. \A i \in 1 .. Len(m) : i \in 1 .. Len(l) \/ i = Len(l) + 1
  BY <1>1, <1>2
<1>4. \A i \in 1 .. Len(l) : m[i] # s /\ i \in 1 .. Len(m)
  BY <1>1, <1>2
<1>5. ASSUME NEW i \in 1 .. Len(m), NEW j \in 1 .. Len(m), m[i] = m[j] PROVE i = j
  BY <1>1, <1>2, <1>3, <1>4, <1>5
<1>6. m \in Lists /\ \A a : a \in ToSet(m) <=> \E i \in 1 .. Len(m) : m[i] = a
  BY <1>2, <1>5, ListIs
<1>7. ASSUME NEW a \in ToSet(m) PROVE a \in ToSet(l) \union {s}
  <2>1. PICK i \in 1 .. Len(m) : m[i] = a
    BY <1>6
  <2> QED BY <2>1, <1>1, <1>2, <1>3
<1>8. ASSUME NEW a \in ToSet(l) \union {s} PROVE a \in ToSet(m)
  <2>1. Len(l) + 1 \in 1 .. Len(m)
    BY <1>1, <1>2
  <2>2. CASE a = s
    BY <2>1, <2>2, <1>2, <1>6
  <2>3. CASE a \in ToSet(l)
    <3>1. PICK i \in 1 .. Len(l) : l[i] = a
      BY <2>3, <1>1
    <3> QED BY <3>1, <1>2, <1>4, <1>6
  <2> QED BY <2>2, <2>3
<1> QED BY <1>6, <1>7, <1>8 DEF m

\* Erasing one place moves what is behind it forward by one.
LEMMA ErasedFacts ==
  ASSUME NEW l \in Seq(Sockets), NEW k \in 1 .. Len(l)
  PROVE  LET m == RemoveAt(l, k)
         IN  /\ m \in Seq(Sockets) /\ Len(m) = Len(l) - 1
             /\ \A i \in 1 .. Len(m) : m[i] = l[IF i < k THEN i ELSE i + 1]
<1> DEFINE a == SubSeq(l, 1, k - 1)
           b == SubSeq(l, k + 1, Len(l))
           m == RemoveAt(l, k)
<1>1. a \in Seq(Sockets) /\ Len(a) = k - 1 /\ \A i \in 1 .. Len(a) : a[i] = l[i]
  OBVIOUS
<1>2. b \in Seq(Sockets) /\ Len(b) = Len(l) - k /\ \A i \in 1 .. Len(b) : b[i] = l[k + i]
  OBVIOUS
<1>3. m = a \o b
  BY DEF RemoveAt
<1> HIDE DEF a, b, m
<1>4. /\ m \in Seq(Sockets) /\ Len(m) = Len(a) + Len(b)
      /\ \A i \in 1 .. Len(a) + Len(b) : m[i] = IF i <= Len(a) THEN a[i] ELSE b[i - Len(a)]
  BY <1>1, <1>2, <1>3, ConcatProperties
<1>5. Len(m) = Len(l) - 1
  BY <1>1, <1>2, <1>4
<1>6. ASSUME NEW i \in 1 .. Len(m) PROVE m[i] = l[IF i < k THEN i ELSE i + 1]
  <2>1. i \in 1 .. Len(a) + Len(b) /\ Len(a) = k - 1 /\ Len(b) = Len(l) - k /\ k \in 1 .. Len(l)
    BY <1>1, <1>2, <1>4
  <2>2. CASE i < k
    <3>1. i \in 1 .. Len(a)
      BY <2>1, <2>2
    <3>2. m[i] = a[i]
      BY <2>1, <3>1, <1>4
    <3> QED BY <2>2, <3>1, <3>2, <1>1
  <2>3. CASE ~(i < k)
    <3>1. i - Len(a) \in 1 .. Len(b) /\ k + (i - Len(a)) = i + 1 /\ ~(i <= Len(a))
      BY <2>1, <2>3
    <3>2. m[i] = b[i - Len(a)]
      BY <2>1, <3>1, <1>4
    <3> QED BY <2>3, <3>1, <3>2, <1>2
  <2> QED BY <2>2, <2>3
<1> QED BY <1>4, <1>5, <1>6 DEF m

\* A socket that is closed leaves the list, and no other does.
LEMMA ListLess ==
  ASSUME NEW l \in Lists, NEW s \in ToSet(l)
  PROVE  LET k == CHOOSE i \in DOMAIN l : l[i] = s
         IN  RemoveAt(l, k) \in Lists /\ ToSet(RemoveAt(l, k)) = ToSet(l) \ {s}
<1> DEFINE k == CHOOSE i \in DOMAIN l : l[i] = s
           m == RemoveAt(l, k)
           Was(i) == IF i < k THEN i ELSE i + 1
<1>1. /\ l \in Seq(Sockets) /\ Len(l) \in Nat /\ DOMAIN l = 1 .. Len(l)
      /\ \A i, j \in 1 .. Len(l) : l[i] = l[j] => i = j
      /\ \A a : a \in ToSet(l) <=> \E i \in 1 .. Len(l) : l[i] = a
  BY ListFacts
<1>2. k \in 1 .. Len(l) /\ l[k] = s
  BY <1>1
<1> SUFFICES m \in Lists /\ ToSet(m) = ToSet(l) \ {s}
  OBVIOUS
<1>3. m \in Seq(Sockets) /\ Len(m) = Len(l) - 1 /\ \A i \in 1 .. Len(m) : m[i] = l[Was(i)]
  <2> HIDE DEF k
  <2> QED BY <1>1, <1>2, ErasedFacts
<1> HIDE DEF m, k
<1>4. ASSUME NEW i \in 1 .. Len(m)
      PROVE  Was(i) \in 1 .. Len(l) /\ Was(i) # k /\ m[i] = l[Was(i)]
  BY <1>1, <1>2, <1>3
<1>5. ASSUME NEW i \in 1 .. Len(m), NEW j \in 1 .. Len(m), m[i] = m[j] PROVE i = j
  <2>1. Was(i) = Was(j)
    <3> HIDE DEF Was
    <3> QED BY <1>1, <1>4, <1>5
  <2> QED BY <2>1, <1>2, <1>3
<1>6. m \in Lists /\ \A a : a \in ToSet(m) <=> \E i \in 1 .. Len(m) : m[i] = a
  BY <1>3, <1>5, ListIs
<1>7. ASSUME NEW a \in ToSet(m) PROVE a \in ToSet(l) \ {s}
  <2>1. PICK i \in 1 .. Len(m) : m[i] = a
    BY <1>6
  <2>2. Was(i) \in 1 .. Len(l) /\ Was(i) # k /\ a = l[Was(i)]
    BY <2>1, <1>4
  <2> HIDE DEF Was
  <2> QED BY <2>2, <1>1, <1>2
<1>8. ASSUME NEW a \in ToSet(l) \ {s} PROVE a \in ToSet(m)
  <2>1. PICK j \in 1 .. Len(l) : l[j] = a
    BY <1>1
  <2>2. j # k
    BY <2>1, <1>2
  <2> DEFINE i == IF j < k THEN j ELSE j - 1
  <2>3. i \in 1 .. Len(m) /\ Was(i) = j
    BY <2>1, <2>2, <1>1, <1>2, <1>3
  <2> QED BY <2>1, <2>3, <1>4, <1>6
<1> QED BY <1>6, <1>7, <1>8
----------------------------------------------------------------------------
(* Each action preserves the invariant.                                    *)

\* One socket changes, and remains joined, or not, as it was.
LEMMA Changed ==
  ASSUME NEW t, NEW u, NEW l, NEW m, NEW s \in Sockets,
         t \in [Sockets -> Records], u \in [Sockets -> Records], SocketInv(l, t),
         \A q \in Sockets \ {s} : u[q] = t[q] /\ Told(m, q, t[q]) /\ Armed(m, t[q]),
         Sound(u[s]), Told(m, s, u[s]), Armed(m, u[s]), Joined(u, s) <=> Joined(t, s)
  PROVE  SocketInv(m, u)
<1>1. \A q \in Sockets : Sound(u[q]) /\ Told(m, q, u[q]) /\ Armed(m, u[q])
  BY DEF SocketInv
<1>2. \A q \in Sockets : Joined(u, q) <=> Joined(t, q)
  BY DEF Joined
<1>3. \A q \in Sockets : Joined(u, q) => Joined(u, Peer(q))
  BY <1>2, SocketsAssumption DEF SocketInv
<1> QED BY <1>1, <1>3 DEF SocketInv

\* Bytes are sent.
LEMMA SentKeeps ==
  ASSUME NEW t, NEW u, NEW l, NEW s \in Sockets,
         t \in [Sockets -> Records], SocketInv(l, t), Sent(t, u, s)
  PROVE  /\ SocketInv(l, u) /\ u \in [Sockets -> Records]
         /\ \A q \in Sockets : u[q].open = t[q].open
<1>1. ASSUME NEW q \in Sockets PROVE Sound(u[q]) /\ Told(l, q, u[q]) /\ Armed(l, u[q])
  <2>1. /\ u[q].open = t[q].open /\ u[q].link = t[q].link /\ u[q].fin = t[q].fin
        /\ u[q].torn = t[q].torn /\ u[q].mask = t[q].mask /\ u[q].mInBuf = t[q].mInBuf
        /\ "read" \in u[q].mEnabledEvents <=> "read" \in t[q].mEnabledEvents
        /\ t[q].rbuf # <<>> => u[q].rbuf # <<>>
        /\ u[q].rbuf # <<>> => t[q].rbuf # <<>> \/ (q = Peer(s) /\ Joined(t, s))
    BY DEF Sent
  <2>2. Sound(t[q]) /\ Told(l, q, t[q]) /\ Armed(l, t[q])
    BY DEF SocketInv
  <2>3. u[q].rbuf # <<>> => t[q].open /\ t[q].link = "up"
    <3>1. CASE t[q].rbuf # <<>>
      BY <2>2, <3>1 DEF Sound
    <3>2. CASE q = Peer(s) /\ Joined(t, s)
      BY <3>2 DEF SocketInv, Joined
    <3> QED BY <2>1, <3>1, <3>2
  <2> QED BY <2>1, <2>2, <2>3 DEF Sound, Told, Armed, Live
<1>2. \A q \in Sockets : Joined(u, q) <=> Joined(t, q)
  BY DEF Joined, Sent
<1>3. \A q \in Sockets : Joined(u, q) => Joined(u, Peer(q))
  BY <1>2, SocketsAssumption DEF SocketInv
<1> QED BY <1>1, <1>3 DEF SocketInv, Sent

\* The parts of the type.
LEMMA TypeParts ==
  ASSUME TypeOK
  PROVE  /\ mDispatchers \in Seq(Sockets) /\ st \in [Sockets -> Records]
         /\ loop \in Loops /\ sends \in Nat /\ connects \in Nat /\ closes \in Nat
         /\ \A s \in Sockets : st[s] \in Records /\ Peer(s) \in Sockets \ {s}
BY SocketsAssumption DEF TypeOK

\* A change of one socket that is neither opened nor closed, outside the loop.
LEMMA OneSocket ==
  ASSUME IInv, NEW s \in Sockets, NEW x \in Records, st' = [st EXCEPT ![s] = x],
         UNCHANGED <<mDispatchers, loop>>, sends' \in Nat, connects' \in Nat, closes' \in Nat,
         x.open = st[s].open, Sound(x), Told(loop, s, x), Armed(loop, x),
         Joined(st', s) <=> Joined(st, s)
  PROVE  IInv'
<1>t. TypeOK /\ st \in [Sockets -> Records] /\ SocketInv(loop, st) /\ Registered /\ LoopInv(loop)
  BY TypeParts DEF IInv
<1>1. st' \in [Sockets -> Records] /\ st'[s] = x /\ \A q \in Sockets \ {s} : st'[q] = st[q]
  BY <1>t
<1>2. SocketInv(loop, st')
  <2>1. \A q \in Sockets \ {s} : Told(loop, q, st[q]) /\ Armed(loop, st[q])
    BY <1>t DEF SocketInv
  <2>2. \A q \in Sockets \ {s} : st'[q] = st[q] /\ Told(loop, q, st[q]) /\ Armed(loop, st[q])
    BY <1>1, <2>1
  <2>3. Sound(st'[s]) /\ Told(loop, s, st'[s]) /\ Armed(loop, st'[s])
    BY <1>1
  <2>4. SocketInv(loop, st) /\ st \in [Sockets -> Records] /\ st' \in [Sockets -> Records]
    BY <1>t, <1>1
  <2> QED BY <2>2, <2>3, <2>4, Changed
<1>3. \A q \in Sockets : st'[q].open = st[q].open
  BY <1>1
<1> QED BY <1>t, <1>1, <1>2, <1>3 DEF IInv, TypeOK, Registered

\* A socket is opened at the end of the list.
LEMMA OneOpened ==
  ASSUME IInv, NEW s \in Sockets, NEW x \in Records, st' = [st EXCEPT ![s] = x],
         mDispatchers' = Enlist(s), UNCHANGED loop,
         sends' \in Nat, connects' \in Nat, closes' \in Nat,
         x.open, ~st[s].open, Sound(x), Told(loop, s, x), Armed(loop, x), ~Joined(st', s)
  PROVE  IInv'
<1>t. /\ TypeOK /\ st \in [Sockets -> Records] /\ SocketInv(loop, st)
      /\ Registered /\ LoopInv(loop) /\ mDispatchers \in Seq(Sockets)
  BY TypeParts DEF IInv
<1>1. st' \in [Sockets -> Records] /\ st'[s] = x /\ \A q \in Sockets \ {s} : st'[q] = st[q]
  BY <1>t
<1>2. SocketInv(loop, st')
  <2>1. \A q \in Sockets \ {s} : Told(loop, q, st[q]) /\ Armed(loop, st[q])
    BY <1>t DEF SocketInv
  <2>2. ~Joined(st, s)
    BY DEF Joined
  <2> QED BY <1>t, <1>1, <2>1, <2>2, Changed
<1>3. Registered' /\ mDispatchers' \in Seq(Sockets)
  <2>1. mDispatchers \in Lists /\ s \notin ToSet(mDispatchers)
    BY <1>t DEF Registered, Lists
  <2>2. mDispatchers' \in Lists /\ ToSet(mDispatchers') = ToSet(mDispatchers) \union {s}
    BY <2>1, ListMore DEF Enlist
  <2>3. {q \in Sockets : st'[q].open} = {q \in Sockets : st[q].open} \union {s}
    BY <1>1
  <2> QED BY <1>t, <2>2, <2>3 DEF Registered, Lists
<1> QED BY <1>t, <1>1, <1>2, <1>3 DEF IInv, TypeOK

\* Only the loop moves on, from one pass to the next: nothing is left to be told.
LEMMA LoopMoves ==
  ASSUME IInv, UNCHANGED <<mDispatchers, st, sends, connects, closes>>,
         loop' \in Loops, loop'.todo = {}, loop'.at # "wait", ~loop'.called,
         loop'.at = "pass" => loop'.i >= 1
  PROVE  IInv'
<1>1. LoopInv(loop')
  BY DEF LoopInv
<1>2. SocketInv(loop', st)
  BY DEF IInv, SocketInv, Told, Armed
<1> QED BY <1>1, <1>2 DEF IInv, TypeOK, Registered

\* A new socket is at the end of the dispatcher's list and has no connection.
LEMMA CreateKeeps ==
  ASSUME IInv, NEW s \in Sockets, createAsyncSocket(s)
  PROVE  IInv'
<1> DEFINE x == Opened(st[s])
<1>t. TypeOK /\ st \in [Sockets -> Records] /\ st[s] \in Records /\ SocketInv(loop, st)
  BY TypeParts DEF IInv
<1>1. /\ ~st[s].open /\ st[s].link = "none" /\ st[s].mEnabledEvents = {} /\ Len(st[s].mInBuf) < BufSize
  BY <1>t DEF createAsyncSocket, Fresh, SocketInv, Sound
<1>2. /\ st' = [st EXCEPT ![s] = x] /\ mDispatchers' = Enlist(s)
      /\ UNCHANGED <<loop, sends, connects, closes>>
  BY <1>t DEF createAsyncSocket
<1>3. /\ x \in Records /\ x.open /\ x.link = "none" /\ ~x.fin /\ x.rbuf = <<>>
      /\ x.mInBuf = st[s].mInBuf /\ x.mEnabledEvents = st[s].mEnabledEvents
  <2>1. <<>> \in Seq(Bytes)
    OBVIOUS
  <2> QED BY <1>t, <2>1 DEF Opened, Records
<1> HIDE DEF x
<1>4. Sound(x) /\ Told(loop, s, x) /\ Armed(loop, x)
  BY <1>1, <1>3 DEF Sound, Told, Armed, Live
<1>5. ~Joined(st', s)
  BY <1>2, <1>3, <1>t DEF Joined
<1>6. sends' \in Nat /\ connects' \in Nat /\ closes' \in Nat
  BY <1>2, <1>t, TypeParts
<1> QED BY <1>1, <1>2, <1>3, <1>4, <1>5, <1>6, OneOpened

\* A connect that begins turns read on with the other events.
LEMMA ConnectKeeps ==
  ASSUME IInv, NEW s \in Sockets, Connect(s)
  PROVE  IInv'
<1> DEFINE o == IF st[s].open THEN st[s] ELSE Opened(st[s])
           torn == loop.cur = s /\ loop.todo # {}
<1>t. /\ TypeOK /\ st \in [Sockets -> Records] /\ st[s] \in Records /\ SocketInv(loop, st)
      /\ LoopInv(loop) /\ Sound(st[s]) /\ connects \in Nat /\ sends \in Nat /\ closes \in Nat
  BY TypeParts DEF IInv, SocketInv
<1>1. PICK err \in BOOLEAN : st' = [st EXCEPT ![s] = [Connecting(o, err) EXCEPT !.torn = torn]]
  BY <1>t DEF Connect
<1> DEFINE y == Connecting(o, err)
           x == [y EXCEPT !.torn = torn]
<1>2. /\ loop.at # "wait" /\ st[s].link = "none" /\ UNCHANGED <<loop, sends, closes>>
      /\ connects' = connects + 1
      /\ mDispatchers' = IF st[s].open THEN mDispatchers ELSE Enlist(s)
  BY <1>t DEF Connect, OwnerRuns, LoopInv
<1>3. /\ o \in Records /\ o.open /\ o.link = "none" /\ ~o.fin /\ o.rbuf = <<>>
      /\ Len(o.mInBuf) < BufSize
  <2>1. <<>> \in Seq(Bytes)
    OBVIOUS
  <2>2. CASE st[s].open
    BY <1>t, <1>2, <2>2 DEF Sound
  <2>3. CASE ~st[s].open
    <3>1. o = Opened(st[s])
      BY <2>3
    <3> HIDE DEF o
    <3> QED BY <1>t, <2>1, <3>1 DEF Opened, Records, Sound
  <2> QED BY <2>2, <2>3
<1> HIDE DEF o
<1>4. /\ y \in Records /\ y.open /\ y.link \in {"none", "pending"} /\ ~y.fin /\ y.rbuf = <<>>
      /\ y.mInBuf = o.mInBuf /\ "read" \in y.mEnabledEvents
  <2>1. /\ o.mEnabledEvents \union {"read", "write"} \in SUBSET Events
        /\ o.mEnabledEvents \union {"connect", "read", "write"} \in SUBSET Events
    BY <1>3 DEF Records, Events
  <2>2. CASE err
    <3>1. y = [o EXCEPT !.mEnabledEvents = @ \union {"read", "write"}]
      BY <2>2 DEF Connecting
    <3> HIDE DEF y
    <3> QED BY <1>3, <2>1, <3>1 DEF Records
  <2>3. CASE ~err
    <3>1. y = [o EXCEPT !.link = "pending", !.mState = "CONNECTING",
                        !.mEnabledEvents = @ \union {"connect", "read", "write"}]
      BY <2>3 DEF Connecting
    <3> HIDE DEF y
    <3> QED BY <1>3, <2>1, <3>1 DEF Records
  <2> QED BY <2>2, <2>3
<1> HIDE DEF y
<1>5. /\ x \in Records /\ x.open /\ x.link \in {"none", "pending"} /\ ~x.fin /\ x.rbuf = <<>>
      /\ x.mInBuf = o.mInBuf /\ "read" \in x.mEnabledEvents /\ x.torn = torn
  BY <1>4 DEF Records
<1>6. st' = [st EXCEPT ![s] = x]
  BY <1>1 DEF y
<1> HIDE DEF x
<1>7. Sound(x) /\ Told(loop, s, x) /\ Armed(loop, x)
  <2>1. "read" \in loop.todo => loop.todo # {}
    OBVIOUS
  <2> QED BY <1>2, <1>3, <1>5, <2>1 DEF Sound, Told, Armed, Live
<1>8. ~Joined(st', s) /\ ~Joined(st, s)
  BY <1>2, <1>5, <1>6, <1>t DEF Joined
<1>9. sends' \in Nat /\ connects' \in Nat /\ closes' \in Nat
  BY <1>2, <1>t
<1>10. CASE st[s].open
  BY <1>2, <1>5, <1>6, <1>7, <1>8, <1>9, <1>10, OneSocket
<1>11. CASE ~st[s].open
  BY <1>2, <1>5, <1>6, <1>7, <1>8, <1>9, <1>11, OneOpened
<1> QED BY <1>10, <1>11

\* A send reaches the peer of a connection only.
LEMMA SendKeeps ==
  ASSUME IInv, NEW s \in Sockets, NEW p \in Packets, Send(s, p)
  PROVE  IInv'
<1>t. /\ TypeOK /\ st \in [Sockets -> Records] /\ SocketInv(loop, st) /\ Registered
      /\ LoopInv(loop) /\ connects \in Nat /\ sends \in Nat /\ closes \in Nat
  BY TypeParts DEF IInv
<1>1. PICK r \in SendResults(st, s, PktLenSize + Len(p)) : st' = SendPacket(st, s, p, r)
  BY DEF Send
<1>2. UNCHANGED <<mDispatchers, loop, connects, closes>> /\ sends' = sends + 1
  BY DEF Send
<1>3. Sent(st, st', s)
  BY <1>t, <1>1, SendFacts
<1>4. /\ SocketInv(loop, st') /\ st' \in [Sockets -> Records]
      /\ \A q \in Sockets : st'[q].open = st[q].open
  BY <1>t, <1>3, SentKeeps
<1> QED BY <1>t, <1>2, <1>4 DEF IInv, TypeOK, Registered

\* A socket that is closed leaves the list, and its peer learns of it if they were joined.
LEMMA CloseKeeps ==
  ASSUME IInv, NEW s \in Sockets, Close(s)
  PROVE  IInv'
<1> DEFINE p == Peer(s)
           x == Closed(st[s])
           z == [st[p] EXCEPT !.fin = @ \/ Joined(st, s)]
<1>t. /\ TypeOK /\ st \in [Sockets -> Records] /\ st[s] \in Records /\ SocketInv(loop, st)
      /\ LoopInv(loop) /\ Registered /\ connects \in Nat /\ sends \in Nat /\ closes \in Nat
      /\ mDispatchers \in Seq(Sockets)
  BY TypeParts DEF IInv
<1>a. p \in Sockets /\ p # s /\ Peer(p) = s /\ st[p] \in Records
  BY <1>t, SocketsAssumption
<1>1. /\ st[s].open /\ mDispatchers' = Delist(s) /\ closes' = closes + 1
      /\ UNCHANGED <<loop, sends, connects>>
  BY DEF Close
<1>2. /\ st' = [q \in Sockets |-> st'[q]]
      /\ st'[s] = x /\ st'[p] = z /\ \A q \in Sockets \ {s, p} : st'[q] = st[q]
  <2>1. st' = [st EXCEPT ![s] = x, ![p] = z]
    BY <1>a, <1>t DEF Close
  <2> HIDE DEF x, z
  <2> QED BY <2>1, <1>a, <1>t
<1> HIDE DEF p
<1>3. /\ x \in Records /\ ~x.open /\ x.link = "none" /\ x.rbuf = <<>> /\ x.mInBuf = st[s].mInBuf
  <2>1. /\ (st[s].clean /\ st[s].mInBuf = <<>> /\ st[s].mOutBuf = <<>>) \in BOOLEAN
        /\ <<>> \in Seq(Bytes)
    BY <1>t DEF Records
  <2> QED BY <1>t, <2>1 DEF Closed, Records
<1>4. /\ z \in Records /\ z.open = st[p].open /\ z.link = st[p].link /\ z.torn = st[p].torn
      /\ z.mEnabledEvents = st[p].mEnabledEvents /\ z.mask = st[p].mask
      /\ z.rbuf = st[p].rbuf /\ z.mInBuf = st[p].mInBuf /\ z.fin = (st[p].fin \/ Joined(st, s))
  <2>1. (st[p].fin \/ Joined(st, s)) \in BOOLEAN
    BY <1>a, <1>t DEF Joined, Records
  <2> QED BY <1>a, <2>1 DEF Records
<1> HIDE DEF x, z
<1>5. st' \in [Sockets -> Records] /\ st'[s] = x /\ st'[p] = z /\ \A q \in Sockets \ {s, p} : st'[q] = st[q]
  BY <1>t, <1>a, <1>2, <1>3, <1>4
<1>6. \A q \in Sockets : Sound(st'[q]) /\ Told(loop, q, st'[q]) /\ Armed(loop, st'[q])
  <2>1. Sound(st[s]) /\ Sound(st[p]) /\ Told(loop, p, st[p]) /\ Armed(loop, st[p])
    BY <1>t, <1>a DEF SocketInv
  <2>2. Sound(x) /\ Told(loop, s, x) /\ Armed(loop, x)
    BY <1>3, <2>1 DEF Sound, Told, Armed, Live
  <2>3. Joined(st, s) => st[p].link = "up"
    BY <1>t DEF SocketInv, Joined, p
  <2>4. Sound(z) /\ Told(loop, p, z) /\ Armed(loop, z)
    BY <1>4, <2>1, <2>3 DEF Sound, Told, Armed, Live
  <2> QED BY <1>5, <2>2, <2>4, <1>t DEF SocketInv
<1>7. ASSUME NEW q \in Sockets, Joined(st', q) PROVE Joined(st', Peer(q))
  <2>1. q # s
    BY <1>3, <1>5, <1>7 DEF Joined
  <2>2. q # p
    <3>1. SUFFICES ASSUME q = p PROVE FALSE
      OBVIOUS
    <3>2. st[p].open /\ st[p].link = "up" /\ ~st[p].fin /\ ~Joined(st, s)
      BY <1>4, <1>5, <1>7, <3>1 DEF Joined
    <3>3. Joined(st, p)
      BY <3>2 DEF Joined
    <3> QED BY <1>a, <1>t, <3>2, <3>3 DEF SocketInv
  <2>3. Peer(q) \in Sockets \ {s, p}
    BY <2>1, <2>2, <1>a, SocketsAssumption DEF p
  <2>4. Joined(st, q)
    BY <2>1, <2>2, <1>5, <1>7 DEF Joined
  <2> QED BY <2>3, <2>4, <1>5, <1>t DEF SocketInv, Joined
<1>8. Registered' /\ mDispatchers' \in Seq(Sockets)
  <2>1. mDispatchers \in Lists /\ s \in ToSet(mDispatchers)
    BY <1>t, <1>1 DEF Registered, Lists
  <2>2. mDispatchers' \in Lists /\ ToSet(mDispatchers') = ToSet(mDispatchers) \ {s}
    BY <1>1, <2>1, ListLess DEF Delist
  <2>3. {q \in Sockets : st'[q].open} = {q \in Sockets : st[q].open} \ {s}
    BY <1>3, <1>4, <1>5, <1>a
  <2> QED BY <1>t, <2>2, <2>3 DEF Registered, Lists
<1>9. SocketInv(loop, st')
  BY <1>6, <1>7 DEF SocketInv
<1> QED BY <1>t, <1>1, <1>5, <1>8, <1>9 DEF IInv, TypeOK

\* A connection comes up for both ends.
LEMMA LinkUpKeeps ==
  ASSUME IInv, NEW s \in Sockets, LinkUp(s)
  PROVE  IInv'
<1> DEFINE p == Peer(s)
           Up(x) == [x EXCEPT !.link = "up", !.wire = <<>>, !.got = <<>>]
<1>t. /\ TypeOK /\ st \in [Sockets -> Records] /\ SocketInv(loop, st) /\ Registered
      /\ LoopInv(loop) /\ \A q \in Sockets : st[q] \in Records
  BY TypeParts DEF IInv
<1>a. p \in Sockets /\ p # s /\ Peer(p) = s
  BY SocketsAssumption
<1>1. /\ st[s].link = "pending" /\ st[p].link = "pending"
      /\ UNCHANGED <<mDispatchers, loop, sends, connects, closes>>
  BY DEF LinkUp
<1>2. /\ st' = [q \in Sockets |-> st'[q]]
      /\ \A q \in {s, p} : st'[q] = Up(st[q])
      /\ \A q \in Sockets \ {s, p} : st'[q] = st[q]
  BY <1>a DEF LinkUp
<1>3. ASSUME NEW q \in {s, p}
      PROVE  /\ st'[q] \in Records /\ st'[q].open = st[q].open /\ st'[q].link = "up"
             /\ st'[q].fin = st[q].fin /\ st'[q].torn = st[q].torn /\ st'[q].mask = st[q].mask
             /\ st'[q].mEnabledEvents = st[q].mEnabledEvents /\ st'[q].rbuf = st[q].rbuf
             /\ st'[q].mInBuf = st[q].mInBuf
  <2>1. <<>> \in Seq(Seq(Bytes))
    OBVIOUS
  <2>2. st'[q] = Up(st[q])
    BY <1>2
  <2>3. st[q] \in Records
    BY <1>a, <1>t
  <2>4. /\ Up(st[q]).open = st[q].open /\ Up(st[q]).link = "up" /\ Up(st[q]).fin = st[q].fin
        /\ Up(st[q]).torn = st[q].torn /\ Up(st[q]).mask = st[q].mask
        /\ Up(st[q]).mEnabledEvents = st[q].mEnabledEvents
        /\ Up(st[q]).rbuf = st[q].rbuf /\ Up(st[q]).mInBuf = st[q].mInBuf
    BY <2>3 DEF Records
  <2>5. Up(st[q]) \in Records
    BY <2>1, <2>3 DEF Records
  <2> HIDE DEF Up
  <2> QED BY <2>2, <2>4, <2>5
<1> HIDE DEF Up, p
<1>4. st' \in [Sockets -> Records] /\ \A q \in Sockets : st'[q].open = st[q].open
  <2>1. \A q \in Sockets : st'[q] \in Records /\ st'[q].open = st[q].open
    BY <1>2, <1>3, <1>t
  <2> QED BY <2>1, <1>2
<1>5. ASSUME NEW q \in Sockets PROVE Sound(st'[q]) /\ Told(loop, q, st'[q]) /\ Armed(loop, st'[q])
  <2>1. Sound(st[q]) /\ Told(loop, q, st[q]) /\ Armed(loop, st[q])
    BY <1>t DEF SocketInv
  <2>2. CASE q \in {s, p}
    BY <2>1, <2>2, <1>1, <1>3 DEF Sound, Told, Armed, Live
  <2>3. CASE q \notin {s, p}
    BY <2>1, <2>3, <1>2
  <2> QED BY <2>2, <2>3
<1>6. ASSUME NEW q \in Sockets, Joined(st', q) PROVE Joined(st', Peer(q))
  <2>1. CASE q \in {s, p}
    <3>1. Peer(q) \in {s, p}
      BY <2>1, <1>a DEF p
    <3>2. Sound(st[Peer(q)]) /\ st[Peer(q)].link = "pending" /\ Peer(q) \in Sockets
      BY <3>1, <1>1, <1>a, <1>t DEF SocketInv
    <3> QED BY <3>1, <3>2, <1>3 DEF Joined, Sound
  <2>2. CASE q \notin {s, p}
    <3>1. Peer(q) \in Sockets \ {s, p}
      BY <2>2, <1>a, SocketsAssumption DEF p
    <3> QED BY <2>2, <3>1, <1>2, <1>6, <1>t DEF Joined, SocketInv
  <2> QED BY <2>1, <2>2
<1>7. SocketInv(loop, st')
  BY <1>5, <1>6 DEF SocketInv
<1> QED BY <1>t, <1>1, <1>4, <1>7 DEF IInv, TypeOK, Registered

\* A connection that fails is no longer one that data can come over.
LEMMA LinkFailsKeeps ==
  ASSUME IInv, NEW s \in Sockets, LinkFails(s)
  PROVE  IInv'
<1> DEFINE x == [st[s] EXCEPT !.link = "failed"]
<1>t. /\ st \in [Sockets -> Records] /\ st[s] \in Records
      /\ Sound(st[s]) /\ Told(loop, s, st[s]) /\ Armed(loop, st[s])
      /\ connects \in Nat /\ sends \in Nat /\ closes \in Nat
  BY TypeParts DEF IInv, SocketInv
<1>1. /\ st[s].link = "pending" /\ UNCHANGED <<mDispatchers, loop, sends, connects, closes>>
      /\ st' = [st EXCEPT ![s] = x]
  BY DEF LinkFails
<1>2. /\ x \in Records /\ x.link = "failed" /\ x.open = st[s].open /\ x.fin = st[s].fin
      /\ x.rbuf = st[s].rbuf /\ x.mInBuf = st[s].mInBuf /\ x.mask = st[s].mask
      /\ x.mEnabledEvents = st[s].mEnabledEvents /\ x.torn = st[s].torn
  BY <1>t DEF Records
<1> HIDE DEF x
<1>3. Sound(x) /\ Told(loop, s, x) /\ Armed(loop, x)
  BY <1>t, <1>1, <1>2 DEF Sound, Told, Armed, Live
<1>4. ~Joined(st', s) /\ ~Joined(st, s)
  BY <1>t, <1>1, <1>2 DEF Joined
<1>5. sends' \in Nat /\ connects' \in Nat /\ closes' \in Nat
  BY <1>1, <1>t
<1> QED BY <1>1, <1>2, <1>3, <1>4, <1>5, OneSocket

\* wait arms each open socket with the events it asks for.
LEMMA ArmKeeps ==
  ASSUME IInv, Arm
  PROVE  IInv'
<1>t. /\ TypeOK /\ st \in [Sockets -> Records] /\ SocketInv(loop, st) /\ Registered
      /\ \A q \in Sockets : st[q] \in Records
  BY TypeParts DEF IInv
<1>1. /\ loop' = [Idle EXCEPT !.at = "wait"]
      /\ UNCHANGED <<mDispatchers, sends, connects, closes>>
      /\ st' = [s \in Sockets |-> st'[s]]
      /\ \A s \in Sockets : st'[s] = IF Contains(mDispatchers, s)
                                     THEN [st[s] EXCEPT !.index = 0,
                                              !.mask = eventsToFlags(st[s].mEnabledEvents)]
                                     ELSE st[s]
  BY DEF Arm
<1>2. loop' \in Loops /\ loop'.at = "wait" /\ loop'.todo = {} /\ ~loop'.called
  BY <1>1 DEF Idle, Loops
<1>3. \A s \in Sockets : st[s].open => Contains(mDispatchers, s)
  <2>1. mDispatchers \in Lists
    BY <1>t DEF Registered, Lists, TypeOK
  <2> QED BY <2>1, <1>t, ListFacts DEF Registered, Contains
<1>4. ASSUME NEW s \in Sockets
      PROVE  /\ st'[s] \in Records /\ st'[s].open = st[s].open /\ st'[s].link = st[s].link
             /\ st'[s].fin = st[s].fin /\ st'[s].torn = st[s].torn
             /\ st'[s].mEnabledEvents = st[s].mEnabledEvents /\ st'[s].rbuf = st[s].rbuf
             /\ st'[s].mInBuf = st[s].mInBuf
             /\ st[s].open /\ "read" \in st[s].mEnabledEvents => "read" \in st'[s].mask
  <2>1. st[s] \in Records /\ eventsToFlags(st[s].mEnabledEvents) \in SUBSET Events
    BY <1>t DEF Records, eventsToFlags, Events
  <2>2. CASE Contains(mDispatchers, s)
    <3>1. st'[s] = [st[s] EXCEPT !.index = 0, !.mask = eventsToFlags(st[s].mEnabledEvents)]
      BY <1>1, <2>2
    <3>2. "read" \in st[s].mEnabledEvents => "read" \in eventsToFlags(st[s].mEnabledEvents)
      BY DEF eventsToFlags
    <3> QED BY <2>1, <3>1, <3>2 DEF Records
  <2>3. CASE ~Contains(mDispatchers, s)
    BY <1>1, <1>3, <2>1, <2>3
  <2> QED BY <2>2, <2>3
<1>5. st' \in [Sockets -> Records]
  BY <1>1, <1>4
<1>6. \A s \in Sockets : Sound(st'[s]) /\ Told(loop', s, st'[s]) /\ Armed(loop', st'[s])
  <2>1. \A s \in Sockets : Sound(st[s])
    BY <1>t DEF SocketInv
  <2>2. \A s \in Sockets : Sound(st'[s])
    BY <1>4, <2>1 DEF Sound, Live
  <2>3. \A s \in Sockets : Told(loop', s, st'[s])
    BY <1>2 DEF Told
  <2>4. \A s \in Sockets : Armed(loop', st'[s])
    BY <1>4 DEF Armed
  <2> QED BY <2>2, <2>3, <2>4
<1>7. \A s \in Sockets : Joined(st', s) => Joined(st', Peer(s))
  BY <1>4, <1>t, SocketsAssumption DEF Joined, SocketInv
<1>8. LoopInv(loop')
  BY <1>2 DEF LoopInv
<1>9. SocketInv(loop', st')
  BY <1>6, <1>7 DEF SocketInv
<1>10. \A s \in Sockets : st'[s].open = st[s].open
  BY <1>4
<1> QED BY <1>t, <1>1, <1>2, <1>5, <1>8, <1>9, <1>10 DEF IInv, TypeOK, Registered

\* The steps of the loop that look at no socket.
LEMMA LoopKeeps ==
  ASSUME IInv, Signalled \/ TimedOut \/ PassEnds
  PROVE  IInv'
<1>1. /\ loop' = [Idle EXCEPT !.at = "pass", !.i = 1] \/ loop' = Idle
      /\ UNCHANGED <<mDispatchers, st, sends, connects, closes>>
  BY DEF Signalled, TimedOut, PassEnds
<1>2. /\ loop' \in Loops /\ loop'.todo = {} /\ loop'.at # "wait" /\ ~loop'.called
      /\ loop'.at = "pass" => loop'.i >= 1
  <2>1. CASE loop' = Idle
    BY <2>1 DEF Idle, Loops
  <2>2. CASE loop' = [Idle EXCEPT !.at = "pass", !.i = 1]
    <3>1. loop' = [at |-> "pass", i |-> 1, todo |-> {}, cur |-> Nobody, called |-> FALSE]
      BY <2>2 DEF Idle
    <3> QED BY <3>1 DEF Loops
  <2> QED BY <1>1, <2>1, <2>2
<1> QED BY <1>1, <1>2, LoopMoves

\* A read that is going to be told finds something: it has been looked up just now.
LEMMA PassNextKeeps ==
  ASSUME IInv, PassNext
  PROVE  IInv'
<1> DEFINE s == mDispatchers[loop.i]
           ff == IF st[s].index = 0 THEN Recorded(s) ELSE {}
           x == [st[s] EXCEPT !.index = -1, !.mState = IF "connect" \in ff THEN "CONNECTED" ELSE @]
<1>t. /\ TypeOK /\ st \in [Sockets -> Records] /\ SocketInv(loop, st) /\ Registered
      /\ LoopInv(loop) /\ loop \in Loops /\ mDispatchers \in Seq(Sockets)
  BY TypeParts DEF IInv
<1>1. /\ loop.at = "pass" /\ loop.todo = {} /\ loop.i <= Len(mDispatchers)
      /\ UNCHANGED <<mDispatchers, sends, connects, closes>>
      /\ loop' = [loop EXCEPT !.i = @ + 1, !.todo = ff, !.cur = s]
      /\ st' = [st EXCEPT ![s].index = -1,
                          ![s].mState = IF "connect" \in ff THEN "CONNECTED" ELSE @]
  BY DEF PassNext
<1>2. s \in Sockets /\ st[s] \in Records
  <2>1. loop.i \in 1 .. Len(mDispatchers)
    BY <1>t, <1>1 DEF LoopInv, Loops
  <2> QED BY <2>1, <1>t
<1>3. ff \in SUBSET Events /\ ("read" \in ff => st[s].rbuf # <<>>)
  BY DEF Recorded, Happened, Events
<1> HIDE DEF s, ff
<1>4. /\ loop' \in Loops /\ loop'.at = "pass" /\ loop'.todo = ff /\ loop'.cur = s /\ loop'.i >= 1
  <2>1. loop.i \in Nat /\ loop.i >= 1 /\ loop.i + 1 \in Nat /\ loop.i + 1 >= 1
    BY <1>t, <1>1 DEF Loops, LoopInv
  <2>2. /\ loop'.at = "pass" /\ loop'.todo = ff /\ loop'.cur = s /\ loop'.i = loop.i + 1
        /\ loop'.called = loop.called
    BY <1>t, <1>1 DEF Loops
  <2>3. loop' = [at |-> "pass", i |-> loop.i + 1, todo |-> ff, cur |-> s, called |-> loop.called]
    BY <1>t, <1>1 DEF Loops
  <2>4. loop.called \in BOOLEAN
    BY <1>t DEF Loops
  <2>5. loop' \in Loops
    BY <2>1, <2>3, <2>4, <1>2, <1>3 DEF Loops
  <2> QED BY <2>1, <2>2, <2>5
<1>5. /\ x \in Records /\ x.open = st[s].open /\ x.link = st[s].link
      /\ x.fin = st[s].fin /\ x.torn = st[s].torn
      /\ x.mEnabledEvents = st[s].mEnabledEvents /\ x.rbuf = st[s].rbuf
      /\ x.mInBuf = st[s].mInBuf /\ x.mask = st[s].mask
  <2>1. (IF "connect" \in ff THEN "CONNECTED" ELSE st[s].mState) \in
            {"CLOSED", "CONNECTING", "CONNECTED"}
    BY <1>2 DEF Records
  <2> QED BY <1>2, <2>1 DEF Records
<1>6. /\ st' = [q \in Sockets |-> st'[q]] /\ st'[s] = x
      /\ \A q \in Sockets \ {s} : st'[q] = st[q]
  BY <1>1, <1>2, <1>t
<1> HIDE DEF x
<1>7. st' \in [Sockets -> Records] /\ \A q \in Sockets : st'[q].open = st[q].open
  <2>1. \A q \in Sockets : st'[q] \in Records /\ st'[q].open = st[q].open
    BY <1>5, <1>6, <1>t
  <2> QED BY <2>1, <1>6
<1>8. SocketInv(loop', st')
  <2>1. \A q \in Sockets \ {s} : Told(loop', q, st[q]) /\ Armed(loop', st[q])
    BY <1>4 DEF Told, Armed
  <2>2. Sound(x) /\ Told(loop', s, x) /\ Armed(loop', x)
    <3>1. Sound(st[s])
      BY <1>2, <1>t DEF SocketInv
    <3> QED BY <3>1, <1>3, <1>4, <1>5 DEF Sound, Told, Armed, Live
  <2>3. Joined(st', s) <=> Joined(st, s)
    BY <1>5, <1>6 DEF Joined
  <2> QED BY <1>t, <1>2, <1>6, <1>7, <2>1, <2>2, <2>3, Changed
<1>9. LoopInv(loop')
  BY <1>2, <1>4 DEF LoopInv
<1> QED BY <1>t, <1>1, <1>4, <1>7, <1>8, <1>9 DEF IInv, TypeOK, Registered

\* The event that is told next is one of those left.
LEMMA SoonestFacts ==
  ASSUME NEW todo \in SUBSET Events, todo # {}
  PROVE  Soonest(todo) \in todo
<1> DEFINE D == {i \in DOMAIN Order : Order[i] \in todo /\ \A j \in 1 .. i - 1 : Order[j] \notin todo}
<1>1. DOMAIN Order = 1 .. 4 /\ Order[1] = "read" /\ Order[2] = "write" /\ Order[3] = "connect"
      /\ Order[4] = "close"
  BY DEF Order
<1>2. \E i \in 1 .. 4 : Order[i] \in todo
  <2>1. PICK o \in todo : TRUE
    OBVIOUS
  <2>2. o = "read" \/ o = "write" \/ o = "connect" \/ o = "close"
    BY <2>1 DEF Events
  <2>3. 1 \in 1 .. 4 /\ 2 \in 1 .. 4 /\ 3 \in 1 .. 4 /\ 4 \in 1 .. 4
    OBVIOUS
  <2>4. o = Order[1] \/ o = Order[2] \/ o = Order[3] \/ o = Order[4]
    BY <2>2, <1>1
  <2> QED BY <2>1, <2>3, <2>4
<1>3. \E i \in 1 .. 4 : Order[i] \in todo /\ \A j \in 1 .. i - 1 : Order[j] \notin todo
  <2> DEFINE S == {i \in 1 .. 4 : Order[i] \in todo}
  <2>1. S \in SUBSET Nat /\ S # {}
    BY <1>2
  <2>2. PICK i \in S : \A j \in S : i <= j
    <3> HIDE DEF S
    <3> QED BY <2>1, LeastNat
  <2>3. ASSUME NEW j \in 1 .. i - 1 PROVE Order[j] \notin todo
    <3>1. j \in 1 .. 4 /\ ~(i <= j)
      BY <2>2
    <3> QED BY <3>1, <2>2
  <2> QED BY <2>2, <2>3
<1> QED BY <1>1, <1>3 DEF Soonest

\* An event is told: it has been turned off, and what it does turns read on again
\* when there was something to read.
LEMMA EventKeeps ==
  ASSUME IInv, onEvent
  PROVE  IInv'
<1> DEFINE s == loop.cur
           e == Soonest(loop.todo)
           D == IF e = "close" THEN {} ELSE {e}
           t == [st EXCEPT ![s].mEnabledEvents = @ \ D]
<1>t. /\ TypeOK /\ st \in [Sockets -> Records] /\ SocketInv(loop, st) /\ Registered
      /\ LoopInv(loop) /\ loop \in Loops
  BY TypeParts DEF IInv
<1>1. /\ loop.at = "pass" /\ loop.todo # {}
      /\ UNCHANGED <<mDispatchers, sends, connects, closes>>
      /\ loop' = [loop EXCEPT !.todo = @ \ {e}, !.called = TRUE]
      /\ \/ e = "read" /\ st' = onReadEvent(t, s)
         \/ e # "read" /\ st' = t
         \/ /\ e # "read"
            /\ \E r \in SendResults(t, s, Len(t[s].mOutBuf)) : st' = flush(t, s, r)
  BY DEF onEvent
<1>2. s \in Sockets /\ e \in loop.todo /\ st[s] \in Records
  <2>1. loop.todo \in SUBSET Events
    BY <1>t DEF Loops
  <2> QED BY <2>1, <1>1, <1>t, SoonestFacts DEF LoopInv
<1> HIDE DEF s, e
<1>3. /\ loop' \in Loops /\ loop'.at = "pass" /\ loop'.todo = loop.todo \ {e} /\ loop'.cur = s
      /\ loop'.i = loop.i
  <2>1. loop' = [at |-> loop.at, i |-> loop.i, todo |-> loop.todo \ {e}, cur |-> loop.cur, called |-> TRUE]
    BY <1>1, <1>t DEF Loops
  <2>2. /\ loop.i \in Nat /\ loop.todo \in SUBSET Events /\ loop.cur \in Sockets \union {Nobody}
        /\ loop.at = "pass"
    BY <1>1, <1>t DEF Loops
  <2> QED BY <2>1, <2>2 DEF Loops, s
<1>4. LoopInv(loop')
  BY <1>1, <1>2, <1>3, <1>t DEF LoopInv
<1>5. /\ t \in [Sockets -> Records] /\ \A q \in Sockets \ {s} : t[q] = st[q]
      /\ t[s].open = st[s].open /\ t[s].link = st[s].link /\ t[s].fin = st[s].fin
      /\ t[s].torn = st[s].torn /\ t[s].mask = st[s].mask /\ t[s].rbuf = st[s].rbuf
      /\ t[s].mInBuf = st[s].mInBuf
      /\ t[s].mEnabledEvents = st[s].mEnabledEvents \ D
  <2>1. st[s].mEnabledEvents \ D \in SUBSET Events
    BY <1>2 DEF Records
  <2> HIDE DEF D
  <2>2. t[s] = [st[s] EXCEPT !.mEnabledEvents = @ \ D] /\ \A q \in Sockets \ {s} : t[q] = st[q]
    BY <1>2, <1>t
  <2>3. t[s] \in Records
    <3> HIDE DEF t
    <3> DEFINE more == st[s].mEnabledEvents \ D
    <3>1. more \in SUBSET Events
      BY <2>1
    <3> HIDE DEF more
    <3>2. [st[s] EXCEPT !.mEnabledEvents = more] \in Records
      BY <3>1, <1>2 DEF Records
    <3> QED BY <2>2, <3>2 DEF more
  <2>4. t \in [Sockets -> Records]
    BY <2>2, <2>3, <1>t
  <2> HIDE DEF t
  <2> QED BY <2>2, <2>4, <1>2 DEF Records
<1> HIDE DEF t
<1>6. Sound(st[s]) /\ Told(loop, s, st[s]) /\ Armed(loop, st[s])
  BY <1>2, <1>t DEF SocketInv
<1>7. \A q \in Sockets \ {s} : Told(loop', q, t[q]) /\ Armed(loop', t[q])
  BY <1>3 DEF Told, Armed
<1>8. CASE e # "read"
  <2>0. /\ "read" \in t[s].mEnabledEvents <=> "read" \in st[s].mEnabledEvents
        /\ "read" \in loop'.todo => "read" \in loop.todo
        /\ loop'.at # "wait"
    BY <1>3, <1>5, <1>8
  <2>1. Sound(t[s]) /\ Told(loop', s, t[s]) /\ Armed(loop', t[s])
    <3>1. Live(t[s]) <=> Live(st[s])
      BY <1>5 DEF Live
    <3>2. Sound(t[s])
      <4>1. Live(t[s]) => "read" \in t[s].mEnabledEvents
        BY <1>6, <2>0, <3>1 DEF Sound
      <4> QED BY <1>5, <1>6, <4>1 DEF Sound
    <3>3. Told(loop', s, t[s])
      <4>1. loop.cur = s
        BY DEF s
      <4> QED BY <4>1, <1>5, <1>6, <2>0, <3>1 DEF Told
    <3>4. Armed(loop', t[s])
      BY <2>0 DEF Armed
    <3> QED BY <3>2, <3>3, <3>4
  <2>2. Joined(t, s) <=> Joined(st, s)
    BY <1>5 DEF Joined
  <2>3. SocketInv(loop', t)
    <3>1. \A q \in Sockets \ {s} : t[q] = st[q] /\ Told(loop', q, st[q]) /\ Armed(loop', st[q])
      BY <1>5, <1>7
    <3> QED BY <1>2, <1>5, <1>t, <2>1, <2>2, <3>1, Changed
  <2>4. \A q \in Sockets : t[q].open = st[q].open
    BY <1>5
  <2>5. /\ SocketInv(loop', st') /\ st' \in [Sockets -> Records]
        /\ \A q \in Sockets : st'[q].open = st[q].open
    <3>1. CASE st' = t
      BY <3>1, <1>5, <2>3, <2>4
    <3>2. ASSUME NEW r \in SendResults(t, s, Len(t[s].mOutBuf)), st' = flush(t, s, r)
          PROVE  /\ SocketInv(loop', st') /\ st' \in [Sockets -> Records]
                 /\ \A q \in Sockets : st'[q].open = st[q].open
      <4>1. Sent(t, st', s)
        BY <1>2, <1>5, <3>2, FlushFacts
      <4> QED BY <1>2, <1>5, <2>3, <2>4, <4>1, SentKeeps
    <3> QED BY <1>1, <1>8, <3>1, <3>2
  <2> QED BY <1>t, <1>1, <1>3, <1>4, <2>5 DEF IInv, TypeOK, Registered
<1>9. CASE e = "read"
  <2>1. st' = onReadEvent(t, s)
    BY <1>1, <1>9
  <2>2. Len(t[s].mInBuf) < BufSize
    BY <1>5, <1>6 DEF Sound
  <2>3. Read(t, st', s)
    BY <1>2, <1>5, <2>1, <2>2, ReadFacts
  <2>4. /\ st' \in [Sockets -> Records]
        /\ \A q \in Sockets \ {s} : st'[q] = st[q]
        /\ st'[s].open = st[s].open /\ st'[s].link = st[s].link /\ st'[s].fin = st[s].fin
        /\ st'[s].torn = st[s].torn
        /\ st'[s].rbuf # <<>> => st[s].rbuf # <<>>
        /\ Len(st'[s].mInBuf) < BufSize
        /\ st[s].open /\ st[s].rbuf # <<>> => "read" \in st'[s].mEnabledEvents
    BY <2>3, <1>5 DEF Read
  <2>5. "read" \in loop.todo /\ "read" \notin loop'.todo
    BY <1>2, <1>3, <1>9
  <2>6. Live(st'[s]) => st[s].open /\ st[s].rbuf # <<>>
    BY <1>6, <2>4, <2>5 DEF Told, Sound, Live, s
  <2>7. Sound(st'[s]) /\ Told(loop', s, st'[s]) /\ Armed(loop', st'[s])
    BY <1>3, <1>6, <2>4, <2>5, <2>6 DEF Sound, Told, Armed
  <2>8. Joined(st', s) <=> Joined(st, s)
    BY <2>4 DEF Joined
  <2>9. SocketInv(loop', st')
    <3>1. \A q \in Sockets \ {s} : st'[q] = st[q] /\ Told(loop', q, st[q]) /\ Armed(loop', st[q])
      BY <1>5, <1>7, <2>4
    <3> QED BY <1>2, <1>t, <2>4, <2>7, <2>8, <3>1, Changed
  <2>10. \A q \in Sockets : st'[q].open = st[q].open
    BY <2>4
  <2> QED BY <1>t, <1>1, <1>3, <1>4, <2>4, <2>9, <2>10 DEF IInv, TypeOK, Registered
<1> QED BY <1>8, <1>9

\* The dispatcher begins idle, with an empty list.
LEMMA InitIInv == Init => IInv
<1> SUFFICES ASSUME Init PROVE IInv
  OBVIOUS
<1>1. /\ mDispatchers = <<>> /\ loop = Idle /\ st = [s \in Sockets |-> Fresh]
      /\ sends = 0 /\ connects = 0 /\ closes = 0
  BY DEF Init
<1>2. Fresh \in Records /\ Sound(Fresh)
  <2>1. <<>> \in Seq(Bytes) /\ <<>> \in Seq(Seq(Bytes)) /\ Len(<<>>) = 0
    OBVIOUS
  <2>2. 0 < BufSize
    BY WeightFacts, SocketsAssumption
  <2> QED BY <2>1, <2>2 DEF Fresh, Records, Sound, Live
<1>3. loop \in Loops /\ loop.at = "idle" /\ loop.todo = {} /\ ~loop.called
  BY <1>1 DEF Idle, Loops
<1>4. st \in [Sockets -> Records] /\ \A s \in Sockets : st[s] = Fresh /\ ~st[s].open
  BY <1>1, <1>2 DEF Fresh
<1>5. TypeOK
  <2>1. mDispatchers \in Seq(Sockets)
    BY <1>1
  <2> QED BY <1>1, <1>3, <1>4, <2>1 DEF TypeOK
<1>6. Registered
  <2>1. {s \in Sockets : st[s].open} = {}
    BY <1>4
  <2> QED BY <1>1, <2>1 DEF Registered, IsInjective, ToSet
<1>7. SocketInv(loop, st)
  BY <1>2, <1>3, <1>4 DEF SocketInv, Told, Armed, Joined
<1> QED BY <1>3, <1>5, <1>6, <1>7 DEF IInv, LoopInv

\* Every step keeps the invariant.
LEMMA NextIInv == IInv /\ [Next]_vars => IInv'
<1> SUFFICES ASSUME IInv, [Next]_vars PROVE IInv'
  OBVIOUS
<1>1. CASE UNCHANGED vars
  BY <1>1 DEF vars, IInv, TypeOK, Registered
<1>2. CASE Loop
  BY <1>2, ArmKeeps, LoopKeeps, PassNextKeeps, EventKeeps DEF Loop
<1>3. ASSUME NEW s \in Sockets,
             createAsyncSocket(s) \/ Connect(s) \/ Close(s) \/ LinkUp(s) \/ LinkFails(s)
      PROVE  IInv'
  BY <1>3, CreateKeeps, ConnectKeeps, CloseKeeps, LinkUpKeeps, LinkFailsKeeps
<1>4. ASSUME NEW s \in Sockets, NEW p \in Packets, Send(s, p) PROVE IInv'
  BY <1>4, SendKeeps
<1> QED BY <1>1, <1>2, <1>3, <1>4 DEF Next
----------------------------------------------------------------------------
(* Framing: what has been sent and not been signalled is on its way.       *)

Short == {p \in Seq(Bytes) : Len(p) < MaxPacketSize}
Frame(p) == Digits(PacketLength(Len(p))) \o p

\* The bytes of the packets of w.
Frames(w) ==
    LET upTo[k \in 0 .. Len(w)] == IF k = 0 THEN <<>> ELSE upTo[k - 1] \o Frame(w[k])
    IN  upTo[Len(w)]

\* The packets of a wire that have not been got are those in an input buffer, in a
\* connection and in an output buffer.
Carries(wire, got, m, b, o) ==
    \E w \in Seq(Short) : wire = got \o w /\ Frames(w) = (m \o b) \o o

\* The input buffer holds no whole packet.
Settled(m) == Len(m) >= PktLenSize => Len(m) < PktLenSize + Value(m)

Idles(x) == x.link # "up" => x.mInBuf = <<>> /\ x.mOutBuf = <<>>
Linked(x, y) == x.link = "up" => Carries(y.wire, x.got, x.mInBuf, x.rbuf, y.mOutBuf)
Joint(t) == \A s \in Sockets : Idles(t[s]) /\ Linked(t[s], t[Peer(s)])
FrameInv(t) ==
    /\ \A s \in Sockets : Settled(t[s].mInBuf)
    /\ (\A s \in Sockets : t[s].clean) => Joint(t)

\* A packet with its length.
LEMMA FrameFacts ==
  ASSUME NEW p \in Seq(Bytes)
  PROVE  /\ Frame(p) \in Seq(Bytes) /\ Len(Frame(p)) = PktLenSize + Len(p)
         /\ \A i \in 1 .. PktLenSize : Frame(p)[i] = Digits(PacketLength(Len(p)))[i]
         /\ \A i \in 1 .. Len(p) : Frame(p)[PktLenSize + i] = p[i]
<1> DEFINE d == Digits(PacketLength(Len(p)))
<1>1. Len(p) \in Nat /\ PktLenSize \in Nat
  BY SocketsAssumption
<1>2. d \in Seq(Bytes) /\ Len(d) = PktLenSize
  <2>1. PacketLength(Len(p)) \in Nat
    BY <1>1, DigitsFacts
  <2> QED BY <2>1, DigitsFacts
<1>3. Frame(p) = d \o p
  BY DEF Frame
<1> HIDE DEF d
<1>4. /\ d \o p \in Seq(Bytes) /\ Len(d \o p) = Len(d) + Len(p)
      /\ \A i \in 1 .. Len(d) + Len(p) : (d \o p)[i] = IF i <= Len(d) THEN d[i] ELSE p[i - Len(d)]
  BY <1>2, ConcatProperties
<1>5. \A i \in 1 .. PktLenSize : (d \o p)[i] = d[i]
  BY <1>1, <1>2, <1>4
<1>6. \A i \in 1 .. Len(p) : (d \o p)[PktLenSize + i] = p[i]
  <2>1. ASSUME NEW i \in 1 .. Len(p) PROVE (d \o p)[PktLenSize + i] = p[i]
    <3>1. /\ PktLenSize + i \in 1 .. Len(d) + Len(p) /\ ~(PktLenSize + i <= Len(d))
          /\ (PktLenSize + i) - Len(d) = i
      BY <1>1, <1>2
    <3> QED BY <3>1, <1>4
  <2> QED BY <2>1
<1> QED BY <1>2, <1>3, <1>4, <1>5, <1>6 DEF d

Join(a, b) == a \o b

\* Bytes are joined in any grouping.
LEMMA Joins ==
  ASSUME NEW a \in Seq(Bytes), NEW b \in Seq(Bytes), NEW c \in Seq(Bytes)
  PROVE  Join(a, b) \in Seq(Bytes) /\ Join(Join(a, b), c) = Join(a, Join(b, c))
<1>1. a \o b \in Seq(Bytes) /\ (a \o b) \o c = a \o (b \o c)
  BY ConcatProperties, ConcatAssociative
<1> QED BY Zenon, <1>1 DEF Join

Adds(w, f) == f[0] = <<>> /\ \A k \in 1 .. Len(w) : f[k] = f[k - 1] \o Frame(w[k])

\* The bytes of packets are added packet by packet.
LEMMA FrameSteps ==
  ASSUME NEW w \in Seq(Seq(Bytes))
  PROVE  \E f : Adds(w, f) /\ Frames(w) = f[Len(w)] /\ \A k \in 0 .. Len(w) : f[k] \in Seq(Bytes)
<1> DEFINE n == Len(w)
           S == Seq(Bytes)
           none == <<>>
           More(a, k) == a \o Frame(w[k])
           F == [p \in (1 .. n) \X S |-> More(p[2], p[1])]
           Step(f) == [k \in 0 .. n |-> IF k = 0 THEN none ELSE More(f[k - 1], k)]
           upTo == CHOOSE f : f = Step(f)
<1>a. n \in Nat /\ none \in S
  OBVIOUS
<1>s. ASSUME NEW x \in S, NEW k \in 1 .. n PROVE More(x, k) \in S
  <2>1. w[k] \in Seq(Bytes)
    OBVIOUS
  <2>2. Frame(w[k]) \in Seq(Bytes)
    BY <2>1, FrameFacts
  <2> QED BY <2>2
<1>6. Frames(w) = upTo[n]
  BY DEF Frames
<1>7. \A f : Adds(w, f) <=> f[0] = none /\ \A k \in 1 .. n : f[k] = More(f[k - 1], k)
  BY DEF Adds
<1> HIDE DEF n, S, none, More
<1>1. F \in [(1 .. n) \X S -> S]
  BY <1>s
<1> HIDE DEF F
<1>2. PICK g : Steps(g, n, S, none, F)
  BY <1>1, <1>a, StepsExist
<1>3. \A k \in 1 .. n : g[k] = More(g[k - 1], k)
  <2>1. ASSUME NEW k \in 1 .. n PROVE g[k] = More(g[k - 1], k)
    <3>1. g[k - 1] \in S
      BY <1>a, <1>2 DEF Steps
    <3>2. F[<<k, g[k - 1]>>] = More(g[k - 1], k)
      BY <3>1 DEF F
    <3> QED BY <1>2, <3>2 DEF Steps
  <2> QED BY <2>1
<1>4. g = Step(g)
  BY <1>2, <1>3, <1>a DEF Steps
<1>5. upTo = Step(upTo)
  <2> HIDE DEF Step
  <2> QED BY <1>4
<1> HIDE DEF upTo
<1>8. upTo[0] = none /\ \A k \in 1 .. n : upTo[k] = More(upTo[k - 1], k)
  BY <1>5, <1>a
<1>9. \A k \in 0 .. n : upTo[k] \in S
  <2> DEFINE P == {k \in 0 .. n : upTo[k] \in S}
  <2>1. 0 \in P
    BY <1>a, <1>8
  <2>2. ASSUME NEW k \in 1 .. n, k - 1 \in P PROVE k \in P
    BY <2>2, <1>8, <1>a, <1>s
  <2>3. \A k \in 0 .. n : k \in P
    <3> HIDE DEF P
    <3> QED BY <2>1, <2>2, <1>a, Upward
  <2> QED BY <2>3
<1>10. Adds(w, upTo)
  BY <1>7, <1>8
<1> QED BY <1>6, <1>9, <1>10 DEF n, S

\* No packets have no bytes; packets have as many bytes as anything else.
LEMMA FramesFacts ==
  /\ Frames(<<>>) = <<>>
  /\ \A w \in Seq(Seq(Bytes)) : Frames(w) \in Seq(Bytes)
<1>1. ASSUME NEW w \in Seq(Seq(Bytes)) PROVE Frames(w) \in Seq(Bytes)
  <2>1. PICK f : Frames(w) = f[Len(w)] /\ \A k \in 0 .. Len(w) : f[k] \in Seq(Bytes)
    BY FrameSteps
  <2>2. Len(w) \in 0 .. Len(w)
    OBVIOUS
  <2> QED BY <2>1, <2>2
<1>2. Frames(<<>>) = <<>>
  <2>1. <<>> \in Seq(Seq(Bytes)) /\ Len(<<>>) = 0
    OBVIOUS
  <2>2. PICK f : Adds(<<>>, f) /\ Frames(<<>>) = f[Len(<<>>)]
    BY <2>1, FrameSteps
  <2> QED BY <2>1, <2>2 DEF Adds
<1> QED BY <1>1, <1>2

\* A packet more has its bytes at the end.
LEMMA FramesMore ==
  ASSUME NEW w \in Seq(Seq(Bytes)), NEW p \in Seq(Bytes)
  PROVE  Frames(Append(w, p)) = Frames(w) \o Frame(p)
<1> DEFINE n == Len(w)
           v == Append(w, p)
           More(a, k) == a \o Frame(w[k])
           P(f, g) == {k \in 0 .. n : g[k] = f[k]}
<1>a. n \in Nat /\ v \in Seq(Seq(Bytes)) /\ Len(v) = n + 1 /\ v[n + 1] = p /\ \A k \in 1 .. n : v[k] = w[k]
  OBVIOUS
<1> HIDE DEF v
<1>1. PICK f : Adds(w, f) /\ Frames(w) = f[n]
  BY FrameSteps
<1>2. PICK g : Adds(v, g) /\ Frames(v) = g[Len(v)]
  BY <1>a, FrameSteps
<1>3. f[0] = <<>> /\ g[0] = <<>> /\ \A k \in 1 .. n : f[k] = More(f[k - 1], k)
  BY Zenon, <1>1, <1>2 DEF Adds
<1>4. ASSUME NEW k \in 1 .. n PROVE g[k] = More(g[k - 1], k)
  <2>1. k \in 1 .. Len(v) /\ v[k] = w[k]
    BY <1>a
  <2>2. g[k] = g[k - 1] \o Frame(v[k])
    BY Zenon, <2>1, <1>2 DEF Adds
  <2> QED BY Zenon, <2>1, <2>2
<1>5. g[n + 1] = g[n] \o Frame(p)
  <2>1. n + 1 \in 1 .. Len(v) /\ (n + 1) - 1 = n
    BY <1>a
  <2>2. g[n + 1] = g[(n + 1) - 1] \o Frame(v[n + 1])
    BY Zenon, <2>1, <1>2 DEF Adds
  <2> QED BY Zenon, <2>1, <2>2, <1>a
<1> HIDE DEF n, More
<1>6. 0 \in P(f, g)
  BY <1>a, <1>3
<1>7. ASSUME NEW k \in 1 .. n, k - 1 \in P(f, g) PROVE k \in P(f, g)
  BY <1>3, <1>4, <1>7, <1>a
<1>8. \A k \in 0 .. n : k \in P(f, g)
  <2> HIDE DEF P
  <2> QED BY <1>6, <1>7, <1>a, Upward
<1>9. g[n] = f[n]
  BY <1>8, <1>a
<1>10. Frames(v) = g[n + 1]
  BY <1>2, <1>a
<1> QED BY Zenon, <1>1, <1>5, <1>9, <1>10 DEF v

\* The first packet has its bytes in front.
LEMMA FramesFirst ==
  ASSUME NEW w \in Seq(Seq(Bytes)), w # <<>>
  PROVE  Frames(w) = Frame(Head(w)) \o Frames(Tail(w))
<1> DEFINE h == Frame(Head(w))
           v == Tail(w)
           n == Len(v)
           More(a, k) == a \o Frame(v[k])
           Behind(a) == h \o a
           P(f, g) == {k \in 0 .. n : g[k + 1] = Behind(f[k])}
<1>a. /\ n \in Nat /\ v \in Seq(Seq(Bytes)) /\ Len(w) = n + 1 /\ w[1] = Head(w)
      /\ Head(w) \in Seq(Bytes) /\ \A k \in 1 .. n : v[k] = w[k + 1]
  OBVIOUS
<1> HIDE DEF v
<1>h. h \in Seq(Bytes) /\ \A k \in 1 .. n : Frame(v[k]) \in Seq(Bytes)
  <2>1. \A k \in 1 .. n : v[k] \in Seq(Bytes)
    BY <1>a
  <2> QED BY <2>1, <1>a, FrameFacts
<1>1. PICK f : Adds(v, f) /\ Frames(v) = f[n] /\ \A k \in 0 .. n : f[k] \in Seq(Bytes)
  BY <1>a, FrameSteps
<1>2. PICK g : Adds(w, g) /\ Frames(w) = g[Len(w)]
  BY FrameSteps
<1>3. f[0] = <<>> /\ g[0] = <<>> /\ \A k \in 1 .. n : f[k] = More(f[k - 1], k)
  BY Zenon, <1>1, <1>2 DEF Adds
<1>4. g[1] = Behind(f[0])
  <2>1. 1 \in 1 .. Len(w) /\ 1 - 1 = 0
    BY <1>a
  <2>2. g[1] = g[1 - 1] \o Frame(w[1])
    BY Zenon, <2>1, <1>2 DEF Adds
  <2>3. <<>> \o h = h /\ h \o <<>> = h
    BY <1>h, ConcatEmptySeq
  <2> QED BY Zenon, <2>1, <2>2, <2>3, <1>3, <1>a
<1>5. ASSUME NEW k \in 1 .. n PROVE g[k + 1] = More(g[k], k)
  <2>1. k + 1 \in 1 .. Len(w) /\ (k + 1) - 1 = k /\ v[k] = w[k + 1]
    BY <1>a
  <2>2. g[k + 1] = g[(k + 1) - 1] \o Frame(w[k + 1])
    BY Zenon, <2>1, <1>2 DEF Adds
  <2> QED BY Zenon, <2>1, <2>2
<1>6. ASSUME NEW k \in 1 .. n PROVE More(Behind(f[k - 1]), k) = Behind(More(f[k - 1], k))
  <2>1. f[k - 1] \in Seq(Bytes)
    BY <1>1, <1>a
  <2>2. Frame(v[k]) \in Seq(Bytes)
    BY <1>h
  <2> HIDE DEF h
  <2>3. (h \o f[k - 1]) \o Frame(v[k]) = h \o (f[k - 1] \o Frame(v[k]))
    <3>1. Join(Join(h, f[k - 1]), Frame(v[k])) = Join(h, Join(f[k - 1], Frame(v[k])))
      BY <2>1, <2>2, <1>h, Joins
    <3> QED BY Zenon, <3>1 DEF Join
  <2> QED BY Zenon, <2>3
<1>7. Frames(w) = g[n + 1] /\ Frames(v) = f[n]
  BY <1>1, <1>2, <1>a
<1> HIDE DEF n, More, Behind
<1>8. 0 \in P(f, g)
  BY <1>a, <1>4
<1>9. ASSUME NEW k \in 1 .. n, k - 1 \in P(f, g) PROVE k \in P(f, g)
  <2>1. k - 1 \in 0 .. n /\ (k - 1) + 1 = k /\ k \in 0 .. n
    BY <1>a
  <2>2. g[k] = Behind(f[k - 1])
    BY <2>1, <1>9
  <2> QED BY <2>1, <2>2, <1>3, <1>5, <1>6
<1>10. \A k \in 0 .. n : k \in P(f, g)
  <2> HIDE DEF P
  <2> QED BY <1>8, <1>9, <1>a, Upward
<1>11. g[n + 1] = Behind(f[n])
  BY <1>10, <1>a
<1> QED BY Zenon, <1>7, <1>11 DEF Behind, v, h

SameBytes(h, z, m, c) == h \o z = m \o c /\ Len(h) <= Len(m)

\* What begins a sequence of bytes, and is no longer than its first part, begins that part.
LEMMA Splits ==
  ASSUME NEW h \in Seq(Bytes), NEW z \in Seq(Bytes), NEW m \in Seq(Bytes), NEW c \in Seq(Bytes),
         SameBytes(h, z, m, c)
  PROVE  /\ SubSeq(m, Len(h) + 1, Len(m)) \in Seq(Bytes)
         /\ z = SubSeq(m, Len(h) + 1, Len(m)) \o c
         /\ \A i \in 1 .. Len(h) : m[i] = h[i]
<1> DEFINE n == Len(h)
           l == Len(m)
           v == SubSeq(m, n + 1, l)
<1>0. h \o z = m \o c /\ Len(h) <= Len(m)
  BY DEF SameBytes
<1>1. n \in Nat /\ l \in Nat /\ n <= l
  BY <1>0
<1>2. \A i \in n + 1 .. l : m[i] \in Bytes
  OBVIOUS
<1>h. /\ Len(h \o z) = n + Len(z) /\ Len(m \o c) = l + Len(c)
      /\ \A i \in 1 .. n + Len(z) : (h \o z)[i] = IF i <= n THEN h[i] ELSE z[i - n]
      /\ \A i \in 1 .. l + Len(c) : (m \o c)[i] = IF i <= l THEN m[i] ELSE c[i - l]
  BY ConcatProperties
<1>l. Len(z) \in Nat /\ Len(c) \in Nat
  OBVIOUS
<1> HIDE DEF n, l
<1>3. v \in Seq(Bytes) /\ Len(v) = l - n /\ \A i \in 1 .. l - n : v[i] = m[n + i]
  <2>1. /\ v \in Seq(Bytes) /\ Len(v) = (IF n + 1 <= l THEN l - (n + 1) + 1 ELSE 0)
        /\ \A i \in 1 .. l - (n + 1) + 1 : v[i] = m[n + 1 + i - 1]
    BY <1>1, <1>2, SubSeqProperties
  <2> HIDE DEF v
  <2> QED BY <2>1, <1>1
<1> HIDE DEF v
<1>4. \A i \in 1 .. n : m[i] = h[i]
  <2>1. ASSUME NEW i \in 1 .. n PROVE m[i] = h[i]
    <3>1. i \in 1 .. n + Len(z) /\ i \in 1 .. l + Len(c) /\ i <= n /\ i <= l
      BY <1>1, <1>l
    <3>2. (h \o z)[i] = h[i] /\ (m \o c)[i] = m[i]
      BY <3>1, <1>h
    <3> QED BY <3>2, <1>0
  <2> QED BY <2>1
<1>5. /\ v \o c \in Seq(Bytes) /\ Len(v \o c) = (l - n) + Len(c)
      /\ \A i \in 1 .. (l - n) + Len(c) : (v \o c)[i] = IF i <= l - n THEN v[i] ELSE c[i - (l - n)]
  <2>1. /\ v \o c \in Seq(Bytes) /\ Len(v \o c) = Len(v) + Len(c)
        /\ \A i \in 1 .. Len(v) + Len(c) : (v \o c)[i] = IF i <= Len(v) THEN v[i] ELSE c[i - Len(v)]
    BY <1>3, ConcatProperties
  <2> QED BY <2>1, <1>3
<1>6. Len(z) = (l - n) + Len(c)
  BY <1>0, <1>h, <1>1, <1>l
<1>7. \A i \in 1 .. Len(z) : z[i] = (v \o c)[i]
  <2>1. ASSUME NEW i \in 1 .. Len(z) PROVE z[i] = (v \o c)[i]
    <3>1. n + i \in 1 .. n + Len(z) /\ n + i \in 1 .. l + Len(c) /\ ~(n + i <= n) /\ (n + i) - n = i
      BY <1>1, <1>l, <1>6
    <3>2. (h \o z)[n + i] = z[i]
      BY <3>1, <1>h
    <3>3. CASE i <= l - n
      <4>1. (v \o c)[i] = v[i] /\ v[i] = m[n + i] /\ n + i <= l
        BY <3>3, <1>1, <1>3, <1>5, <1>6
      <4>2. (m \o c)[n + i] = m[n + i]
        BY <3>1, <4>1, <1>h
      <4> QED BY <1>0, <3>2, <4>1, <4>2
    <3>4. CASE ~(i <= l - n)
      <4>1. (v \o c)[i] = c[i - (l - n)] /\ ~(n + i <= l) /\ (n + i) - l = i - (l - n)
        BY <3>4, <1>1, <1>5, <1>6
      <4>2. (m \o c)[n + i] = c[(n + i) - l]
        BY <3>1, <4>1, <1>h
      <4> QED BY <1>0, <3>2, <4>1, <4>2
    <3> QED BY <3>3, <3>4
  <2> QED BY <2>1
<1>8. z = v \o c
  BY <1>5, <1>6, <1>7, SeqEqual
<1> QED BY <1>3, <1>4, <1>8 DEF n, l, v

\* What has been got is got when the first of what has not follows.
LEMMA GotMore ==
  ASSUME NEW T, NEW g \in Seq(T), NEW w \in Seq(T), w # <<>>
  PROVE  g \o w = Append(g, Head(w)) \o Tail(w)
<1> DEFINE a == Append(g, Head(w))
           v == Tail(w)
<1>1. Len(g) \in Nat /\ Len(w) \in Nat \ {0}
  OBVIOUS
<1>2. /\ a \in Seq(T) /\ Len(a) = Len(g) + 1 /\ a[Len(g) + 1] = w[1]
      /\ \A i \in 1 .. Len(g) : a[i] = g[i]
  OBVIOUS
<1>3. v \in Seq(T) /\ Len(v) = Len(w) - 1 /\ \A i \in 1 .. Len(v) : v[i] = w[i + 1]
  BY HeadTailProperties
<1> HIDE DEF a, v
<1>4. /\ g \o w \in Seq(T) /\ Len(g \o w) = Len(g) + Len(w)
      /\ \A i \in 1 .. Len(g) + Len(w) : (g \o w)[i] = IF i <= Len(g) THEN g[i] ELSE w[i - Len(g)]
  BY ConcatProperties
<1>5. /\ a \o v \in Seq(T) /\ Len(a \o v) = Len(a) + Len(v)
      /\ \A i \in 1 .. Len(a) + Len(v) : (a \o v)[i] = IF i <= Len(a) THEN a[i] ELSE v[i - Len(a)]
  BY <1>2, <1>3, ConcatProperties
<1>6. ASSUME NEW i \in 1 .. Len(g) + Len(w) PROVE (g \o w)[i] = (a \o v)[i]
  <2>1. i \in 1 .. Len(a) + Len(v)
    BY <1>1, <1>2, <1>3
  <2>2. CASE i <= Len(g)
    BY <2>1, <2>2, <1>1, <1>2, <1>4, <1>5
  <2>3. CASE i = Len(g) + 1
    BY <2>1, <2>3, <1>1, <1>2, <1>4, <1>5
  <2>4. CASE i > Len(g) + 1
    <3>1. (a \o v)[i] = v[i - Len(a)] /\ (g \o w)[i] = w[i - Len(g)]
      BY <2>1, <2>4, <1>1, <1>2, <1>4, <1>5
    <3>2. i - Len(a) \in 1 .. Len(v) /\ (i - Len(a)) + 1 = i - Len(g)
      BY <2>4, <1>1, <1>2, <1>3
    <3> QED BY <3>1, <3>2, <1>3
  <2>5. i <= Len(g) \/ i = Len(g) + 1 \/ i > Len(g) + 1
    BY <1>1
  <2> QED BY Zenon, <2>2, <2>3, <2>4, <2>5
<1>7. Len(g \o w) = Len(a \o v)
  BY <1>1, <1>2, <1>3, <1>4, <1>5
<1>8. g \o w = a \o v
  BY <1>4, <1>5, <1>6, <1>7, SeqEqual
<1> QED BY <1>8 DEF a, v

Whole(m) == Len(m) >= PktLenSize /\ Len(m) >= PktLenSize + Value(m)

\* The packet at the front of a buffer is the first that has not been got.
LEMMA FirstPacket ==
  ASSUME NEW w \in Seq(Short), NEW m \in Seq(Bytes), NEW c \in Seq(Bytes),
         Frames(w) = m \o c, Whole(m)
  PROVE  /\ w # <<>> /\ Value(m) = Len(Head(w))
         /\ SubSeq(m, PktLenSize + 1, PktLenSize + Value(m)) = Head(w)
         /\ Frames(Tail(w)) = SubSeq(m, PktLenSize + Value(m) + 1, Len(m)) \o c
<1> DEFINE p == Head(w)
           h == Frame(p)
           z == Frames(Tail(w))
<1>a. PktLenSize \in Nat \ {0} /\ Len(m) \in Nat /\ Len(c) \in Nat
  BY SocketsAssumption
<1>b. Len(m) >= PktLenSize /\ Len(m) >= PktLenSize + Value(m)
  BY DEF Whole
<1>s. Short \subseteq Seq(Bytes) /\ w \in Seq(Seq(Bytes))
  <2>1. Short \subseteq Seq(Bytes)
    BY DEF Short
  <2> QED BY <2>1, SeqMonotonic
<1>1. w # <<>>
  <2> SUFFICES ASSUME w = <<>> PROVE FALSE
    OBVIOUS
  <2>1. m \o c = <<>>
    BY FramesFacts
  <2>2. m = <<>>
    BY <2>1, ConcatEqualIffEmpty
  <2>3. Len(m) = 0
    BY <2>2
  <2> QED BY <2>3, <1>a, <1>b
<1>2. p \in Short /\ Tail(w) \in Seq(Seq(Bytes))
  BY <1>1, <1>s, HeadTailProperties
<1>3. p \in Seq(Bytes) /\ Len(p) \in Nat /\ Len(p) < MaxPacketSize
  BY <1>2 DEF Short
<1>4. PacketLength(Len(p)) = Len(p)
  <2>1. \A k \in Nat, l \in Nat \ {0} : k < l => k % l = k
    OBVIOUS
  <2>2. MaxPacketSize \in Nat \ {0}
    BY WeightFacts
  <2>3. Len(p) % MaxPacketSize = Len(p)
    BY ONLY <2>1, <2>2, <1>3
  <2> QED BY <2>3 DEF PacketLength
<1> HIDE DEF p
<1>5. /\ h \in Seq(Bytes) /\ Len(h) = PktLenSize + Len(p)
      /\ \A i \in 1 .. PktLenSize : h[i] = Digits(Len(p))[i]
      /\ \A i \in 1 .. Len(p) : h[PktLenSize + i] = p[i]
  <2>1. \A i \in 1 .. PktLenSize : h[i] = Digits(PacketLength(Len(p)))[i]
    BY <1>3, FrameFacts
  <2>2. \A i \in 1 .. PktLenSize : h[i] = Digits(Len(p))[i]
    BY Zenon, <2>1, <1>4
  <2> QED BY <2>2, <1>3, FrameFacts
<1>6. z \in Seq(Bytes)
  BY <1>2, FramesFacts
<1>7. h \o z = m \o c
  BY <1>1, <1>s, FramesFirst DEF p
<1> HIDE DEF h, z
<1>8. \A i \in 1 .. PktLenSize : m[i] = h[i]
  <2>1. ASSUME NEW i \in 1 .. PktLenSize PROVE m[i] = h[i]
    <3>1. (m \o c)[i] = m[i]
      <4>1. i \in 1 .. Len(m) + Len(c) /\ i <= Len(m)
        BY <1>a, <1>b
      <4> QED BY <4>1, ConcatProperties
    <3>2. (h \o z)[i] = h[i]
      <4>1. i \in 1 .. Len(h) + Len(z) /\ i <= Len(h)
        BY <1>3, <1>5, <1>6, <1>a
      <4> QED BY <4>1, <1>5, <1>6, ConcatProperties
    <3> QED BY <3>1, <3>2, <1>7
  <2> QED BY <2>1
<1>9. Value(m) = Len(p)
  <2>1. \A i \in 1 .. PktLenSize : m[i] = Digits(Len(p))[i]
    BY <1>5, <1>8
  <2> QED BY <2>1, <1>3, <1>b, ValueOfDigits
<1>10. Len(h) <= Len(m) /\ Len(h) = PktLenSize + Value(m)
  BY <1>5, <1>9, <1>b
<1>11. z = SubSeq(m, Len(h) + 1, Len(m)) \o c /\ \A i \in 1 .. Len(h) : m[i] = h[i]
  <2>1. h \in Seq(Bytes) /\ Len(h) <= Len(m)
    BY <1>5, <1>10
  <2>2. SameBytes(h, z, m, c)
    BY <2>1, <1>7 DEF SameBytes
  <2> QED BY <2>1, <2>2, <1>6, Splits
<1>12. SubSeq(m, PktLenSize + 1, PktLenSize + Len(p)) = p
  <2> DEFINE j == PktLenSize + 1
             k == PktLenSize + Len(p)
             q == SubSeq(m, j, k)
  <2>1. \A i \in j .. k : m[i] \in Bytes
    <3>1. ASSUME NEW i \in j .. k PROVE m[i] \in Bytes
      <4>1. i \in 1 .. Len(m)
        BY <1>3, <1>5, <1>10, <1>a
      <4> QED BY <4>1
    <3> QED BY <3>1
  <2>2. j \in Int /\ k \in Int /\ k - j + 1 = Len(p) /\ (~(j <= k) => Len(p) = 0)
    BY <1>3, <1>a
  <2>p. \A i \in 1 .. Len(p) : j + i - 1 = PktLenSize + i
    BY <1>a
  <2> HIDE DEF j, k
  <2>q. /\ q \in Seq(Bytes) /\ Len(q) = (IF j <= k THEN k - j + 1 ELSE 0)
        /\ \A i \in 1 .. k - j + 1 : q[i] = m[j + i - 1]
    BY <2>1, <2>2, SubSeqProperties
  <2> HIDE DEF q
  <2>3. q \in Seq(Bytes) /\ Len(q) = Len(p) /\ \A i \in 1 .. Len(p) : q[i] = m[PktLenSize + i]
    <3>1. Len(q) = Len(p)
      BY <2>2, <2>q
    <3>2. \A i \in 1 .. Len(p) : q[i] = m[j + i - 1]
      BY Zenon, <2>2, <2>q
    <3>3. \A i \in 1 .. Len(p) : q[i] = m[PktLenSize + i]
      BY Zenon, <2>p, <3>2
    <3> QED BY Zenon, <2>q, <3>1, <3>3
  <2>4. \A i \in 1 .. Len(p) : q[i] = p[i]
    <3>1. ASSUME NEW i \in 1 .. Len(p) PROVE q[i] = p[i]
      <4>1. PktLenSize + i \in 1 .. Len(h)
        BY <1>3, <1>5, <1>a
      <4> QED BY <4>1, <2>3, <1>5, <1>11
    <3> QED BY <3>1
  <2>5. q = p
    BY <2>3, <2>4, <1>3, SeqEqual
  <2> QED BY <2>5 DEF q, j, k
<1>13. z = SubSeq(m, PktLenSize + Value(m) + 1, Len(m)) \o c
  BY <1>10, <1>11
<1> QED BY <1>1, <1>9, <1>12, <1>13 DEF p, z

\* What TakePacket takes it signals: the packets on their way stay in order and whole.
LEMMA TakeCarries ==
  ASSUME NEW x \in Records, NEW wire, NEW b \in Seq(Bytes), NEW o \in Seq(Bytes),
         Carries(wire, x.got, x.mInBuf, b, o)
  PROVE  Carries(wire, TakePacket(x).got, TakePacket(x).mInBuf, b, o)
<1> DEFINE m == x.mInBuf
           n == PktLenSize + Value(m)
           rest == SubSeq(m, n + 1, Len(m))
           y == TakePacket(x)
<1>t. m \in Seq(Bytes) /\ Len(m) \in Nat /\ x.got \in Seq(Seq(Bytes))
  BY DEF Records
<1>a. PktLenSize \in Nat
  BY SocketsAssumption
<1>1. CASE ~Whole(m)
  <2>1. Len(m) < PktLenSize \/ Len(m) < n
    <3>1. Len(m) >= PktLenSize => Value(m) \in Nat
      BY <1>t, ValueFacts
    <3> QED BY <3>1, <1>1, <1>t, <1>a DEF Whole
  <2>2. y = x
    BY <2>1 DEF TakePacket
  <2> QED BY <2>2
<1>2. CASE Whole(m)
  <2>1. Value(m) \in Nat /\ n \in Nat /\ n <= Len(m)
    BY <1>2, <1>t, <1>a, ValueFacts DEF Whole
  <2>2. ~(Len(m) < PktLenSize \/ Len(m) < n)
    BY <1>2, <1>t, <1>a, <2>1 DEF Whole
  <2>3. rest \in Seq(Bytes)
    BY <1>t, <2>1, SubBytes
  <2>4. y.mInBuf = rest /\ y.got = Append(x.got, SubSeq(m, PktLenSize + 1, n))
    <3>1. y = [x EXCEPT !.mInBuf = rest, !.got = Append(x.got, SubSeq(m, PktLenSize + 1, n))]
      BY <2>2 DEF TakePacket
    <3> HIDE DEF rest, m, n, y
    <3> QED BY <3>1 DEF Records
  <2>5. PICK w \in Seq(Short) : wire = x.got \o w /\ Frames(w) = (m \o b) \o o
    BY DEF Carries
  <2> HIDE DEF m, rest, y
  <2>6. b \o o \in Seq(Bytes) /\ (m \o b) \o o = m \o (b \o o) /\ (rest \o b) \o o = rest \o (b \o o)
    <3>1. /\ Join(b, o) \in Seq(Bytes) /\ Join(Join(m, b), o) = Join(m, Join(b, o))
          /\ Join(Join(rest, b), o) = Join(rest, Join(b, o))
      BY <1>t, <2>3, Joins
    <3> QED BY Zenon, <3>1 DEF Join
  <2>7. /\ w # <<>> /\ SubSeq(m, PktLenSize + 1, n) = Head(w)
        /\ Frames(Tail(w)) = SubSeq(m, n + 1, Len(m)) \o (b \o o)
    BY <1>t, <1>2, <2>5, <2>6, FirstPacket
  <2>8. w \in Seq(Seq(Bytes)) /\ Tail(w) \in Seq(Short)
    <3>1. Short \subseteq Seq(Bytes)
      BY DEF Short
    <3> QED BY <3>1, <2>7, SeqMonotonic, HeadTailProperties
  <2>9. wire = Append(x.got, Head(w)) \o Tail(w)
    BY <1>t, <2>5, <2>7, <2>8, GotMore
  <2>10. Frames(Tail(w)) = (rest \o b) \o o
    BY <2>6, <2>7 DEF rest
  <2>11. wire = y.got \o Tail(w) /\ Frames(Tail(w)) = (y.mInBuf \o b) \o o
    BY <2>4, <2>7, <2>9, <2>10
  <2> QED BY <2>8, <2>11 DEF Carries, y
<1> QED BY <1>1, <1>2

\* A packet is taken from a buffer that holds a whole one, and makes it shorter.
LEMMA TakeSettles ==
  ASSUME NEW x \in Records
  PROVE  /\ Settled(x.mInBuf) => TakePacket(x) = x
         /\ ~Settled(x.mInBuf) => Len(TakePacket(x).mInBuf) + 1 <= Len(x.mInBuf)
<1> DEFINE m == x.mInBuf
           n == PktLenSize + Value(m)
           rest == SubSeq(m, n + 1, Len(m))
           y == TakePacket(x)
<1>t. m \in Seq(Bytes) /\ Len(m) \in Nat
  BY DEF Records
<1>a. PktLenSize \in Nat \ {0}
  BY SocketsAssumption
<1>1. ASSUME Settled(m) PROVE y = x
  <2>1. Len(m) < PktLenSize \/ Len(m) < n
    <3>1. Len(m) >= PktLenSize => Value(m) \in Nat
      BY <1>t, ValueFacts
    <3> QED BY <3>1, <1>1, <1>t, <1>a DEF Settled
  <2> QED BY <2>1 DEF TakePacket
<1>2. ASSUME ~Settled(m) PROVE Len(y.mInBuf) + 1 <= Len(m)
  <2>1. Len(m) >= PktLenSize /\ ~(Len(m) < n)
    BY <1>2 DEF Settled
  <2>2. Value(m) \in Nat
    BY <1>t, <2>1, ValueFacts
  <2>3. n \in Nat \ {0} /\ n <= Len(m) /\ ~(Len(m) < PktLenSize \/ Len(m) < n)
    BY <1>t, <1>a, <2>1, <2>2
  <2> HIDE DEF n
  <2>4. \A i \in n + 1 .. Len(m) : m[i] \in Bytes
    BY <1>t, <2>3
  <2>5. Len(rest) = (IF n + 1 <= Len(m) THEN Len(m) - (n + 1) + 1 ELSE 0)
    BY <1>t, <2>3, <2>4, SubSeqProperties
  <2>6. y.mInBuf = rest
    <3>1. y = [x EXCEPT !.mInBuf = rest, !.got = Append(x.got, SubSeq(m, PktLenSize + 1, n))]
      BY <2>3 DEF TakePacket, n
    <3> HIDE DEF rest, m, y
    <3> QED BY <3>1 DEF Records
  <2> HIDE DEF rest, y
  <2> QED BY <2>3, <2>5, <2>6, <1>t
<1> QED BY <1>1, <1>2

\* processInput keeps the packets on their way in order and whole.
LEMMA ProcessCarries ==
  ASSUME NEW x \in Records, NEW wire, NEW b \in Seq(Bytes), NEW o \in Seq(Bytes),
         Carries(wire, x.got, x.mInBuf, b, o)
  PROVE  Carries(wire, processInput(x).got, processInput(x).mInBuf, b, o)
<1> DEFINE S == {y \in Records : Carries(wire, y.got, y.mInBuf, b, o)}
<1>1. x \in S
  OBVIOUS
<1>2. ASSUME NEW y \in S PROVE TakePacket(y) \in S
  <2>1. TakePacket(y) \in Records
    BY TakeFacts
  <2> QED BY <2>1, TakeCarries
<1>3. processInput(x) \in S
  <2> HIDE DEF S
  <2> QED BY <1>1, <1>2, ProcessStays
<1> QED BY <1>3

\* processInput takes packets until no whole one is left.
LEMMA ProcessSettles ==
  ASSUME NEW x \in Records
  PROVE  Settled(processInput(x).mInBuf)
<1> DEFINE n == Len(x.mInBuf)
           Low(y, k) == y \in Records /\ (Settled(y.mInBuf) \/ Len(y.mInBuf) + k <= n)
<1>a. n \in Nat
  BY DEF Records
<1>1. PICK f : /\ f[0] = x /\ processInput(x) = f[n]
               /\ \A k \in 1 .. n : f[k] = TakePacket(f[k - 1])
  BY ProcessSteps
<1> HIDE DEF n
<1> DEFINE P == {k \in 0 .. n : Low(f[k], k)}
<1>2. 0 \in P
  BY <1>a, <1>1 DEF n
<1>3. ASSUME NEW k \in 1 .. n, k - 1 \in P PROVE k \in P
  <2> DEFINE y == f[k - 1]
  <2>1. y \in Records /\ (Settled(y.mInBuf) \/ Len(y.mInBuf) + (k - 1) <= n)
    BY <1>3
  <2>2. f[k] = TakePacket(y)
    BY <1>1
  <2> HIDE DEF y
  <2>3. TakePacket(y) \in Records
    BY <2>1, TakeFacts
  <2>4. Len(y.mInBuf) \in Nat /\ Len(TakePacket(y).mInBuf) \in Nat
    <3>1. \A z \in Records : z.mInBuf \in Seq(Bytes)
      BY DEF Records
    <3>2. y.mInBuf \in Seq(Bytes) /\ TakePacket(y).mInBuf \in Seq(Bytes)
      BY <2>1, <2>3, <3>1
    <3> QED BY <3>2
  <2>5. Low(TakePacket(y), k)
    <3>1. CASE Settled(y.mInBuf)
      BY <3>1, <2>1, TakeSettles
    <3>2. CASE ~Settled(y.mInBuf)
      <4>1. Len(TakePacket(y).mInBuf) + 1 <= Len(y.mInBuf)
        BY <3>2, <2>1, TakeSettles
      <4>2. Len(TakePacket(y).mInBuf) + k <= n
        BY <4>1, <3>2, <2>1, <2>4, <1>a
      <4> QED BY <4>2, <2>3
    <3> QED BY <3>1, <3>2
  <2> HIDE DEF Low
  <2> QED BY <2>2, <2>5
<1>4. \A k \in 0 .. n : k \in P
  <2> HIDE DEF P
  <2> QED BY <1>2, <1>3, <1>a, Upward
<1>5. Low(f[n], n)
  BY <1>4, <1>a
<1> DEFINE y == processInput(x)
<1>6. y \in Records /\ (Settled(y.mInBuf) \/ Len(y.mInBuf) + n <= n)
  BY <1>1, <1>5
<1> HIDE DEF y
<1>7. Len(y.mInBuf) + n <= n => Settled(y.mInBuf)
  <2>1. Len(y.mInBuf) \in Nat /\ PktLenSize \in Nat \ {0}
    BY <1>6, SocketsAssumption DEF Records
  <2> QED BY <2>1, <1>a DEF Settled
<1> QED BY <1>6, <1>7 DEF y

\* There is room behind what processInput leaves.
LEMMA SettledFits ==
  ASSUME NEW m \in Seq(Bytes), Settled(m)
  PROVE  /\ Len(m) < BufSize
         /\ Len(m) < PktLenSize + (IF Len(m) < PktLenSize THEN 1 ELSE Value(m))
<1>1. PktLenSize \in Nat /\ MaxPacketSize \in Nat \ {0} /\ Len(m) \in Nat
  BY SocketsAssumption, WeightFacts
<1>2. CASE Len(m) < PktLenSize
  BY <1>1, <1>2, WeightFacts
<1>3. CASE Len(m) >= PktLenSize
  <2>1. Value(m) \in Nat /\ Value(m) < MaxPacketSize
    BY <1>3, ValueFacts
  <2>2. Len(m) < PktLenSize + Value(m)
    BY <1>3 DEF Settled
  <2> QED BY <1>1, <1>3, <2>1, <2>2 DEF BufSize
<1> QED BY <1>1, <1>2, <1>3

\* What comes before what is moved stays, and so does what comes after.
LEMMA Regroup ==
  ASSUME NEW wire, NEW got, NEW m \in Seq(Bytes), NEW b \in Seq(Bytes), NEW c \in Seq(Bytes),
         NEW o \in Seq(Bytes)
  PROVE  /\ Carries(wire, got, m, b \o c, o) => Carries(wire, got, m \o b, c, o)
         /\ Carries(wire, got, m, b, c \o o) => Carries(wire, got, m, b \o c, o)
<1>1. m \o (b \o c) = (m \o b) \o c
  <2>1. Join(m, Join(b, c)) = Join(Join(m, b), c)
    BY Joins
  <2> QED BY Zenon, <2>1 DEF Join
<1>2. (m \o b) \o (c \o o) = (m \o (b \o c)) \o o
  <2>1. Join(Join(m, b), Join(c, o)) = Join(Join(m, Join(b, c)), o)
    <3>1. Join(m, b) \in Seq(Bytes) /\ Join(Join(m, b), c) = Join(m, Join(b, c))
      BY Joins
    <3>2. Join(Join(Join(m, b), c), o) = Join(Join(m, b), Join(c, o))
      BY <3>1, Joins
    <3> QED BY Zenon, <3>1, <3>2
  <2> QED BY Zenon, <2>1 DEF Join
<1> DEFINE Holds(z) == \E w \in Seq(Short) : wire = got \o w /\ Frames(w) = z
<1>3. \A x, y, z \in Seq(Bytes) : Carries(wire, got, x, y, z) <=> Holds((x \o y) \o z)
  BY DEF Carries
<1>4. m \o b \in Seq(Bytes) /\ b \o c \in Seq(Bytes) /\ c \o o \in Seq(Bytes)
  BY Joins DEF Join
<1> HIDE DEF Holds
<1>5. /\ Carries(wire, got, m, b \o c, o) <=> Holds((m \o (b \o c)) \o o)
      /\ Carries(wire, got, m \o b, c, o) <=> Holds(((m \o b) \o c) \o o)
      /\ Carries(wire, got, m, b, c \o o) <=> Holds((m \o b) \o (c \o o))
  BY Zenon, <1>3, <1>4
<1> QED BY Zenon, <1>1, <1>2, <1>5

\* A sequence of bytes cut in two.
LEMMA Cut ==
  ASSUME NEW b \in Seq(Bytes), NEW n \in Nat, n <= Len(b)
  PROVE  /\ SubSeq(b, 1, n) \in Seq(Bytes) /\ SubSeq(b, n + 1, Len(b)) \in Seq(Bytes)
         /\ b = SubSeq(b, 1, n) \o SubSeq(b, n + 1, Len(b))
<1>1. Len(b) \in Nat
  OBVIOUS
<1>2. SubSeq(b, 1, n) \in Seq(Bytes) /\ SubSeq(b, n + 1, Len(b)) \in Seq(Bytes)
  BY <1>1, SubBytes
<1>3. SubSeq(b, 1, n) \o SubSeq(b, n + 1, Len(b)) = SubSeq(b, 1, Len(b))
  <2>1. 1 \in 1 .. Len(b) + 1 /\ n \in 1 - 1 .. Len(b) /\ Len(b) \in n .. Len(b)
    BY <1>1
  <2> QED BY <2>1, ConcatAdjacentSubSeq
<1>4. SubSeq(b, 1, Len(b)) = b
  BY SubSeqFull
<1> QED BY Zenon, <1>2, <1>3, <1>4

\* What a read does to the framing of a socket that has something to read.
Ahead(x, y) ==
    /\ x.rbuf # <<>> /\ Settled(y.mInBuf) /\ y.link = x.link
    /\ y.mOutBuf = x.mOutBuf /\ y.wire = x.wire /\ y.clean = x.clean
    /\ \A wire : \A o \in Seq(Bytes) :
          Carries(wire, x.got, x.mInBuf, x.rbuf, o) => Carries(wire, y.got, y.mInBuf, y.rbuf, o)

\* onReadEvent signals the whole packets that have come and never empties the input
\* buffer for want of room.
LEMMA ReadCarries ==
  ASSUME NEW t \in [Sockets -> Records], NEW s \in Sockets, Settled(t[s].mInBuf)
  PROVE  \/ onReadEvent(t, s) = t
         \/ /\ onReadEvent(t, s) \in [Sockets -> Records] /\ Ahead(t[s], onReadEvent(t, s)[s])
            /\ \A q \in Sockets \ {s} : onReadEvent(t, s)[q] = t[q]
<1> DEFINE x == t[s]
           n == Received(x)
           v == recv(x, n)
           y == processInput(v)
           z == [y EXCEPT !.mInBuf = IF Len(@) >= BufSize THEN <<>> ELSE @]
           u == onReadEvent(t, s)
<1>t. x \in Records /\ x.mInBuf \in Seq(Bytes) /\ x.rbuf \in Seq(Bytes)
  <2>1. x \in Records
    OBVIOUS
  <2> HIDE DEF x
  <2> QED BY <2>1 DEF Records
<1>1. n \in Nat /\ n <= Len(x.rbuf) /\ (n = 0 <=> x.rbuf = <<>>)
  BY <1>t, SettledFits, ReceivedFacts
<1>2. CASE ~x.open \/ n = 0
  BY <1>2 DEF onReadEvent, Received
<1>3. CASE x.open /\ n # 0
  <2>1. u = [t EXCEPT ![s] = z]
    BY <1>3 DEF onReadEvent, Received
  <2> HIDE DEF u, n
  <2> DEFINE b == SubSeq(x.rbuf, 1, n)
             c == SubSeq(x.rbuf, n + 1, Len(x.rbuf))
  <2>2. b \in Seq(Bytes) /\ c \in Seq(Bytes) /\ x.rbuf = b \o c
    BY <1>t, <1>1, Cut
  <2>3. /\ v \in Records /\ v.mInBuf = x.mInBuf \o b /\ v.rbuf = c /\ v.got = x.got
        /\ v.link = x.link /\ v.mOutBuf = x.mOutBuf /\ v.wire = x.wire /\ v.clean = x.clean
    BY <1>t, <1>1, RecvFacts
  <2> HIDE DEF v, b, c
  <2>4. y \in Records /\ Alike(v, y) /\ Settled(y.mInBuf) /\ y.mInBuf \in Seq(Bytes)
    <3>1. y \in Records /\ Alike(v, y) /\ Settled(y.mInBuf)
      BY <2>3, ProcessFacts, ProcessSettles
    <3> HIDE DEF y
    <3> QED BY <3>1 DEF Records
  <2>5. \A wire : \A o \in Seq(Bytes) :
          Carries(wire, x.got, x.mInBuf, x.rbuf, o) => Carries(wire, y.got, y.mInBuf, c, o)
    <3>1. ASSUME NEW wire, NEW o \in Seq(Bytes), Carries(wire, x.got, x.mInBuf, x.rbuf, o)
          PROVE  Carries(wire, y.got, y.mInBuf, c, o)
      <4>1. Carries(wire, x.got, x.mInBuf, b \o c, o)
        BY Zenon, <3>1, <2>2
      <4>2. Carries(wire, x.got, x.mInBuf \o b, c, o)
        BY <4>1, <1>t, <2>2, Regroup
      <4>3. Carries(wire, v.got, v.mInBuf, c, o)
        BY Zenon, <4>2, <2>3
      <4> QED BY <4>3, <2>2, <2>3, ProcessCarries
    <3> QED BY <3>1
  <2> HIDE DEF y
  <2>6. z = y
    <3>1. ~(Len(y.mInBuf) >= BufSize)
      <4>1. Len(y.mInBuf) < BufSize /\ Len(y.mInBuf) \in Nat /\ BufSize \in Nat
        BY <2>4, SettledFits, WeightFacts
      <4> QED BY <4>1
    <3> QED BY <3>1, <2>4 DEF Records
  <2> HIDE DEF z
  <2>7. u \in [Sockets -> Records] /\ u[s] = y /\ \A q \in Sockets \ {s} : u[q] = t[q]
    BY <2>1, <2>4, <2>6
  <2>8. x.rbuf # <<>>
    BY <1>1, <1>3
  <2>9. Ahead(x, y)
    <3>1. /\ y.rbuf = c /\ y.link = x.link /\ y.mOutBuf = x.mOutBuf /\ y.wire = x.wire
          /\ y.clean = x.clean
      BY <2>3, <2>4 DEF Alike
    <3> HIDE DEF x
    <3> QED BY <2>4, <2>5, <2>8, <3>1 DEF Ahead
  <2> QED BY <2>7, <2>9 DEF u
<1> QED BY <1>2, <1>3

\* The other end of a socket.
LEMMA Peers ==
  ASSUME NEW s \in Sockets
  PROVE  Peer(s) \in Sockets /\ Peer(s) # s /\ Peer(Peer(s)) = s
<1> QED BY SocketsAssumption

SameFrames(x, y) ==
    /\ y.mInBuf = x.mInBuf /\ y.mOutBuf = x.mOutBuf
    /\ y.wire = x.wire /\ y.got = x.got /\ y.clean = x.clean
    /\ y.link = "up" <=> x.link = "up"
    /\ x.link = "up" => y.rbuf = x.rbuf

\* What does not touch framing leaves its invariant alone.
LEMMA SameKeeps ==
  ASSUME NEW t, NEW u, FrameInv(t), \A q \in Sockets : SameFrames(t[q], u[q])
  PROVE  FrameInv(u)
<1>1. ASSUME NEW q \in Sockets, Idles(t[q]) PROVE Idles(u[q])
  BY <1>1 DEF SameFrames, Idles
<1>2. ASSUME NEW q \in Sockets, Linked(t[q], t[Peer(q)]) PROVE Linked(u[q], u[Peer(q)])
  <2>1. SameFrames(t[q], u[q]) /\ SameFrames(t[Peer(q)], u[Peer(q)])
    BY Peers
  <2> QED BY <1>2, <2>1 DEF SameFrames, Linked
<1>3. Joint(t) => Joint(u)
  BY Zenon, <1>1, <1>2 DEF Joint
<1> QED BY <1>3 DEF FrameInv, SameFrames

\* A read keeps the framing.
LEMMA AheadKeeps ==
  ASSUME NEW t \in [Sockets -> Records], NEW u \in [Sockets -> Records], NEW s \in Sockets,
         FrameInv(t), t[s].link = "up", Ahead(t[s], u[s]),
         \A q \in Sockets \ {s} : u[q] = t[q]
  PROVE  FrameInv(u)
<1>1. \A q \in Sockets : Settled(u[q].mInBuf)
  BY DEF FrameInv, Ahead
<1>2. \A q \in Sockets : u[q].clean = t[q].clean
  BY DEF Ahead
<1>3. ASSUME NEW q \in Sockets, Joint(t) PROVE Idles(u[q]) /\ Linked(u[q], u[Peer(q)])
  <2>1. Peer(q) \in Sockets /\ Peer(q) # q
    BY Peers
  <2>2. u[Peer(q)].wire = t[Peer(q)].wire /\ u[Peer(q)].mOutBuf = t[Peer(q)].mOutBuf
    BY <2>1 DEF Ahead
  <2>3. Idles(t[q]) /\ Linked(t[q], t[Peer(q)])
    BY <1>3 DEF Joint
  <2>4. CASE q # s
    BY <2>2, <2>3, <2>4 DEF Linked
  <2>5. CASE q = s
    <3>1. t[Peer(s)].mOutBuf \in Seq(Bytes)
      BY <2>1, <2>5 DEF Records
    <3>2. Carries(t[Peer(s)].wire, t[s].got, t[s].mInBuf, t[s].rbuf, t[Peer(s)].mOutBuf)
      BY <2>3, <2>5 DEF Linked
    <3>3. Carries(t[Peer(s)].wire, u[s].got, u[s].mInBuf, u[s].rbuf, t[Peer(s)].mOutBuf)
      BY Zenon, <3>1, <3>2 DEF Ahead
    <3>4. Linked(u[s], u[Peer(s)])
      BY <2>2, <2>5, <3>3 DEF Linked
    <3>5. Idles(u[s])
      BY DEF Ahead, Idles
    <3> QED BY <2>5, <3>4, <3>5
  <2> QED BY <2>4, <2>5
<1> QED BY <1>1, <1>2, <1>3 DEF FrameInv, Joint

\* What sending does to the bytes of the sender and of its peer.
Steady(x, y) ==
    /\ y.link = x.link /\ y.mInBuf = x.mInBuf /\ y.got = x.got
    /\ y.wire = x.wire /\ y.clean = x.clean
Moves(t, u, s, r) ==
    /\ u \in [Sockets -> Records]
    /\ \A q \in Sockets : Steady(t[q], u[q])
    /\ \A q \in Sockets \ {s} : u[q].mOutBuf = t[q].mOutBuf
    /\ \A q \in Sockets \ {Peer(s)} : u[q].rbuf = t[q].rbuf
    /\ ~Progress(r) => u[s].mOutBuf = t[s].mOutBuf /\ u[Peer(s)].rbuf = t[Peer(s)].rbuf
    /\ Progress(r) =>
          /\ t[s].link = "up"
          /\ \E b \in Seq(Bytes), c \in Seq(Bytes) :
                /\ t[s].mOutBuf = b \o c /\ u[s].mOutBuf = c
                /\ u[Peer(s)].rbuf = t[Peer(s)].rbuf \o b

\* flush moves the front of the output buffer to the peer, or nothing.
LEMMA FlushMoves ==
  ASSUME NEW t \in [Sockets -> Records], NEW s \in Sockets,
         NEW r \in SendResults(t, s, Len(t[s].mOutBuf))
  PROVE  Moves(t, flush(t, s, r), s, r)
<1> DEFINE p == Peer(s)
           u == PhysicalSend(t, s, r)
           v == flush(t, s, r)
           o == t[s].mOutBuf
<1>p. p \in Sockets /\ p # s
  BY Peers
<1>t. t[s] \in Records /\ t[p] \in Records /\ \A q \in Sockets : t[q] \in Records
  BY <1>p
<1>o. o \in Seq(Bytes) /\ Len(o) \in Nat
  BY <1>t DEF Records
<1>1. r = Failed \/ r = WouldBlock \/ (r \in Nat /\ r >= 1 /\ r <= Len(o) /\ Joined(t, s))
  BY <1>o, Answers
<1>2. CASE r = Failed \/ r = WouldBlock
  <2>1. ~Progress(r)
    BY <1>2 DEF Failed, WouldBlock, Progress
  <2>2. v = u
    BY <2>1 DEF flush
  <2>3. Sent(t, v, s)
    BY FlushFacts
  <2>4. \A q \in Sockets : Steady(t[q], v[q]) /\ v[q].mOutBuf = t[q].mOutBuf /\ v[q].rbuf = t[q].rbuf
    <3>1. CASE r = Failed
      <4>1. v = t
        BY <3>1, <2>2 DEF PhysicalSend, Failed, WouldBlock
      <4> QED BY <4>1 DEF Steady
    <3>2. CASE r = WouldBlock
      <4>1. v = [t EXCEPT ![s].mEnabledEvents = @ \union {"write"}]
        BY <3>2, <2>2 DEF PhysicalSend, Failed, WouldBlock
      <4> HIDE DEF v
      <4>2. v[s] = [t[s] EXCEPT !.mEnabledEvents = @ \union {"write"}]
            /\ \A q \in Sockets \ {s} : v[q] = t[q]
        BY <4>1
      <4>3. /\ Steady(t[s], v[s]) /\ v[s].mOutBuf = t[s].mOutBuf /\ v[s].rbuf = t[s].rbuf
        BY <4>2, <1>t DEF Steady, Records
      <4> QED BY <4>2, <4>3 DEF Steady
    <3> QED BY <1>2, <3>1, <3>2
  <2> HIDE DEF v
  <2>5. Moves(t, v, s, r)
    BY <2>1, <2>3, <2>4, <1>p DEF Moves, Sent
  <2> QED BY <2>5 DEF v
<1>3. CASE r \in Nat /\ r >= 1 /\ r <= Len(o) /\ Joined(t, s)
  <2> DEFINE b == SubSeq(o, 1, r)
             c == SubSeq(o, r + 1, Len(o))
             more == t[p].rbuf \o b
  <2>1. Progress(r)
    BY <1>3 DEF Progress
  <2>2. b \in Seq(Bytes) /\ c \in Seq(Bytes) /\ o = b \o c
    BY <1>3, <1>o, Cut
  <2>3. u = [t EXCEPT ![p].rbuf = more]
    BY <1>3 DEF PhysicalSend, Failed, WouldBlock
  <2>4. v = [u EXCEPT ![s].mOutBuf = SubSeq(@, r + 1, Len(@))]
    BY <2>1 DEF flush
  <2> HIDE DEF u, v, more
  <2>5. u[s] = t[s] /\ u[p] = [t[p] EXCEPT !.rbuf = more] /\ \A q \in Sockets \ {p} : u[q] = t[q]
    BY <2>3, <1>p
  <2>6. v[s] = [t[s] EXCEPT !.mOutBuf = c] /\ v[p] = [t[p] EXCEPT !.rbuf = more]
        /\ \A q \in Sockets \ {s, p} : v[q] = t[q]
    BY <2>3, <2>4, <2>5, <1>p
  <2> HIDE DEF b, c, o, p
  <2>7. /\ Steady(t[s], v[s]) /\ v[s].mOutBuf = c /\ v[s].rbuf = t[s].rbuf
        /\ Steady(t[p], v[p]) /\ v[p].mOutBuf = t[p].mOutBuf /\ v[p].rbuf = more
    BY <2>6, <1>t DEF Steady, Records
  <2>8. \A q \in Sockets \ {s, p} : Steady(t[q], v[q]) /\ v[q].mOutBuf = t[q].mOutBuf /\ v[q].rbuf = t[q].rbuf
    BY <2>6 DEF Steady
  <2>9. v \in [Sockets -> Records] /\ t[s].link = "up"
    <3>1. Sent(t, v, s)
      BY FlushFacts DEF v
    <3> QED BY <3>1, <1>3 DEF Sent, Joined
  <2>10. /\ \A q \in Sockets : Steady(t[q], v[q])
         /\ \A q \in Sockets \ {s} : v[q].mOutBuf = t[q].mOutBuf
         /\ \A q \in Sockets \ {p} : v[q].rbuf = t[q].rbuf
    BY <2>7, <2>8, <1>p
  <2>11. Moves(t, v, s, r)
    <3>1. \E b1 \in Seq(Bytes), c1 \in Seq(Bytes) :
            t[s].mOutBuf = b1 \o c1 /\ v[s].mOutBuf = c1 /\ v[p].rbuf = t[p].rbuf \o b1
      BY Zenon, <2>2, <2>7 DEF more, o
    <3> QED BY Zenon, <2>1, <2>9, <2>10, <3>1 DEF Moves, p
  <2> QED BY <2>11 DEF v
<1> QED BY <1>1, <1>2, <1>3

\* flush keeps the framing.
LEMMA FlushFrames ==
  ASSUME NEW t \in [Sockets -> Records], NEW u, NEW s \in Sockets, NEW r,
         FrameInv(t), Moves(t, u, s, r)
  PROVE  FrameInv(u)
<1>p. Peer(s) \in Sockets /\ Peer(s) # s /\ Peer(Peer(s)) = s
  BY Peers
<1>1. CASE ~Progress(r)
  <2>1. \A q \in Sockets : SameFrames(t[q], u[q])
    BY <1>1, <1>p DEF Moves, Steady, SameFrames
  <2> QED BY <2>1, SameKeeps
<1>2. CASE Progress(r)
  <2>1. \A q \in Sockets : Steady(t[q], u[q])
    BY DEF Moves
  <2>2. t[s].link = "up"
    BY <1>2 DEF Moves
  <2>3. ASSUME NEW q \in Sockets, Joint(t) PROVE Idles(u[q]) /\ Linked(u[q], u[Peer(q)])
    <3>1. Idles(t[q]) /\ Linked(t[q], t[Peer(q)]) /\ Peer(q) \in Sockets /\ Peer(Peer(q)) = q
      BY <2>3, Peers DEF Joint
    <3>2. Idles(u[q])
      <4>1. CASE q = s
        BY <4>1, <2>1, <2>2 DEF Steady, Idles
      <4>2. CASE q # s
        BY <4>2, <2>1, <3>1 DEF Moves, Steady, Idles
      <4> QED BY <4>1, <4>2
    <3>3. CASE q # Peer(s)
      <4>1. Peer(q) # s
        BY <3>1, <3>3
      <4>2. u[q].rbuf = t[q].rbuf /\ u[Peer(q)].mOutBuf = t[Peer(q)].mOutBuf
        BY <3>1, <3>3, <4>1 DEF Moves
      <4>3. Steady(t[q], u[q]) /\ Steady(t[Peer(q)], u[Peer(q)])
        BY <2>1, <3>1
      <4> QED BY <3>1, <3>2, <4>2, <4>3 DEF Steady, Linked
    <3>4. CASE q = Peer(s)
      <4>1. PICK b \in Seq(Bytes), c \in Seq(Bytes) :
               t[s].mOutBuf = b \o c /\ u[s].mOutBuf = c /\ u[q].rbuf = t[q].rbuf \o b
        BY Zenon, <1>2, <3>4 DEF Moves
      <4>2. t[q].mInBuf \in Seq(Bytes) /\ t[q].rbuf \in Seq(Bytes)
        <5>1. t[q] \in Records
          OBVIOUS
        <5> QED BY <5>1 DEF Records
      <4>3. Peer(q) = s
        BY <1>p, <3>4
      <4>4. ASSUME t[q].link = "up"
            PROVE  Carries(t[s].wire, t[q].got, t[q].mInBuf, u[q].rbuf, u[s].mOutBuf)
        <5>1. Carries(t[s].wire, t[q].got, t[q].mInBuf, t[q].rbuf, b \o c)
          BY Zenon, <3>1, <4>1, <4>3, <4>4 DEF Linked
        <5>2. Carries(t[s].wire, t[q].got, t[q].mInBuf, t[q].rbuf \o b, c)
          BY <4>2, <5>1, Regroup
        <5> QED BY Zenon, <4>1, <5>2
      <4>5. Steady(t[q], u[q]) /\ Steady(t[s], u[s])
        BY <2>1
      <4>6. Linked(u[q], u[Peer(q)])
        BY <4>3, <4>4, <4>5 DEF Steady, Linked
      <4> QED BY <3>2, <4>6
    <3> QED BY <3>3, <3>4
  <2>4. Joint(t) => Joint(u)
    BY Zenon, <2>3 DEF Joint
  <2> QED BY <2>1, <2>4 DEF FrameInv, Steady
<1> QED BY <1>1, <1>2

\* Appending to the second of two sequences.
LEMMA AppendBehind ==
  ASSUME NEW T, NEW g \in Seq(T), NEW w \in Seq(T), NEW p \in T
  PROVE  Append(g \o w, p) = g \o Append(w, p)
<1> DEFINE e == <<p>>
           a == Append(g \o w, p)
           b == Append(w, p)
<1>1. g \o w \in Seq(T) /\ e \in Seq(T)
  BY ConcatProperties
<1>2. a = (g \o w) \o e
  BY <1>1, AppendIsConcat
<1>3. b = w \o e
  BY AppendIsConcat
<1> HIDE DEF e, a, b
<1>4. (g \o w) \o e = g \o (w \o e)
  BY <1>1, ConcatAssociative
<1>5. a = g \o b
  BY Zenon, <1>2, <1>3, <1>4
<1> QED BY <1>5 DEF a, b

\* A packet more on its way.
LEMMA SendCarries ==
  ASSUME NEW wire, NEW got \in Seq(Seq(Bytes)), NEW m \in Seq(Bytes), NEW b \in Seq(Bytes),
         NEW p \in Short, Carries(wire, got, m, b, <<>>)
  PROVE  Carries(Append(wire, p), got, m, b, Frame(p))
<1>1. PICK w \in Seq(Short) : wire = got \o w /\ Frames(w) = (m \o b) \o <<>>
  BY DEF Carries
<1>2. w \in Seq(Seq(Bytes)) /\ p \in Seq(Bytes)
  <2>1. Short \subseteq Seq(Bytes)
    BY DEF Short
  <2> QED BY <2>1, SeqMonotonic
<1>3. Append(w, p) \in Seq(Short)
  OBVIOUS
<1>4. (m \o b) \o <<>> = m \o b
  <2>1. m \o b \in Seq(Bytes)
    BY Joins DEF Join
  <2> QED BY <2>1, ConcatEmptySeq
<1>5. Frames(Append(w, p)) = (m \o b) \o Frame(p)
  <2>1. Frames(Append(w, p)) = Frames(w) \o Frame(p)
    BY <1>2, FramesMore
  <2> QED BY Zenon, <2>1, <1>1, <1>4
<1>6. Append(got \o w, p) = got \o Append(w, p)
  BY SMTT(20), <1>2, AppendBehind
<1>7. Append(wire, p) = got \o Append(w, p)
  BY <1>1, <1>6
<1> QED BY Zenon, <1>3, <1>5, <1>7 DEF Carries

\* send keeps the framing of a packet it has taken whole, and of one it has dropped.
LEMMA SendFrames ==
  ASSUME NEW t \in [Sockets -> Records], NEW s \in Sockets, NEW p \in Packets,
         NEW r \in SendResults(t, s, PktLenSize + Len(p)), t[s].mOutBuf = <<>>, FrameInv(t)
  PROVE  FrameInv(SendPacket(t, s, p, r))
<1> DEFINE u == Buffered(t, s, p)
           v == flush(u, s, r)
           w == SendPacket(t, s, p, r)
<1>p. Peer(s) \in Sockets /\ Peer(s) # s /\ Peer(Peer(s)) = s
  BY Peers
<1>w. w = IF Progress(r)
          THEN [v EXCEPT ![s].wire = Append(@, p), ![s].clean = @ /\ Len(p) < MaxPacketSize]
          ELSE [v EXCEPT ![s].mOutBuf = <<>>]
  BY DEF SendPacket, Buffered
<1>1. /\ Beside(t, u, s) /\ u[s].mOutBuf = Frame(p) /\ u[s].wire = t[s].wire
      /\ u[s].got = t[s].got /\ u[s].clean = t[s].clean /\ r \in SendResults(u, s, Len(u[s].mOutBuf))
  BY BufferedFacts DEF Frame
<1> HIDE DEF u
<1>2. Moves(u, v, s, r)
  <2>1. u \in [Sockets -> Records]
    BY <1>1 DEF Beside
  <2> QED BY <1>1, <2>1, FlushMoves
<1> HIDE DEF v
<1>3. v \in [Sockets -> Records] /\ \A q \in Sockets : v[q] \in Records /\ Steady(t[q], v[q])
  <2>1. v \in [Sockets -> Records] /\ \A q \in Sockets : Steady(u[q], v[q])
    BY <1>2 DEF Moves
  <2>2. \A q \in Sockets : Steady(t[q], u[q])
    BY <1>1 DEF Beside, Steady
  <2>3. \A q \in Sockets : Steady(t[q], v[q])
    BY <2>1, <2>2 DEF Steady
  <2> QED BY <2>1, <2>3
<1>4. \A q \in Sockets \ {s} : v[q].mOutBuf = t[q].mOutBuf
  BY <1>1, <1>2 DEF Beside, Moves
<1>5. \A q \in Sockets : u[q].rbuf = t[q].rbuf
  BY <1>1 DEF Beside
<1>6. \A q \in Sockets \ {Peer(s)} : v[q].rbuf = t[q].rbuf
  BY <1>2, <1>5 DEF Moves
<1>7. CASE ~Progress(r)
  <2>1. w[s] = [v[s] EXCEPT !.mOutBuf = <<>>] /\ \A q \in Sockets \ {s} : w[q] = v[q]
    BY <1>3, <1>7, <1>w
  <2> HIDE DEF w
  <2>2. v[Peer(s)].rbuf = t[Peer(s)].rbuf
    BY <1>2, <1>5, <1>7, <1>p DEF Moves
  <2>3. /\ w[s].mOutBuf = <<>> /\ Steady(v[s], w[s]) /\ w[s].rbuf = v[s].rbuf
    BY <2>1, <1>3 DEF Records, Steady
  <2>4. \A q \in Sockets : SameFrames(t[q], w[q])
    <3>1. SameFrames(t[s], w[s])
      <4>1. Steady(t[s], v[s]) /\ Steady(v[s], w[s]) /\ w[s].rbuf = t[s].rbuf /\ w[s].mOutBuf = t[s].mOutBuf
        BY <1>3, <1>6, <1>p, <2>3
      <4> QED BY <4>1 DEF SameFrames, Steady
    <3>2. ASSUME NEW q \in Sockets \ {s} PROVE SameFrames(t[q], w[q])
      <4>1. /\ Steady(t[q], v[q]) /\ w[q] = v[q] /\ v[q].rbuf = t[q].rbuf
            /\ v[q].mOutBuf = t[q].mOutBuf
        BY <1>3, <1>4, <1>6, <2>1, <2>2
      <4> QED BY <4>1 DEF SameFrames, Steady
    <3> QED BY <3>1, <3>2
  <2>5. FrameInv(w)
    BY <2>4, SameKeeps
  <2> QED BY <2>5 DEF w
<1>8. CASE Progress(r)
  <2> DEFINE wires == Append(v[s].wire, p)
             cleans == v[s].clean /\ Len(p) < MaxPacketSize
  <2>1. w[s] = [v[s] EXCEPT !.wire = wires, !.clean = cleans]
        /\ \A q \in Sockets \ {s} : w[q] = v[q]
    BY <1>3, <1>8, <1>w
  <2> HIDE DEF w, wires, cleans
  <2>2. /\ w[s].wire = wires /\ w[s].clean = cleans /\ w[s].link = v[s].link /\ w[s].got = v[s].got
        /\ w[s].mInBuf = v[s].mInBuf /\ w[s].mOutBuf = v[s].mOutBuf /\ w[s].rbuf = v[s].rbuf
    BY <2>1, <1>3 DEF Records
  <2>3. /\ w[s].wire = Append(t[s].wire, p) /\ (w[s].clean => t[s].clean /\ Len(p) < MaxPacketSize)
    BY <2>2, <1>3 DEF Steady, wires, cleans
  <2>4. \A q \in Sockets : w[q].link = t[q].link /\ w[q].mInBuf = t[q].mInBuf /\ w[q].got = t[q].got
    <3>1. ASSUME NEW q \in Sockets
          PROVE  w[q].link = v[q].link /\ w[q].mInBuf = v[q].mInBuf /\ w[q].got = v[q].got
      BY <2>1, <2>2
    <3> QED BY <3>1, <1>3 DEF Steady
  <2>5. \A q \in Sockets \ {s} : /\ w[q].wire = t[q].wire /\ w[q].clean = t[q].clean
                                 /\ w[q].mOutBuf = t[q].mOutBuf
    BY <2>1, <1>3, <1>4 DEF Steady
  <2>6. \A q \in Sockets \ {Peer(s)} : w[q].rbuf = t[q].rbuf
    BY <2>1, <2>2, <1>6
  <2>7. t[s].link = "up"
    BY <1>1, <1>2, <1>8 DEF Moves, Beside
  <2>8. PICK b \in Seq(Bytes), c \in Seq(Bytes) :
           Frame(p) = b \o c /\ w[s].mOutBuf = c /\ w[Peer(s)].rbuf = t[Peer(s)].rbuf \o b
    <3>1. PICK b \in Seq(Bytes), c \in Seq(Bytes) :
             u[s].mOutBuf = b \o c /\ v[s].mOutBuf = c /\ v[Peer(s)].rbuf = u[Peer(s)].rbuf \o b
      BY Zenon, <1>2, <1>8 DEF Moves
    <3>2. w[s].mOutBuf = v[s].mOutBuf /\ w[Peer(s)] = v[Peer(s)] /\ u[Peer(s)].rbuf = t[Peer(s)].rbuf
      BY <2>1, <2>2, <1>5, <1>p
    <3> QED BY Zenon, <1>1, <3>1, <3>2
  <2>9. ASSUME NEW q \in Sockets, Joint(t), Len(p) < MaxPacketSize
        PROVE  Idles(w[q]) /\ Linked(w[q], w[Peer(q)])
    <3>1. Idles(t[q]) /\ Linked(t[q], t[Peer(q)]) /\ Peer(q) \in Sockets /\ Peer(Peer(q)) = q
      BY <2>9, Peers DEF Joint
    <3>2. Idles(w[q])
      <4>1. CASE q = s
        BY <4>1, <2>4, <2>7 DEF Idles
      <4>2. CASE q # s
        BY <4>2, <2>4, <2>5, <3>1 DEF Idles
      <4> QED BY <4>1, <4>2
    <3>3. CASE q # Peer(s)
      <4>1. Peer(q) # s
        BY <3>1, <3>3
      <4>2. /\ w[q].rbuf = t[q].rbuf /\ w[q].link = t[q].link /\ w[q].mInBuf = t[q].mInBuf
            /\ w[q].got = t[q].got /\ w[Peer(q)].wire = t[Peer(q)].wire
            /\ w[Peer(q)].mOutBuf = t[Peer(q)].mOutBuf
        BY <3>1, <3>3, <4>1, <2>4, <2>5, <2>6
      <4> QED BY <3>1, <3>2, <4>2 DEF Linked
    <3>4. CASE q = Peer(s)
      <4>1. /\ t[q].mInBuf \in Seq(Bytes) /\ t[q].rbuf \in Seq(Bytes) /\ t[q].got \in Seq(Seq(Bytes))
        <5>1. t[q] \in Records
          OBVIOUS
        <5> QED BY <5>1 DEF Records
      <4>2. Peer(q) = s /\ p \in Short
        <5>1. p \in Seq(Bytes)
          BY SocketsAssumption DEF Bytes
        <5> QED BY <1>p, <3>4, <2>9, <5>1 DEF Short
      <4>3. ASSUME t[q].link = "up"
            PROVE  Carries(w[s].wire, t[q].got, t[q].mInBuf, w[q].rbuf, w[s].mOutBuf)
        <5>1. Carries(t[s].wire, t[q].got, t[q].mInBuf, t[q].rbuf, <<>>)
          BY <3>1, <4>2, <4>3 DEF Linked
        <5>2. Carries(Append(t[s].wire, p), t[q].got, t[q].mInBuf, t[q].rbuf, Frame(p))
          BY <4>1, <4>2, <5>1, SendCarries
        <5>3. Carries(w[s].wire, t[q].got, t[q].mInBuf, t[q].rbuf, b \o c)
          BY Zenon, <2>3, <2>8, <5>2
        <5>4. Carries(w[s].wire, t[q].got, t[q].mInBuf, t[q].rbuf \o b, c)
          BY <4>1, <5>3, Regroup
        <5> QED BY Zenon, <2>8, <3>4, <5>4
      <4>4. Linked(w[q], w[Peer(q)])
        BY <4>2, <4>3, <2>4 DEF Linked
      <4> QED BY <3>2, <4>4
    <3> QED BY <3>3, <3>4
  <2>10. Joint(t) /\ Len(p) < MaxPacketSize => Joint(w)
    BY Zenon, <2>9 DEF Joint
  <2>11. (\A q \in Sockets : w[q].clean) => (\A q \in Sockets : t[q].clean) /\ Len(p) < MaxPacketSize
    BY <2>3, <2>5
  <2>12. \A q \in Sockets : Settled(w[q].mInBuf)
    BY <2>4 DEF FrameInv
  <2>13. FrameInv(w)
    BY Zenon, <2>10, <2>11, <2>12 DEF FrameInv
  <2> QED BY <2>13 DEF w
<1> QED BY <1>7, <1>8

\* A socket that is closed with nothing in its buffers starts its next connection clean.
LEMMA CloseFrames ==
  ASSUME NEW t \in [Sockets -> Records], NEW u, NEW s \in Sockets, FrameInv(t),
         u = [t EXCEPT ![s] = Closed(@), ![Peer(s)].fin = @ \/ Joined(t, s)]
  PROVE  FrameInv(u)
<1>p. Peer(s) \in Sockets /\ Peer(s) # s
  BY Peers
<1>1. u[s] = Closed(t[s]) /\ \A q \in Sockets \ {s, Peer(s)} : u[q] = t[q]
  BY <1>p
<1>2. u[Peer(s)] = [t[Peer(s)] EXCEPT !.fin = @ \/ Joined(t, s)]
  BY <1>p
<1>3. \A q \in Sockets \ {s} : SameFrames(t[q], u[q])
  <2>1. t[Peer(s)] \in Records
    BY <1>p
  <2>2. SameFrames(t[Peer(s)], u[Peer(s)])
    <3> DEFINE x == t[Peer(s)]
               y == u[Peer(s)]
               f == x.fin \/ Joined(t, s)
    <3>1. x \in Records /\ y = [x EXCEPT !.fin = f]
      BY <1>2, <2>1
    <3> HIDE DEF x, y, f
    <3>2. /\ y.mInBuf = x.mInBuf /\ y.mOutBuf = x.mOutBuf /\ y.wire = x.wire /\ y.got = x.got
          /\ y.clean = x.clean /\ y.link = x.link /\ y.rbuf = x.rbuf
      BY <3>1 DEF Records
    <3>3. SameFrames(x, y)
      BY <3>2 DEF SameFrames
    <3> QED BY <3>3 DEF x, y
  <2> QED BY <1>1, <2>2 DEF SameFrames
<1>4. /\ u[s].link = "none" /\ u[s].mInBuf = t[s].mInBuf /\ u[s].mOutBuf = t[s].mOutBuf
      /\ u[s].wire = t[s].wire
      /\ u[s].clean => t[s].clean /\ t[s].mInBuf = <<>> /\ t[s].mOutBuf = <<>>
  <2>1. t[s] \in Records
    OBVIOUS
  <2> QED BY <1>1, <2>1 DEF Closed, Records
<1>5. ASSUME NEW q \in Sockets, Joint(t), u[s].clean PROVE Idles(u[q]) /\ Linked(u[q], u[Peer(q)])
  <2>1. Idles(t[q]) /\ Linked(t[q], t[Peer(q)]) /\ Peer(q) \in Sockets
    BY <1>5, Peers DEF Joint
  <2>2. CASE q = s
    BY <2>2, <1>4, <1>5 DEF Idles, Linked
  <2>3. CASE q # s
    <3>1. SameFrames(t[q], u[q])
      BY <2>3, <1>3
    <3>2. u[Peer(q)].wire = t[Peer(q)].wire /\ u[Peer(q)].mOutBuf = t[Peer(q)].mOutBuf
      BY <2>1, <1>3, <1>4 DEF SameFrames
    <3> QED BY <2>1, <3>1, <3>2 DEF SameFrames, Idles, Linked
  <2> QED BY <2>2, <2>3
<1>6. (\A q \in Sockets : u[q].clean) => (\A q \in Sockets : t[q].clean) /\ u[s].clean
  BY <1>3, <1>4 DEF SameFrames
<1>7. \A q \in Sockets : Settled(u[q].mInBuf)
  BY <1>3, <1>4 DEF SameFrames, FrameInv
<1>8. Joint(t) /\ u[s].clean => Joint(u)
  BY Zenon, <1>5 DEF Joint
<1> QED BY Zenon, <1>6, <1>7, <1>8 DEF FrameInv

\* A connection begins with nothing on its way.
LEMMA LinkUpFrames ==
  ASSUME NEW t \in [Sockets -> Records], NEW s \in Sockets, FrameInv(t),
         t[s].link = "pending", t[Peer(s)].link = "pending",
         \A q \in Sockets : t[q].rbuf # <<>> => t[q].link = "up"
  PROVE  FrameInv([q \in Sockets |-> IF q \in {s, Peer(s)}
                     THEN [t[q] EXCEPT !.link = "up", !.wire = <<>>, !.got = <<>>] ELSE t[q]])
<1> DEFINE u == [q \in Sockets |-> IF q \in {s, Peer(s)}
                     THEN [t[q] EXCEPT !.link = "up", !.wire = <<>>, !.got = <<>>] ELSE t[q]]
<1>p. Peer(s) \in Sockets /\ Peer(s) # s /\ Peer(Peer(s)) = s
  BY Peers
<1>1. \A q \in Sockets \ {s, Peer(s)} : u[q] = t[q]
  OBVIOUS
<1>2. ASSUME NEW q \in {s, Peer(s)}
      PROVE  /\ u[q].link = "up" /\ u[q].wire = <<>> /\ u[q].got = <<>>
             /\ u[q].mInBuf = t[q].mInBuf /\ u[q].mOutBuf = t[q].mOutBuf
             /\ u[q].rbuf = <<>> /\ u[q].clean = t[q].clean
             /\ Idles(t[q]) => t[q].mInBuf = <<>> /\ t[q].mOutBuf = <<>>
  <2>1. q \in Sockets /\ t[q] \in Records /\ t[q].link = "pending"
    BY <1>p
  <2>2. t[q].rbuf = <<>>
    BY <2>1
  <2>3. u[q] = [t[q] EXCEPT !.link = "up", !.wire = <<>>, !.got = <<>>]
    BY <2>1
  <2> HIDE DEF u
  <2> QED BY <2>1, <2>2, <2>3 DEF Records, Idles
<1> HIDE DEF u
<1>3. Carries(<<>>, <<>>, <<>>, <<>>, <<>>)
  <2>1. <<>> \in Seq(Short) /\ <<>> \in Seq(Bytes)
    OBVIOUS
  <2>2. (<<>> \o <<>>) \o <<>> = <<>> /\ <<>> = <<>> \o <<>>
    BY <2>1, ConcatEmptySeq
  <2> QED BY Zenon, <2>1, <2>2, FramesFacts DEF Carries
<1>4. ASSUME NEW q \in Sockets, Joint(t) PROVE Idles(u[q]) /\ Linked(u[q], u[Peer(q)])
  <2>1. Idles(t[q]) /\ Linked(t[q], t[Peer(q)]) /\ Peer(q) \in Sockets /\ Peer(Peer(q)) = q
        /\ Idles(t[Peer(q)])
    BY <1>4, Peers DEF Joint
  <2>2. CASE q \in {s, Peer(s)}
    <3>1. Peer(q) \in {s, Peer(s)}
      BY <2>2, <1>p
    <3>2. /\ u[q].mInBuf = <<>> /\ u[q].got = <<>> /\ u[q].rbuf = <<>> /\ u[q].link = "up"
          /\ u[Peer(q)].wire = <<>> /\ u[Peer(q)].mOutBuf = <<>>
      BY <1>2, <2>1, <2>2, <3>1
    <3> QED BY <1>3, <3>2 DEF Idles, Linked
  <2>3. CASE q \notin {s, Peer(s)}
    <3>1. Peer(q) \notin {s, Peer(s)}
      BY <2>1, <2>3, <1>p
    <3> QED BY <1>1, <2>1, <2>3, <3>1
  <2> QED BY <2>2, <2>3
<1>5. \A q \in Sockets : u[q].clean = t[q].clean /\ u[q].mInBuf = t[q].mInBuf
  BY <1>1, <1>2
<1>6. Joint(t) => Joint(u)
  BY Zenon, <1>4 DEF Joint
<1>7. FrameInv(u)
  BY <1>5, <1>6 DEF FrameInv
<1> QED BY <1>7 DEF u

\* A change of one socket which its framing does not show.
LEMMA OneSame ==
  ASSUME NEW t, NEW u, NEW s \in Sockets, FrameInv(t), SameFrames(t[s], u[s]),
         \A q \in Sockets \ {s} : u[q] = t[q]
  PROVE  FrameInv(u)
<1>1. \A q \in Sockets : SameFrames(t[q], u[q])
  BY DEF SameFrames
<1> QED BY <1>1, SameKeeps

\* There is nothing to frame before the first connection.
LEMMA InitFrames == Init => FrameInv(st)
<1> SUFFICES ASSUME Init PROVE FrameInv(st)
  OBVIOUS
<1>1. \A s \in Sockets : st[s] = Fresh
  BY DEF Init
<1>2. /\ Fresh.mInBuf = <<>> /\ Fresh.mOutBuf = <<>> /\ Fresh.link = "none"
  BY DEF Fresh
<1>3. Settled(<<>>)
  <2>1. Len(<<>>) = 0 /\ PktLenSize \in Nat \ {0}
    BY SocketsAssumption
  <2> QED BY <2>1 DEF Settled
<1>4. \A s \in Sockets : Idles(st[s]) /\ Linked(st[s], st[Peer(s)]) /\ Settled(st[s].mInBuf)
  BY <1>1, <1>2, <1>3 DEF Idles, Linked
<1> QED BY <1>4 DEF FrameInv, Joint

\* createAsyncSocket and connect start nothing that is framed.
LEMMA ConnectFrames ==
  ASSUME IInv, FrameInv(st), NEW s \in Sockets,
         createAsyncSocket(s) \/ Connect(s) \/ LinkFails(s)
  PROVE  FrameInv(st')
<1>t. st \in [Sockets -> Records] /\ st[s] \in Records
  BY TypeParts DEF IInv
<1>1. CASE createAsyncSocket(s)
  <2>1. st[s] = Fresh /\ st' = [st EXCEPT ![s] = Opened(@)]
    BY <1>1 DEF createAsyncSocket
  <2>2. st'[s] = Opened(st[s]) /\ \A q \in Sockets \ {s} : st'[q] = st[q]
    BY <2>1, <1>t
  <2>3. st[s].link = "none"
    BY <2>1 DEF Fresh
  <2>4. SameFrames(st[s], st'[s])
    BY <2>2, <2>3, <1>t DEF Opened, SameFrames, Records
  <2> QED BY <2>2, <2>4, OneSame
<1>2. CASE Connect(s)
  <2> DEFINE torn == loop.cur = s /\ loop.todo # {}
             o == IF st[s].open THEN st[s] ELSE Opened(st[s])
  <2>1. PICK err \in BOOLEAN : st' = [st EXCEPT ![s] = [Connecting(o, err) EXCEPT !.torn = torn]]
    BY <1>2 DEF Connect
  <2>2. st[s].link = "none"
    BY <1>2 DEF Connect
  <2>3. o \in Records /\ o.link = "none" /\ SameFrames(st[s], o)
    <3>1. CASE st[s].open
      BY <3>1, <1>t, <2>2 DEF SameFrames
    <3>2. CASE ~st[s].open
      <4>1. o = Opened(st[s]) /\ <<>> \in Seq(Bytes)
        BY <3>2
      <4> HIDE DEF o
      <4> QED BY <4>1, <1>t, <2>2 DEF Opened, SameFrames, Records
    <3> QED BY <3>1, <3>2
  <2> DEFINE y == Connecting(o, err)
             x == [y EXCEPT !.torn = torn]
  <2>4. st'[s] = x /\ \A q \in Sockets \ {s} : st'[q] = st[q]
    BY <2>1, <1>t
  <2> HIDE DEF o, torn
  <2>5. y \in Records /\ y.link # "up" /\ SameFrames(o, y)
    <3>1. /\ o.mEnabledEvents \union {"read", "write"} \in SUBSET Events
          /\ o.mEnabledEvents \union {"connect", "read", "write"} \in SUBSET Events
      BY <2>3 DEF Records, Events
    <3>2. CASE err
      <4>1. y = [o EXCEPT !.mEnabledEvents = @ \union {"read", "write"}]
        BY <3>2 DEF Connecting
      <4> HIDE DEF y
      <4> QED BY <2>3, <3>1, <4>1 DEF Records, SameFrames
    <3>3. CASE ~err
      <4>1. y = [o EXCEPT !.link = "pending", !.mState = "CONNECTING",
                          !.mEnabledEvents = @ \union {"connect", "read", "write"}]
        BY <3>3 DEF Connecting
      <4> HIDE DEF y
      <4> QED BY <2>3, <3>1, <4>1 DEF Records, SameFrames
    <3> QED BY <3>2, <3>3
  <2> HIDE DEF y
  <2>6. SameFrames(y, x)
    BY <2>5 DEF SameFrames, Records
  <2> HIDE DEF x
  <2>7. SameFrames(st[s], x)
    BY <2>2, <2>3, <2>5, <2>6 DEF SameFrames
  <2> QED BY <2>4, <2>7, OneSame
<1>3. CASE LinkFails(s)
  <2>1. st[s].link = "pending" /\ st' = [st EXCEPT ![s].link = "failed"]
    BY <1>3 DEF LinkFails
  <2>2. st'[s] = [st[s] EXCEPT !.link = "failed"] /\ \A q \in Sockets \ {s} : st'[q] = st[q]
    BY <2>1, <1>t
  <2>3. SameFrames(st[s], st'[s])
    BY <2>1, <2>2, <1>t DEF SameFrames, Records
  <2> QED BY <2>2, <2>3, OneSame
<1> QED BY <1>1, <1>2, <1>3

\* The loop arms the sockets and goes through the list without a look at what is framed.
LEMMA PassFrames ==
  ASSUME IInv, FrameInv(st), Arm \/ PassNext
  PROVE  FrameInv(st')
<1>t. /\ st \in [Sockets -> Records] /\ LoopInv(loop) /\ loop \in Loops /\ mDispatchers \in Seq(Sockets)
      /\ \A q \in Sockets : st[q] \in Records
  BY TypeParts DEF IInv
<1>1. CASE Arm
  <2>1. ASSUME NEW s \in Sockets PROVE SameFrames(st[s], st'[s])
    <3> DEFINE f == eventsToFlags(st[s].mEnabledEvents)
    <3>1. st'[s] = IF Contains(mDispatchers, s) THEN [st[s] EXCEPT !.index = 0, !.mask = f] ELSE st[s]
      BY <1>1 DEF Arm
    <3> HIDE DEF f
    <3>2. CASE Contains(mDispatchers, s)
      <4>1. st[s] \in Records
        BY <1>t
      <4> QED BY <3>1, <3>2, <4>1 DEF SameFrames, Records
    <3>3. CASE ~Contains(mDispatchers, s)
      BY <3>1, <3>3 DEF SameFrames
    <3> QED BY <3>2, <3>3
  <2> QED BY <2>1, SameKeeps
<1>2. CASE PassNext
  <2> DEFINE s == mDispatchers[loop.i]
             ff == IF st[s].index = 0 THEN Recorded(s) ELSE {}
             m == IF "connect" \in ff THEN "CONNECTED" ELSE st[s].mState
             x == [st[s] EXCEPT !.index = -1, !.mState = m]
  <2>1. /\ loop.at = "pass" /\ loop.i <= Len(mDispatchers)
        /\ st' = [st EXCEPT ![s].index = -1, ![s].mState = IF "connect" \in ff THEN "CONNECTED" ELSE @]
    BY <1>2 DEF PassNext
  <2>2. s \in Sockets
    <3>1. loop.i \in 1 .. Len(mDispatchers)
      BY <1>t, <2>1 DEF LoopInv, Loops
    <3> QED BY <3>1, <1>t
  <2> HIDE DEF s, ff
  <2>3. st'[s] = x /\ \A q \in Sockets \ {s} : st'[q] = st[q]
    BY <2>1, <2>2, <1>t
  <2> HIDE DEF m
  <2>4. SameFrames(st[s], x)
    <3>1. st[s] \in Records
      BY <2>2, <1>t
    <3> QED BY <3>1 DEF SameFrames, Records
  <2> HIDE DEF x
  <2> QED BY <2>2, <2>3, <2>4, OneSame
<1> QED BY <1>1, <1>2

\* An event that is told keeps the framing, whichever it is.
LEMMA EventFrames ==
  ASSUME IInv, FrameInv(st), onEvent
  PROVE  FrameInv(st')
<1> DEFINE s == loop.cur
           e == Soonest(loop.todo)
           D == IF e = "close" THEN {} ELSE {e}
           t == [st EXCEPT ![s].mEnabledEvents = @ \ D]
           f == st[s].mEnabledEvents \ D
<1>t. /\ st \in [Sockets -> Records] /\ SocketInv(loop, st) /\ LoopInv(loop)
  BY TypeParts DEF IInv
<1>1. /\ loop.todo # {}
      /\ \/ st' = onReadEvent(t, s)
         \/ st' = t
         \/ \E r \in SendResults(t, s, Len(t[s].mOutBuf)) : st' = flush(t, s, r)
  BY DEF onEvent
<1>2. s \in Sockets /\ st[s] \in Records
  BY <1>1, <1>t DEF LoopInv
<1> HIDE DEF s, D
<1>3. t[s] = [st[s] EXCEPT !.mEnabledEvents = f] /\ \A q \in Sockets \ {s} : t[q] = st[q]
  BY <1>2, <1>t
<1>4. t \in [Sockets -> Records]
  <2>1. f \in SUBSET Events
    BY <1>2 DEF Records
  <2> HIDE DEF f
  <2>2. [st[s] EXCEPT !.mEnabledEvents = f] \in Records
    BY <2>1, <1>2 DEF Records
  <2>3. t[s] \in Records
    BY <2>2, <1>3
  <2> QED BY <2>3, <1>3, <1>t
<1> HIDE DEF f, t
<1>5. SameFrames(st[s], t[s]) /\ t[s].rbuf = st[s].rbuf /\ t[s].link = st[s].link
  BY <1>2, <1>3 DEF SameFrames, Records
<1>6. FrameInv(t)
  BY <1>2, <1>3, <1>5, OneSame
<1>7. CASE st' = t
  BY <1>6, <1>7
<1>8. ASSUME NEW r \in SendResults(t, s, Len(t[s].mOutBuf)), st' = flush(t, s, r)
      PROVE  FrameInv(st')
  BY <1>2, <1>4, <1>6, <1>8, FlushMoves, FlushFrames
<1>9. CASE st' = onReadEvent(t, s)
  <2>1. Settled(t[s].mInBuf)
    BY <1>2, <1>6 DEF FrameInv
  <2>2. \/ st' = t
        \/ /\ st' \in [Sockets -> Records] /\ Ahead(t[s], st'[s])
           /\ \A q \in Sockets \ {s} : st'[q] = t[q]
    BY <1>2, <1>4, <1>9, <2>1, ReadCarries
  <2>3. t[s].rbuf # <<>> => t[s].link = "up"
    <3>1. Sound(st[s])
      BY <1>2, <1>t DEF SocketInv
    <3> QED BY <3>1, <1>5 DEF Sound
  <2>4. ASSUME st' \in [Sockets -> Records], Ahead(t[s], st'[s]),
               \A q \in Sockets \ {s} : st'[q] = t[q]
        PROVE  FrameInv(st')
    <3>1. t[s].link = "up"
      BY <2>3, <2>4 DEF Ahead
    <3> QED BY <3>1, <1>2, <1>4, <1>6, <2>4, AheadKeeps
  <2> QED BY <1>6, <2>2, <2>4
<1> QED BY <1>1, <1>7, <1>8, <1>9

\* Every step keeps the framing.
LEMMA NextFrames == IInv /\ FrameInv(st) /\ [Next]_vars => FrameInv(st')
<1> SUFFICES ASSUME IInv, FrameInv(st), [Next]_vars PROVE FrameInv(st')
  OBVIOUS
<1>t. st \in [Sockets -> Records] /\ SocketInv(loop, st)
  BY TypeParts DEF IInv
<1>1. CASE UNCHANGED vars
  BY <1>1 DEF vars
<1>2. CASE Loop
  <2>1. CASE Arm \/ PassNext
    BY <2>1, PassFrames
  <2>2. CASE onEvent
    BY <2>2, EventFrames
  <2>3. CASE Signalled \/ TimedOut \/ PassEnds
    <3>1. st' = st
      BY <2>3 DEF Signalled, TimedOut, PassEnds
    <3> QED BY <3>1
  <2> QED BY <1>2, <2>1, <2>2, <2>3 DEF Loop
<1>3. ASSUME NEW s \in Sockets, createAsyncSocket(s) \/ Connect(s) \/ LinkFails(s)
      PROVE  FrameInv(st')
  BY <1>3, ConnectFrames
<1>4. ASSUME NEW s \in Sockets, Close(s) PROVE FrameInv(st')
  <2>1. st' = [st EXCEPT ![s] = Closed(@), ![Peer(s)].fin = @ \/ Joined(st, s)]
    BY <1>4 DEF Close
  <2> QED BY <2>1, <1>t, CloseFrames
<1>5. ASSUME NEW s \in Sockets, LinkUp(s) PROVE FrameInv(st')
  <2>1. /\ st[s].link = "pending" /\ st[Peer(s)].link = "pending"
        /\ st' = [q \in Sockets |-> IF q \in {s, Peer(s)}
                     THEN [st[q] EXCEPT !.link = "up", !.wire = <<>>, !.got = <<>>] ELSE st[q]]
    BY <1>5 DEF LinkUp
  <2>2. \A q \in Sockets : st[q].rbuf # <<>> => st[q].link = "up"
    BY <1>t DEF SocketInv, Sound
  <2>3. FrameInv([q \in Sockets |-> IF q \in {s, Peer(s)}
                     THEN [st[q] EXCEPT !.link = "up", !.wire = <<>>, !.got = <<>>] ELSE st[q]])
    BY <2>1, <2>2, <1>t, LinkUpFrames
  <2> QED BY <2>1, <2>3
<1>6. ASSUME NEW s \in Sockets, NEW p \in Packets, Send(s, p) PROVE FrameInv(st')
  <2>1. PICK r \in SendResults(st, s, PktLenSize + Len(p)) : st' = SendPacket(st, s, p, r)
    BY <1>6 DEF Send
  <2>2. st[s].mOutBuf = <<>>
    BY <1>6 DEF Send
  <2> QED BY <2>1, <2>2, <1>t, SendFrames
<1> QED BY <1>1, <1>2, <1>3, <1>4, <1>5, <1>6 DEF Next

\* What is followed by something is a prefix of the whole.
LEMMA InFront ==
  ASSUME NEW T, NEW g \in Seq(T), NEW w \in Seq(T)
  PROVE  IsPrefix(g, g \o w)
<1> DEFINE z == g \o w
<1>1. /\ z \in Seq(T) /\ Len(z) = Len(g) + Len(w)
      /\ \A i \in 1 .. Len(g) + Len(w) : z[i] = IF i <= Len(g) THEN g[i] ELSE w[i - Len(g)]
  BY ConcatProperties
<1>2. Len(g) \in Nat /\ Len(w) \in Nat
  OBVIOUS
<1> HIDE DEF z
<1> DEFINE a == SubSeq(g, 1, Len(g))
           b == SubSeq(z, 1, Len(g))
<1>3. a = g
  BY SubSeqFull
<1>4. \A i \in 1 .. Len(g) : z[i] = g[i] /\ z[i] \in T
  BY <1>1, <1>2
<1>5. b \in Seq(T) /\ Len(b) = Len(g) /\ \A i \in 1 .. Len(g) : b[i] = z[i]
  <2> DEFINE n == Len(g)
  <2>1. n \in Nat /\ \A i \in 1 .. n : z[i] \in T
    BY <1>2, <1>4
  <2> HIDE DEF n
  <2>2. /\ SubSeq(z, 1, n) \in Seq(T) /\ Len(SubSeq(z, 1, n)) = (IF 1 <= n THEN n - 1 + 1 ELSE 0)
        /\ \A i \in 1 .. n - 1 + 1 : SubSeq(z, 1, n)[i] = z[1 + i - 1]
    BY <2>1, SubSeqProperties
  <2>3. Len(SubSeq(z, 1, n)) = n /\ \A i \in 1 .. n : SubSeq(z, 1, n)[i] = z[i]
    BY <2>1, <2>2
  <2> QED BY <2>2, <2>3 DEF n
<1> HIDE DEF b
<1>6. b = g
  BY <1>4, <1>5, SeqEqual
<1>7. Len(g) <= Len(z) /\ a = b
  BY <1>1, <1>2, <1>3, <1>6
<1> QED BY <1>7 DEF IsPrefix, b, z

\* What the invariant says of what is signalled.
LEMMA FramesHold == IInv /\ FrameInv(st) => Framed
<1> SUFFICES ASSUME IInv, FrameInv(st) PROVE Framed
  OBVIOUS
<1>1. ASSUME NEW s \in Sockets
      PROVE  st[s].mInBuf \in Seq(Bytes) /\ st[s].got \in Seq(Seq(Bytes)) /\ Peer(s) \in Sockets
  <2>1. st[s] \in Records /\ Peer(s) \in Sockets
    BY TypeParts DEF IInv
  <2> QED BY <2>1 DEF Records
<1>2. InputHasRoom
  <2>1. ASSUME NEW s \in Sockets
        PROVE  /\ Len(st[s].mInBuf) < BufSize
               /\ Len(st[s].mInBuf) < PktLenSize
                      + (IF Len(st[s].mInBuf) < PktLenSize THEN 1 ELSE Value(st[s].mInBuf))
    BY <1>1, SettledFits DEF FrameInv
  <2> QED BY Zenon, <2>1 DEF InputHasRoom
<1>3. ASSUME \A s \in Sockets : st[s].clean, NEW s \in Sockets, st[s].link = "up"
      PROVE  IsPrefix(st[s].got, st[Peer(s)].wire)
  <2>1. PICK w \in Seq(Short) : st[Peer(s)].wire = st[s].got \o w
    BY <1>3 DEF FrameInv, Joint, Linked, Carries
  <2>2. w \in Seq(Seq(Bytes))
    <3>1. Short \subseteq Seq(Bytes)
      BY DEF Short
    <3> QED BY <3>1, SeqMonotonic
  <2> QED BY <1>1, <2>1, <2>2, InFront
<1> QED BY <1>2, <1>3 DEF Framed
----------------------------------------------------------------------------
(* What holds in every execution.                                          *)

\* The invariant.
THEOREM Invariant == Spec => []IInv
<1> QED BY InitIInv, NextIInv, PTL DEF Spec

\* The factory's list holds the open sockets, once each, whatever handlers close,
\* create and connect in the middle of a pass.
THEOREM ListIsOpenSockets == Spec => []Registered
<1>1. IInv => Registered
  BY DEF IInv
<1> QED BY <1>1, Invariant, PTL

\* When the loop waits, read is asked for on every socket for which bytes have come,
\* but for one that its own handler has connected again.
THEOREM NothingOverlooked == Spec => []DataIsHeard
<1>1. IInv => DataIsHeard
  <2> SUFFICES ASSUME IInv, loop.at = "wait", NEW s \in Sockets, st[s].rbuf # <<>>, ~st[s].torn
               PROVE  "read" \in Recorded(s)
    BY DEF DataIsHeard
  <2>1. Sound(st[s]) /\ Armed(loop, st[s])
    BY DEF IInv, SocketInv
  <2>2. st[s].open /\ Live(st[s])
    BY <2>1 DEF Sound, Live, IInv, TypeOK, Records
  <2>3. "read" \in st[s].mask
    BY <2>1, <2>2 DEF Sound, Armed
  <2>4. "read" \in Happened(s)
    BY DEF Happened
  <2> QED BY <2>3, <2>4 DEF Recorded
<1> QED BY <1>1, Invariant, PTL

\* What is signalled at one end is what the other end's send put on the wire, whole and in
\* order, however the bytes are cut on their way, and the input buffer is never emptied for
\* want of room.
THEOREM PacketsFramed == Spec => []Framed
<1>1. Init => IInv /\ FrameInv(st)
  BY InitIInv, InitFrames
<1>2. IInv /\ FrameInv(st) /\ [Next]_vars => IInv' /\ FrameInv(st)'
  BY NextIInv, NextFrames
<1> QED BY <1>1, <1>2, FramesHold, PTL DEF Spec
=============================================================================
