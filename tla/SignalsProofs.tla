---------------------------- MODULE SignalsProofs ----------------------------
(***************************************************************************)
(* A signal and the objects connected to it mirror each other, and an      *)
(* emission reaches every object that stays connected, once, whatever its   *)
(* slots do.                                                                *)
(***************************************************************************)
EXTENDS Signals, FiniteSetTheorems, SequenceTheorems, TLAPS

Distinct(l) == \A i, j \in 1 .. Len(l) : l[i] = l[j] => i = j
Lists == {l \in Seq(Objects) : Distinct(l)}
----------------------------------------------------------------------------
(* Lists in which an object is once.                                       *)

\* An object of a list has one place there.
LEMMA PlaceFacts ==
  ASSUME NEW l \in Lists
  PROVE  /\ \A o \in ToSet(l) : Place(l, o) \in 1 .. Len(l) /\ l[Place(l, o)] = o
         /\ \A i \in 1 .. Len(l) : l[i] \in ToSet(l) /\ Place(l, l[i]) = i
         /\ ToSet(l) \in SUBSET Objects
<1>1. l \in Seq(Objects) /\ DOMAIN l = 1 .. Len(l) /\ Distinct(l)
  BY DEF Lists
<1>2. ASSUME NEW o \in ToSet(l) PROVE Place(l, o) \in 1 .. Len(l) /\ l[Place(l, o)] = o
  <2>1. \E i \in DOMAIN l : l[i] = o
    BY <1>2 DEF ToSet
  <2> QED BY <2>1, <1>1 DEF Place
<1>3. ASSUME NEW i \in 1 .. Len(l) PROVE l[i] \in ToSet(l) /\ Place(l, l[i]) = i
  <2>1. l[i] \in ToSet(l)
    BY <1>1 DEF ToSet
  <2>2. Place(l, l[i]) \in 1 .. Len(l) /\ l[Place(l, l[i])] = l[i]
    BY <2>1, <1>2
  <2> QED BY <2>1, <2>2, <1>1 DEF Distinct
<1>4. ToSet(l) \in SUBSET Objects
  BY <1>1 DEF ToSet
<1> QED BY <1>2, <1>3, <1>4

\* The empty list, and a list that grows at its end.
LEMMA EmptyFacts == <<>> \in Lists /\ ToSet(<<>>) = {}
BY DEF Lists, Distinct, ToSet

\* A receiver that connects comes to the end of the list and moves no other.
LEMMA AppendFacts ==
  ASSUME NEW l \in Lists, NEW o \in Objects, o \notin ToSet(l)
  PROVE  /\ Append(l, o) \in Lists
         /\ ToSet(Append(l, o)) = ToSet(l) \union {o}
         /\ \A a \in ToSet(l) : Place(Append(l, o), a) = Place(l, a)
<1> DEFINE m == Append(l, o)
<1>1. l \in Seq(Objects) /\ Distinct(l) /\ Len(l) \in Nat /\ DOMAIN l = 1 .. Len(l)
  BY DEF Lists
<1>2. /\ m \in Seq(Objects) /\ Len(m) = Len(l) + 1 /\ m[Len(l) + 1] = o
      /\ \A i \in 1 .. Len(l) : m[i] = l[i]
  BY <1>1, AppendProperties
<1>3. DOMAIN m = 1 .. Len(l) + 1
  BY <1>2
<1> HIDE DEF m
<1>4. \A i \in 1 .. Len(l) : m[i] # o
  BY <1>1, <1>2 DEF ToSet
<1>5. m \in Lists
  <2>1. ASSUME NEW i \in 1 .. Len(m), NEW j \in 1 .. Len(m), m[i] = m[j] PROVE i = j
    <3>1. (i \in 1 .. Len(l) \/ i = Len(l) + 1) /\ (j \in 1 .. Len(l) \/ j = Len(l) + 1)
      BY <1>1, <1>2
    <3> QED BY <3>1, <2>1, <1>1, <1>2, <1>4 DEF Distinct
  <2> QED BY <2>1, <1>2 DEF Lists, Distinct
<1>6. ToSet(m) = ToSet(l) \union {o}
  <2>1. ASSUME NEW i \in 1 .. Len(l) + 1 PROVE m[i] \in ToSet(l) \union {o}
    <3>1. i \in 1 .. Len(l) \/ i = Len(l) + 1
      BY <1>1
    <3> QED BY <3>1, <1>1, <1>2 DEF ToSet
  <2>2. ASSUME NEW a \in ToSet(l) \union {o} PROVE \E i \in 1 .. Len(l) + 1 : m[i] = a
    <3>1. CASE a = o
      <4>1. Len(l) + 1 \in 1 .. Len(l) + 1
        BY <1>1
      <4> QED BY <3>1, <4>1, <1>2
    <3>2. CASE a \in ToSet(l)
      <4>1. PICK i \in 1 .. Len(l) : l[i] = a
        BY <3>2, <1>1 DEF ToSet
      <4>2. i \in 1 .. Len(l) + 1 /\ m[i] = a
        BY <4>1, <1>1, <1>2
      <4> QED BY <4>2
    <3> QED BY <3>1, <3>2
  <2> QED BY <2>1, <2>2, <1>3 DEF ToSet
<1>7. ASSUME NEW a \in ToSet(l) PROVE Place(m, a) = Place(l, a)
  <2>1. Place(l, a) \in 1 .. Len(l) /\ l[Place(l, a)] = a
    BY PlaceFacts
  <2>2. Place(l, a) \in 1 .. Len(m) /\ m[Place(l, a)] = a
    BY <2>1, <1>1, <1>2
  <2>3. Place(m, m[Place(l, a)]) = Place(l, a)
    BY <2>2, <1>5, PlaceFacts
  <2> QED BY <2>2, <2>3
<1> QED BY <1>5, <1>6, <1>7 DEF m

\* Erasing one place moves what is behind it forward by one.
LEMMA ErasedFacts ==
  ASSUME NEW l \in Seq(Objects), NEW k \in 1 .. Len(l)
  PROVE  LET m == RemoveAt(l, k)
         IN  /\ m \in Seq(Objects) /\ Len(m) = Len(l) - 1
             /\ \A i \in 1 .. Len(m) : m[i] = l[IF i < k THEN i ELSE i + 1]
<1> DEFINE a == SubSeq(l, 1, k - 1)
           b == SubSeq(l, k + 1, Len(l))
           m == RemoveAt(l, k)
<1>1. a \in Seq(Objects) /\ Len(a) = k - 1 /\ \A i \in 1 .. Len(a) : a[i] = l[i]
  OBVIOUS
<1>2. b \in Seq(Objects) /\ Len(b) = Len(l) - k /\ \A i \in 1 .. Len(b) : b[i] = l[k + i]
  OBVIOUS
<1>3. m = a \o b
  BY DEF RemoveAt
<1> HIDE DEF a, b, m
<1>4. /\ m \in Seq(Objects) /\ Len(m) = Len(a) + Len(b)
      /\ \A i \in 1 .. Len(a) + Len(b) : m[i] = IF i <= Len(a) THEN a[i] ELSE b[i - Len(a)]
  BY <1>1, <1>2, <1>3, ConcatProperties
<1>5. Len(m) = Len(l) - 1
  BY <1>1, <1>2, <1>4
<1>6. ASSUME NEW i \in 1 .. Len(m) PROVE m[i] = l[IF i < k THEN i ELSE i + 1]
  <2>1. i \in 1 .. Len(a) + Len(b) /\ Len(a) = k - 1 /\ Len(b) = Len(l) - k /\ k \in 1 .. Len(l)
    BY <1>1, <1>2, <1>4
  <2>2. CASE i < k
    <3>1. i \in 1 .. Len(a)
      BY <2>1, <2>2
    <3>2. m[i] = a[i]
      BY <2>1, <3>1, <1>4
    <3> QED BY <2>2, <3>1, <3>2, <1>1
  <2>3. CASE ~(i < k)
    <3>1. i - Len(a) \in 1 .. Len(b) /\ k + (i - Len(a)) = i + 1 /\ ~(i <= Len(a))
      BY <2>1, <2>3
    <3>2. m[i] = b[i - Len(a)]
      BY <2>1, <3>1, <1>4
    <3> QED BY <2>3, <3>1, <3>2, <1>2
  <2> QED BY <2>2, <2>3
<1> QED BY <1>4, <1>5, <1>6 DEF m

\* A list without one of its objects: the others keep their order.
LEMMA WithoutFacts ==
  ASSUME NEW l \in Lists, NEW o \in Objects
  PROVE  /\ Without(l, o) \in Lists
         /\ ToSet(Without(l, o)) = ToSet(l) \ {o}
         /\ \A a, b \in ToSet(l) \ {o} :
               Place(Without(l, o), a) < Place(Without(l, o), b) <=> Place(l, a) < Place(l, b)
<1>1. CASE o \notin ToSet(l)
  BY <1>1 DEF Without
<1>2. CASE o \in ToSet(l)
  <2> DEFINE k == Place(l, o)
             m == RemoveAt(l, k)
             Was(i) == IF i < k THEN i ELSE i + 1
  <2>1. l \in Seq(Objects) /\ Distinct(l) /\ Len(l) \in Nat /\ DOMAIN l = 1 .. Len(l)
    BY DEF Lists
  <2>2. k \in 1 .. Len(l) /\ l[k] = o
    BY <1>2, PlaceFacts
  <2>3. \A i \in 1 .. Len(l) : l[i] = o => i = k
    BY PlaceFacts
  <2>4. /\ m \in Seq(Objects) /\ Len(m) = Len(l) - 1
        /\ \A i \in 1 .. Len(m) : m[i] = l[Was(i)]
    BY <2>1, <2>2, ErasedFacts
  <2> HIDE DEF k, m
  <2>5. ASSUME NEW i \in 1 .. Len(m) PROVE m[i] = l[Was(i)] /\ Was(i) \in 1 .. Len(l) /\ Was(i) # k
    BY <2>1, <2>2, <2>4
  <2>6. m \in Lists
    <3>1. ASSUME NEW i \in 1 .. Len(m), NEW j \in 1 .. Len(m), m[i] = m[j] PROVE i = j
      <4>1. Was(i) = Was(j)
        BY <2>5, <3>1, <2>1 DEF Distinct
      <4> QED BY <4>1, <2>2, <2>4
    <3> QED BY <3>1, <2>4 DEF Lists, Distinct
  <2>7. ASSUME NEW c \in ToSet(l) \ {o}
         PROVE  /\ Place(l, c) # k /\ Place(l, c) \in 1 .. Len(l) /\ c \in ToSet(m)
                /\ Place(m, c) = IF Place(l, c) < k THEN Place(l, c) ELSE Place(l, c) - 1
    <3> DEFINE p == Place(l, c)
               q == IF p < k THEN p ELSE p - 1
    <3>1. p \in 1 .. Len(l) /\ l[p] = c
      BY PlaceFacts
    <3>2. p # k
      BY <3>1, <2>2
    <3> HIDE DEF p
    <3>3. q \in 1 .. Len(m) /\ Was(q) = p
      BY <3>1, <3>2, <2>1, <2>2, <2>4
    <3>4. m[q] = c
      BY <3>1, <3>3, <2>5
    <3>5. m[q] \in ToSet(m) /\ Place(m, m[q]) = q
      BY <3>3, <2>6, PlaceFacts
    <3> QED BY <3>1, <3>2, <3>4, <3>5 DEF p
  <2>8. ToSet(m) = ToSet(l) \ {o}
    <3>1. ASSUME NEW c \in ToSet(m) PROVE c \in ToSet(l) \ {o}
      <4>1. Place(m, c) \in 1 .. Len(m) /\ m[Place(m, c)] = c
        BY <2>6, PlaceFacts
      <4>2. c = l[Was(Place(m, c))] /\ Was(Place(m, c)) \in 1 .. Len(l) /\ Was(Place(m, c)) # k
        BY <4>1, <2>5
      <4> QED BY <4>2, <2>3, PlaceFacts
    <3> QED BY <3>1, <2>7
  <2>9. ASSUME NEW c \in ToSet(l) \ {o}, NEW d \in ToSet(l) \ {o}
         PROVE  Place(m, c) < Place(m, d) <=> Place(l, c) < Place(l, d)
    <3>1. /\ Place(l, c) # k /\ Place(l, c) \in 1 .. Len(l)
          /\ Place(m, c) = IF Place(l, c) < k THEN Place(l, c) ELSE Place(l, c) - 1
      BY <2>7
    <3>2. /\ Place(l, d) # k /\ Place(l, d) \in 1 .. Len(l)
          /\ Place(m, d) = IF Place(l, d) < k THEN Place(l, d) ELSE Place(l, d) - 1
      BY <2>7
    <3> QED BY <3>1, <3>2, <2>1, <2>2
  <2>10. Without(l, o) = m
    BY <1>2 DEF Without, m, k
  <2> QED BY <2>6, <2>8, <2>9, <2>10
<1> QED BY <1>1, <1>2

\* Who is behind an object comes right after it.
LEMMA AfterFacts ==
  ASSUME NEW l \in Lists, NEW o \in ToSet(l)
  PROVE  /\ After(l, o) = End => \A a \in ToSet(l) : a = o \/ Place(l, a) < Place(l, o)
         /\ After(l, o) # End =>
               /\ After(l, o) \in ToSet(l)
               /\ \A a \in ToSet(l) :
                     Place(l, a) < Place(l, After(l, o)) <=> a = o \/ Place(l, a) < Place(l, o)
<1>1. l \in Seq(Objects) /\ Len(l) \in Nat
  BY DEF Lists
<1>2. Place(l, o) \in 1 .. Len(l) /\ l[Place(l, o)] = o /\ ToSet(l) \in SUBSET Objects
  BY PlaceFacts
<1>3. ASSUME NEW a \in ToSet(l)
      PROVE  Place(l, a) \in 1 .. Len(l) /\ (a = o <=> Place(l, a) = Place(l, o))
  <2>1. Place(l, a) \in 1 .. Len(l) /\ l[Place(l, a)] = a
    BY PlaceFacts
  <2> QED BY <2>1, <1>2
<1>4. CASE Place(l, o) = Len(l)
  <2>1. After(l, o) = End
    BY <1>4 DEF After
  <2>2. ASSUME NEW a \in ToSet(l) PROVE a = o \/ Place(l, a) < Place(l, o)
    BY <1>1, <1>2, <1>3, <1>4
  <2> QED BY <2>1, <2>2
<1>5. CASE Place(l, o) # Len(l)
  <2>1. Place(l, o) + 1 \in 1 .. Len(l) /\ After(l, o) = l[Place(l, o) + 1]
    BY <1>1, <1>2, <1>5 DEF After
  <2>2. After(l, o) \in ToSet(l) /\ Place(l, After(l, o)) = Place(l, o) + 1
    BY <2>1, PlaceFacts
  <2>3. After(l, o) # End
    BY <2>2, <1>2, SignalsAssumption
  <2>4. ASSUME NEW a \in ToSet(l)
        PROVE  Place(l, a) < Place(l, o) + 1 <=> a = o \/ Place(l, a) < Place(l, o)
    BY <1>1, <1>2, <1>3
  <2> QED BY <2>2, <2>3, <2>4
<1> QED BY <1>4, <1>5
----------------------------------------------------------------------------
(* What an emission has done and has still to do.                          *)

Emissions == [s : Sigs \union {End}, it : Objects \union {End}, next : Objects \union {End},
              called : Seq(Objects), due : SUBSET Objects]

\* Those an emission must reach are in the list; they have been called, once, if
\* and only if they are before the next one.
Reaches(l, e) ==
    /\ e.due \subseteq ToSet(l)
    /\ e.next # End => e.next \in ToSet(l)
    /\ e.next = End => e.due \subseteq ToSet(e.called)
    /\ e.next # End =>
           \A d \in e.due : d \in ToSet(e.called) <=> Place(l, d) < Place(l, e.next)
    /\ \A d \in e.due : \A i, j \in 1 .. Len(e.called) : e.called[i] = d /\ e.called[j] = d => i = j

\* An object that is connected meanwhile comes behind all others.
LEMMA ReachesMore ==
  ASSUME NEW l \in Lists, NEW e \in Emissions, Reaches(l, e), NEW o \in Objects, o \notin ToSet(l)
  PROVE  Reaches(Append(l, o), e)
<1> DEFINE m == Append(l, o)
<1>1. ToSet(m) = ToSet(l) \union {o} /\ \A a \in ToSet(l) : Place(m, a) = Place(l, a)
  BY AppendFacts
<1> HIDE DEF m
<1>2. e.due \subseteq ToSet(l) /\ (e.next # End => e.next \in ToSet(l))
  BY DEF Reaches
<1>3. e.due \subseteq ToSet(m) /\ (e.next # End => e.next \in ToSet(m))
  BY <1>1, <1>2
<1>4. \A d \in e.due : Place(m, d) = Place(l, d)
  BY <1>1, <1>2
<1>5. e.next # End => Place(m, e.next) = Place(l, e.next)
  BY <1>1, <1>2
<1>6. Reaches(m, e)
  BY <1>3, <1>4, <1>5 DEF Reaches
<1> QED BY <1>6 DEF m

\* An object that is disconnected meanwhile, and is not the next one, is due no more.
LEMMA ReachesLess ==
  ASSUME NEW l \in Lists, NEW e \in Emissions, Reaches(l, e), NEW o \in Objects, e.next # o
  PROVE  Reaches(Without(l, o), [e EXCEPT !.due = @ \ {o}])
<1> DEFINE m == Without(l, o)
           f == [e EXCEPT !.due = @ \ {o}]
<1>1. /\ ToSet(m) = ToSet(l) \ {o}
      /\ \A a, b \in ToSet(l) \ {o} : Place(m, a) < Place(m, b) <=> Place(l, a) < Place(l, b)
  BY WithoutFacts
<1>2. f.due = e.due \ {o} /\ f.next = e.next /\ f.called = e.called
  BY DEF Emissions
<1> HIDE DEF m, f
<1>3. e.due \subseteq ToSet(l) /\ (e.next # End => e.next \in ToSet(l))
  BY DEF Reaches
<1>4. f.due \subseteq ToSet(m) /\ (f.next # End => f.next \in ToSet(m))
  BY <1>1, <1>2, <1>3
<1>5. f.next = End => f.due \subseteq ToSet(f.called)
  BY <1>2 DEF Reaches
<1>6. ASSUME f.next # End, NEW d \in f.due
      PROVE  d \in ToSet(f.called) <=> Place(m, d) < Place(m, f.next)
  <2>1. d \in ToSet(l) \ {o} /\ e.next \in ToSet(l) \ {o} /\ d \in e.due
    BY <1>6, <1>2, <1>3
  <2>2. d \in ToSet(e.called) <=> Place(l, d) < Place(l, e.next)
    BY <1>6, <1>2, <2>1 DEF Reaches
  <2> QED BY <1>1, <1>2, <2>1, <2>2
<1>7. \A d \in f.due : \A i, j \in 1 .. Len(f.called) : f.called[i] = d /\ f.called[j] = d => i = j
  BY <1>2 DEF Reaches
<1>8. Reaches(m, f)
  BY <1>4, <1>5, <1>6, <1>7 DEF Reaches
<1> QED BY <1>8 DEF m, f

\* The objects of a sequence that grows.
LEMMA CalledFacts ==
  ASSUME NEW q \in Seq(Objects), NEW o \in Objects
  PROVE  /\ Append(q, o) \in Seq(Objects) /\ Len(Append(q, o)) = Len(q) + 1 /\ Len(q) \in Nat
         /\ Append(q, o)[Len(q) + 1] = o /\ \A i \in 1 .. Len(q) : Append(q, o)[i] = q[i]
         /\ ToSet(Append(q, o)) = ToSet(q) \union {o}
         /\ \A i \in 1 .. Len(q) : q[i] \in ToSet(q)
<1> DEFINE r == Append(q, o)
<1>1. /\ r \in Seq(Objects) /\ Len(r) = Len(q) + 1 /\ Len(q) \in Nat
      /\ r[Len(q) + 1] = o /\ \A i \in 1 .. Len(q) : r[i] = q[i]
  BY AppendProperties
<1>2. DOMAIN q = 1 .. Len(q) /\ DOMAIN r = 1 .. Len(q) + 1
  BY <1>1
<1> HIDE DEF r
<1>3. ASSUME NEW i \in 1 .. Len(q) + 1 PROVE r[i] \in ToSet(q) \union {o}
  <2>1. i \in 1 .. Len(q) \/ i = Len(q) + 1
    BY <1>1
  <2> QED BY <2>1, <1>1, <1>2 DEF ToSet
<1>4. ASSUME NEW a \in ToSet(q) PROVE \E i \in 1 .. Len(q) + 1 : r[i] = a
  <2>1. PICK i \in 1 .. Len(q) : q[i] = a
    BY <1>2 DEF ToSet
  <2>2. i \in 1 .. Len(q) + 1 /\ r[i] = a
    BY <2>1, <1>1
  <2> QED BY <2>2
<1>5. Len(q) + 1 \in 1 .. Len(q) + 1
  BY <1>1
<1>6. ToSet(r) = ToSet(q) \union {o}
  BY <1>1, <1>2, <1>3, <1>4, <1>5 DEF ToSet
<1> QED BY <1>1, <1>2, <1>6 DEF r, ToSet

\* The next one is called, and the one behind it is next.
LEMMA ReachesNext ==
  ASSUME NEW l \in Lists, NEW e \in Emissions, Reaches(l, e), e.next # End
  PROVE  LET o == e.next
         IN  Reaches(l, [e EXCEPT !.it = o, !.next = After(l, o), !.called = Append(@, o)])
<1> DEFINE o == e.next
           n == After(l, o)
           f == [e EXCEPT !.it = o, !.next = After(l, o), !.called = Append(@, o)]
           q == e.called
<1>1. o \in ToSet(l) /\ o \in Objects /\ q \in Seq(Objects)
  BY DEF Reaches, Emissions
<1>2. /\ n = End => \A a \in ToSet(l) : a = o \/ Place(l, a) < Place(l, o)
      /\ n # End => /\ n \in ToSet(l)
                    /\ \A a \in ToSet(l) : Place(l, a) < Place(l, n)
                                             <=> a = o \/ Place(l, a) < Place(l, o)
  BY <1>1, AfterFacts
<1>3. /\ Append(q, o) \in Seq(Objects) /\ Len(Append(q, o)) = Len(q) + 1 /\ Len(q) \in Nat
      /\ Append(q, o)[Len(q) + 1] = o /\ \A i \in 1 .. Len(q) : Append(q, o)[i] = q[i]
      /\ ToSet(Append(q, o)) = ToSet(q) \union {o}
      /\ \A i \in 1 .. Len(q) : q[i] \in ToSet(q)
  BY <1>1, CalledFacts
<1>4. f.due = e.due /\ f.next = n /\ f.called = Append(q, o)
  BY DEF Emissions
<1>5. /\ e.due \subseteq ToSet(l)
      /\ \A d \in e.due : d \in ToSet(q) <=> Place(l, d) < Place(l, o)
      /\ \A d \in e.due : \A i, j \in 1 .. Len(q) : q[i] = d /\ q[j] = d => i = j
  BY DEF Reaches
<1>6. Place(l, o) \in 1 .. Len(l)
  BY <1>1, PlaceFacts
<1> HIDE DEF o, n, f, q
<1>7. o \in e.due => o \notin ToSet(q)
  <2>1. ~(Place(l, o) < Place(l, o))
    BY <1>6
  <2> QED BY <2>1, <1>5
<1>8. \A d \in f.due : d \in ToSet(f.called) <=> d = o \/ Place(l, d) < Place(l, o)
  BY <1>3, <1>4, <1>5
<1>9. ASSUME NEW d \in f.due, NEW i \in 1 .. Len(f.called), NEW j \in 1 .. Len(f.called),
             f.called[i] = d, f.called[j] = d
      PROVE  i = j
  <2>1. (i \in 1 .. Len(q) \/ i = Len(q) + 1) /\ (j \in 1 .. Len(q) \/ j = Len(q) + 1)
    BY <1>3, <1>4
  <2>2. (i \in 1 .. Len(q) => q[i] = d) /\ (j \in 1 .. Len(q) => q[j] = d)
    BY <1>3, <1>4, <1>9
  <2>3. CASE d = o
    <3>1. i \notin 1 .. Len(q) /\ j \notin 1 .. Len(q)
      BY <2>2, <2>3, <1>3, <1>4, <1>7
    <3> QED BY <2>1, <3>1
  <2>4. CASE d # o
    <3>1. i # Len(q) + 1 /\ j # Len(q) + 1
      BY <2>4, <1>3, <1>4, <1>9
    <3> QED BY <2>1, <2>2, <3>1, <1>4, <1>5
  <2> QED BY <2>3, <2>4
<1>10. Reaches(l, f)
  <2>1. f.due \subseteq ToSet(l) /\ (f.next # End => f.next \in ToSet(l))
    BY <1>2, <1>4, <1>5
  <2>2. f.next = End => f.due \subseteq ToSet(f.called)
    BY <1>2, <1>4, <1>5, <1>8
  <2>3. f.next # End => \A d \in f.due : d \in ToSet(f.called) <=> Place(l, d) < Place(l, f.next)
    BY <1>2, <1>4, <1>5, <1>8
  <2> QED BY <2>1, <2>2, <2>3, <1>9 DEF Reaches
<1> QED BY <1>10 DEF o, f, q

\* The first one is called, and the others are due.
LEMMA ReachesFirst ==
  ASSUME NEW l \in Lists, l # <<>>, NEW s \in Sigs
  PROVE  LET o == First(l)
             e == [s |-> s, it |-> o, next |-> After(l, o), called |-> <<o>>, due |-> ToSet(l)]
         IN  e \in Emissions /\ Reaches(l, e)
<1> DEFINE o == First(l)
           n == After(l, o)
           e == [s |-> s, it |-> o, next |-> n, called |-> <<o>>, due |-> ToSet(l)]
<1>1. l \in Seq(Objects) /\ Len(l) \in Nat /\ 1 \in 1 .. Len(l) /\ o = l[1]
  BY DEF Lists, First
<1>2. o \in ToSet(l) /\ Place(l, o) = 1 /\ ToSet(l) \in SUBSET Objects /\ o \in Objects
  BY <1>1, PlaceFacts
<1>3. /\ n = End => \A a \in ToSet(l) : a = o \/ Place(l, a) < Place(l, o)
      /\ n # End => /\ n \in ToSet(l)
                    /\ \A a \in ToSet(l) : Place(l, a) < Place(l, n)
                                             <=> a = o \/ Place(l, a) < Place(l, o)
  BY <1>2, AfterFacts
<1>4. \A a \in ToSet(l) : ~(Place(l, a) < Place(l, o))
  <2>1. \A a \in ToSet(l) : Place(l, a) \in 1 .. Len(l)
    BY PlaceFacts
  <2> QED BY <2>1, <1>1, <1>2
<1>5. /\ e.s = s /\ e.it = o /\ e.next = n /\ e.called = <<o>> /\ e.due = ToSet(l)
      /\ Len(<<o>>) = 1 /\ <<o>>[1] = o /\ <<o>> \in Seq(Objects) /\ ToSet(<<o>>) = {o}
  <2>1. Len(<<o>>) = 1 /\ <<o>>[1] = o /\ <<o>> \in Seq(Objects) /\ DOMAIN <<o>> = {1}
    BY <1>2
  <2> QED BY <2>1 DEF ToSet
<1>6. e \in Emissions
  BY <1>2, <1>3, <1>5 DEF Emissions
<1> HIDE DEF o, n, e
<1>7. Reaches(l, e)
  BY <1>2, <1>3, <1>4, <1>5 DEF Reaches
<1> QED BY <1>6, <1>7 DEF o, n, e
----------------------------------------------------------------------------
(* The inductive invariant.                                                *)

\* Every variable stays within its type; above all, no object is in a list twice.
TypeOK ==
    /\ list \in [Sigs -> Lists] /\ senders \in [Objects -> SUBSET Sigs]
    /\ made \in SUBSET Sigs /\ alive \in SUBSET Objects
    /\ em \in Emissions

\* The two lists say the same, and name only what exists.
Mirror ==
    /\ \A s \in Sigs, o \in Objects : s \in senders[o] <=> o \in ToSet(list[s])
    /\ \A s \in Sigs : ToSet(list[s]) \subseteq alive /\ (list[s] # <<>> => s \in made)

Emitting ==
    em.s # End => em.s \in made /\ Reaches(list[em.s], em) /\ (em.it = End => em.next = End)

IInv == TypeOK /\ Mirror /\ Emitting

\* No one is connected to begin with, and nothing is being emitted.
LEMMA InitIInv == Init => IInv
<1> SUFFICES ASSUME Init PROVE IInv
  OBVIOUS
<1>1. em = None /\ list = [s \in Sigs |-> <<>>] /\ senders = [o \in Objects |-> {}]
      /\ made \in SUBSET Sigs /\ alive \in SUBSET Objects
  BY DEF Init
<1>2. None \in Emissions /\ None.s = End
  <2>1. <<>> \in Seq(Objects)
    OBVIOUS
  <2> QED BY <2>1 DEF None, Emissions
<1> QED BY <1>1, <1>2, EmptyFacts DEF IInv, TypeOK, Mirror, Emitting

\* connect, and what the copy of a signal or of an object does to lists.
LEMMA ConnectKeeps ==
  ASSUME IInv, NEW s \in Sigs, NEW o \in Objects, connect(s, o)
  PROVE  IInv'
<1>1. /\ list \in [Sigs -> Lists] /\ senders \in [Objects -> SUBSET Sigs]
      /\ made \in SUBSET Sigs /\ alive \in SUBSET Objects /\ em \in Emissions
  BY DEF IInv, TypeOK
<1>2. /\ s \in made /\ o \in alive /\ o \notin ToSet(list[s])
      /\ list' = [list EXCEPT ![s] = Append(@, o)]
      /\ senders' = [senders EXCEPT ![o] = @ \union {s}]
      /\ UNCHANGED <<made, alive, em>>
  BY DEF connect
<1> DEFINE m == Append(list[s], o)
<1>3. m \in Lists /\ ToSet(m) = ToSet(list[s]) \union {o}
  BY <1>1, <1>2, AppendFacts
<1>4. \A e \in Emissions : Reaches(list[s], e) => Reaches(m, e)
  BY <1>1, <1>2, ReachesMore
<1>5. list' = [list EXCEPT ![s] = m]
  BY <1>2
<1> HIDE DEF m
<1>6. TypeOK'
  BY <1>1, <1>2, <1>3, <1>5 DEF TypeOK
<1>7. Mirror'
  <2>1. ASSUME NEW t \in Sigs PROVE ToSet(list'[t]) \subseteq alive /\ (list'[t] # <<>> => t \in made)
    <3>1. ToSet(list[t]) \subseteq alive /\ (list[t] # <<>> => t \in made)
      BY DEF IInv, Mirror
    <3> QED BY <3>1, <1>1, <1>2, <1>3, <1>5
  <2>2. ASSUME NEW t \in Sigs, NEW p \in Objects PROVE t \in senders'[p] <=> p \in ToSet(list'[t])
    <3>1. t \in senders[p] <=> p \in ToSet(list[t])
      BY DEF IInv, Mirror
    <3>2. list'[t] = IF t = s THEN m ELSE list[t]
      BY <1>1, <1>5
    <3>3. senders'[p] = IF p = o THEN senders[p] \union {s} ELSE senders[p]
      BY <1>1, <1>2
    <3> QED BY <3>1, <3>2, <3>3, <1>3
  <2> QED BY <2>1, <2>2, <1>2 DEF Mirror
<1>8. Emitting'
  <2>1. SUFFICES ASSUME em.s # End PROVE em.s \in made /\ Reaches(list'[em.s], em)
                                         /\ (em.it = End => em.next = End)
    BY <1>2 DEF Emitting
  <2>2. em.s \in made /\ Reaches(list[em.s], em) /\ (em.it = End => em.next = End)
    BY <2>1 DEF IInv, Emitting
  <2>3. CASE em.s = s
    BY <2>2, <2>3, <1>1, <1>4, <1>5
  <2>4. CASE em.s # s
    BY <2>2, <2>4, <1>1, <1>5
  <2> QED BY <2>3, <2>4
<1> QED BY <1>6, <1>7, <1>8 DEF IInv

\* disconnect removes the receiver from the list and the signal from its senders; an
\* emission need no longer reach it.
LEMMA DisconnectKeeps ==
  ASSUME IInv, NEW s \in Sigs, NEW o \in Objects, disconnect(s, o)
  PROVE  IInv'
<1>1. /\ list \in [Sigs -> Lists] /\ senders \in [Objects -> SUBSET Sigs]
      /\ made \in SUBSET Sigs /\ alive \in SUBSET Objects /\ em \in Emissions
  BY DEF IInv, TypeOK
<1>2. CASE o \notin ToSet(list[s])
  <2>1. UNCHANGED <<list, senders, em, made, alive>>
    BY <1>2 DEF disconnect
  <2> QED BY <2>1 DEF IInv, TypeOK, Mirror, Emitting
<1>3. CASE o \in ToSet(list[s])
  <2> DEFINE m == Without(list[s], o)
             f == [em EXCEPT !.due = @ \ {o}]
  <2>1. /\ s \in made /\ o \in alive /\ NotNext(s, o) /\ Forget(s, o)
        /\ list' = [list EXCEPT ![s] = m]
        /\ senders' = [senders EXCEPT ![o] = @ \ {s}]
        /\ UNCHANGED <<made, alive>>
    BY <1>3 DEF disconnect
  <2>2. m \in Lists /\ ToSet(m) = ToSet(list[s]) \ {o}
    BY <1>1, WithoutFacts
  <2>3. f \in Emissions /\ f.s = em.s /\ f.it = em.it /\ f.next = em.next
    BY <1>1 DEF Emissions
  <2>4. em.next # o /\ Reaches(list[s], em) => Reaches(m, f)
    BY <1>1, ReachesLess
  <2>5. em' = IF em.s = s THEN f ELSE em
    BY <2>1 DEF Forget
  <2> HIDE DEF m, f
  <2>6. TypeOK'
    BY <1>1, <2>1, <2>2, <2>3, <2>5 DEF TypeOK
  <2>7. Mirror'
    <3>1. m # <<>> => list[s] # <<>>
      BY <1>3, EmptyFacts
    <3> QED BY <1>1, <2>1, <2>2, <3>1 DEF IInv, Mirror
  <2>8. Emitting'
    <3>1. SUFFICES ASSUME em.s # End
                   PROVE  em.s \in made /\ Reaches(list'[em.s], em') /\ (em.it = End => em.next = End)
      BY <2>1, <2>3, <2>5 DEF Emitting
    <3>2. em.s \in made /\ Reaches(list[em.s], em) /\ (em.it = End => em.next = End)
      BY <3>1 DEF IInv, Emitting
    <3>3. CASE em.s = s
      <4>1. em.next # o
        BY <3>3, <2>1 DEF NotNext
      <4> QED BY <3>2, <3>3, <4>1, <1>1, <2>1, <2>4, <2>5
    <3>4. CASE em.s # s
      BY <3>2, <3>4, <1>1, <2>1, <2>5
    <3> QED BY <3>3, <3>4
  <2> QED BY <2>6, <2>7, <2>8 DEF IInv
<1> QED BY <1>2, <1>3

\* A receiver that goes leaves every list it is in.
LEMMA DisconnectAllKeeps ==
  ASSUME IInv, NEW o \in Objects, disconnect_all(o)
  PROVE  IInv'
<1>1. /\ list \in [Sigs -> Lists] /\ senders \in [Objects -> SUBSET Sigs]
      /\ made \in SUBSET Sigs /\ alive \in SUBSET Objects /\ em \in Emissions
  BY DEF IInv, TypeOK
<1> DEFINE M(s) == IF s \in senders[o] THEN Without(list[s], o) ELSE list[s]
           f == [em EXCEPT !.due = @ \ {o}]
<1>2. /\ o \in alive /\ \A s \in Sigs : NotNext(s, o)
      /\ list' = [s \in Sigs |-> M(s)]
      /\ senders' = [senders EXCEPT ![o] = {}] /\ alive' = alive \ {o} /\ made' = made
      /\ em' = IF em.s \in senders[o] THEN f ELSE em
  BY DEF disconnect_all, Forget, slot_disconnect
<1>3. ASSUME NEW s \in Sigs PROVE M(s) \in Lists /\ ToSet(M(s)) = ToSet(list[s]) \ {o}
  <2>1. s \in senders[o] <=> o \in ToSet(list[s])
    BY DEF IInv, Mirror
  <2>2. list[s] \in Lists
    BY <1>1
  <2>3. Without(list[s], o) \in Lists /\ ToSet(Without(list[s], o)) = ToSet(list[s]) \ {o}
    BY <2>2, WithoutFacts
  <2> QED BY <2>1, <2>2, <2>3
<1>4. f \in Emissions /\ f.s = em.s /\ f.it = em.it /\ f.next = em.next
  BY <1>1 DEF Emissions
<1>5. ASSUME NEW s \in Sigs, s \in senders[o], em.next # o, Reaches(list[s], em)
      PROVE  Reaches(M(s), f)
  <2>1. Reaches(Without(list[s], o), f)
    BY <1>1, <1>5, ReachesLess
  <2> QED BY <2>1, <1>5
<1>6. \A s \in Sigs : s \notin senders[o] => M(s) = list[s]
  OBVIOUS
<1> HIDE DEF M, f
<1>7. TypeOK'
  BY <1>1, <1>2, <1>3, <1>4 DEF TypeOK
<1>8. Mirror'
  <2>1. ASSUME NEW s \in Sigs PROVE ToSet(list'[s]) \subseteq alive' /\ (list'[s] # <<>> => s \in made')
    <3>1. ToSet(list[s]) \subseteq alive /\ (list[s] # <<>> => s \in made)
      BY DEF IInv, Mirror
    <3>2. list'[s] # <<>> => list[s] # <<>>
      <4>1. CASE s \in senders[o]
        <5>1. o \in ToSet(list[s])
          BY <4>1 DEF IInv, Mirror
        <5> QED BY <5>1, EmptyFacts
      <4>2. CASE s \notin senders[o]
        BY <4>2, <1>2, <1>6
      <4> QED BY <4>1, <4>2
    <3> QED BY <3>1, <3>2, <1>2, <1>3
  <2>2. ASSUME NEW s \in Sigs, NEW p \in Objects PROVE s \in senders'[p] <=> p \in ToSet(list'[s])
    <3>1. s \in senders[p] <=> p \in ToSet(list[s])
      BY DEF IInv, Mirror
    <3> QED BY <3>1, <1>1, <1>2, <1>3
  <2> QED BY <2>1, <2>2 DEF Mirror
<1>9. Emitting'
  <2>1. SUFFICES ASSUME em.s # End
                 PROVE  em.s \in made /\ Reaches(list'[em.s], em') /\ (em.it = End => em.next = End)
    BY <1>2, <1>4 DEF Emitting
  <2>2. /\ em.s \in made /\ Reaches(list[em.s], em) /\ (em.it = End => em.next = End)
        /\ em.s \in Sigs /\ list'[em.s] = M(em.s)
    BY <2>1, <1>1, <1>2 DEF IInv, Emitting
  <2>3. CASE em.s \in senders[o]
    <3>1. em.next # o
      BY <2>2, <1>2 DEF NotNext
    <3> QED BY <2>2, <2>3, <3>1, <1>2, <1>5
  <2>4. CASE em.s \notin senders[o]
    BY <2>2, <2>4, <1>2, <1>6
  <2> QED BY <2>3, <2>4
<1> QED BY <1>7, <1>8, <1>9 DEF IInv

\* A copy of an object comes behind all others in every list the object is in.
LEMMA CopyKeeps ==
  ASSUME IInv, NEW o \in Objects, NEW p \in Objects, has_slots(o, p)
  PROVE  IInv'
<1>1. /\ list \in [Sigs -> Lists] /\ senders \in [Objects -> SUBSET Sigs]
      /\ made \in SUBSET Sigs /\ alive \in SUBSET Objects /\ em \in Emissions
  BY DEF IInv, TypeOK
<1> DEFINE M(s) == IF s \in senders[o] THEN slot_duplicate(list[s], o, p) ELSE list[s]
<1>2. /\ o \in alive /\ p \notin alive
      /\ list' = [s \in Sigs |-> M(s)]
      /\ senders' = [senders EXCEPT ![p] = senders[o]] /\ alive' = alive \union {p}
      /\ UNCHANGED <<made, em>>
  BY DEF has_slots
<1>3. ASSUME NEW s \in Sigs
      PROVE  /\ s \in senders[o] => /\ M(s) \in Lists /\ ToSet(M(s)) = ToSet(list[s]) \union {p}
                                    /\ Reaches(list[s], em) => Reaches(M(s), em)
             /\ s \notin senders[o] => M(s) = list[s]
             /\ list[s] \in Lists /\ p \notin ToSet(list[s])
  <2>1. list[s] \in Lists /\ p \notin ToSet(list[s]) /\ (s \in senders[o] <=> o \in ToSet(list[s]))
    BY <1>1, <1>2 DEF IInv, Mirror
  <2>2. CASE s \in senders[o]
    <3>1. M(s) = Append(list[s], p)
      BY <2>1, <2>2 DEF slot_duplicate
    <3>2. Append(list[s], p) \in Lists /\ ToSet(Append(list[s], p)) = ToSet(list[s]) \union {p}
      BY <2>1, AppendFacts
    <3>3. Reaches(list[s], em) => Reaches(Append(list[s], p), em)
      BY <2>1, <1>1, ReachesMore
    <3> QED BY <2>1, <2>2, <3>1, <3>2, <3>3
  <2>3. CASE s \notin senders[o]
    BY <2>1, <2>3
  <2> QED BY <2>2, <2>3
<1> HIDE DEF M
<1>4. TypeOK'
  BY <1>1, <1>2, <1>3 DEF TypeOK
<1>5. Mirror'
  <2>1. ASSUME NEW s \in Sigs PROVE ToSet(list'[s]) \subseteq alive' /\ (list'[s] # <<>> => s \in made')
    <3>1. ToSet(list[s]) \subseteq alive /\ (list[s] # <<>> => s \in made)
      BY DEF IInv, Mirror
    <3>2. list'[s] # <<>> => list[s] # <<>>
      <4>1. CASE s \in senders[o]
        <5>1. o \in ToSet(list[s])
          BY <4>1 DEF IInv, Mirror
        <5> QED BY <5>1, EmptyFacts
      <4>2. CASE s \notin senders[o]
        BY <4>2, <1>2, <1>3
      <4> QED BY <4>1, <4>2
    <3> QED BY <3>1, <3>2, <1>2, <1>3
  <2>2. ASSUME NEW s \in Sigs, NEW q \in Objects PROVE s \in senders'[q] <=> q \in ToSet(list'[s])
    <3>1. (s \in senders[q] <=> q \in ToSet(list[s])) /\ p \notin ToSet(list[s])
      BY <1>3 DEF IInv, Mirror
    <3>2. q # p => senders'[q] = senders[q]
      BY <1>1, <1>2
    <3>3. senders'[p] = senders[o]
      BY <1>1, <1>2
    <3>4. list'[s] = M(s)
      BY <1>2
    <3> QED BY <3>1, <3>2, <3>3, <3>4, <1>3
  <2> QED BY <2>1, <2>2 DEF Mirror
<1>6. Emitting'
  <2>1. SUFFICES ASSUME em.s # End
                 PROVE  em.s \in made /\ Reaches(list'[em.s], em) /\ (em.it = End => em.next = End)
    BY <1>2 DEF Emitting
  <2>2. /\ em.s \in made /\ Reaches(list[em.s], em) /\ (em.it = End => em.next = End)
        /\ em.s \in Sigs /\ list'[em.s] = M(em.s)
    BY <2>1, <1>1, <1>2 DEF IInv, Emitting
  <2> QED BY <2>2, <1>3
<1> QED BY <1>4, <1>5, <1>6 DEF IInv

\* A copy of a signal has the list of the one it copies; a signal that is destroyed is not
\* being emitted, and leaves the senders of every receiver.
LEMMA SignalKeeps ==
  ASSUME IInv, NEW s \in Sigs, NEW t \in Sigs,
         signal_base(s, t) \/ signal_disconnect_all(s)
  PROVE  IInv'
<1>1. /\ list \in [Sigs -> Lists] /\ senders \in [Objects -> SUBSET Sigs]
      /\ made \in SUBSET Sigs /\ alive \in SUBSET Objects /\ em \in Emissions
  BY DEF IInv, TypeOK
<1>2. CASE signal_base(s, t)
  <2>1. /\ s \in made /\ t \notin made /\ list' = [list EXCEPT ![t] = list[s]]
        /\ senders' = [o \in Objects |-> IF o \in ToSet(list[s]) THEN senders[o] \union {t} ELSE senders[o]]
        /\ made' = made \union {t} /\ UNCHANGED <<alive, em>>
    BY <1>2 DEF signal_base
  <2>2. list[t] = <<>>
    BY <2>1 DEF IInv, Mirror
  <2>3. TypeOK'
    BY <1>1, <2>1 DEF TypeOK
  <2>4. Mirror'
    <3>1. \A o \in Objects : t \notin senders[o]
      BY <2>2, EmptyFacts DEF IInv, Mirror
    <3> QED BY <1>1, <2>1, <3>1 DEF IInv, Mirror
  <2>5. Emitting'
    BY <1>1, <2>1 DEF IInv, Emitting
  <2> QED BY <2>3, <2>4, <2>5 DEF IInv
<1>3. CASE signal_disconnect_all(s)
  <2>1. /\ s \in made /\ em.s # s /\ list' = [list EXCEPT ![s] = <<>>]
        /\ senders' = [o \in Objects |-> senders[o] \ {s}]
        /\ made' = made \ {s} /\ UNCHANGED <<alive, em>>
    BY <1>3 DEF signal_disconnect_all
  <2>2. TypeOK'
    BY <1>1, <2>1, EmptyFacts DEF TypeOK
  <2>3. Mirror'
    BY <1>1, <2>1, EmptyFacts DEF IInv, Mirror
  <2>4. Emitting'
    BY <1>1, <2>1 DEF IInv, Emitting
  <2> QED BY <2>2, <2>3, <2>4 DEF IInv
<1> QED BY <1>2, <1>3

\* An emission steps from one receiver to the next.
LEMMA EmissionKeeps ==
  ASSUME IInv, (\E s \in Sigs : emit(s)) \/ SlotReturns \/ EmitReturns
  PROVE  IInv'
<1>1. /\ list \in [Sigs -> Lists] /\ senders \in [Objects -> SUBSET Sigs]
      /\ made \in SUBSET Sigs /\ alive \in SUBSET Objects /\ em \in Emissions
  BY DEF IInv, TypeOK
<1>2. UNCHANGED <<list, senders, made, alive>>
  BY DEF emit, SlotReturns, EmitReturns
<1>3. Mirror' /\ (em' \in Emissions => TypeOK')
  BY <1>1, <1>2 DEF IInv, TypeOK, Mirror
<1>4. ASSUME NEW s \in Sigs, emit(s) PROVE IInv'
  <2>1. s \in made /\ list[s] # <<>> /\ list[s] \in Lists
    BY <1>1, <1>4 DEF emit
  <2> DEFINE o == First(list[s])
             e == [s |-> s, it |-> o, next |-> After(list[s], o), called |-> <<o>>, due |-> ToSet(list[s])]
  <2>2. em' = e
    BY <1>4 DEF emit
  <2>3. e \in Emissions /\ Reaches(list[s], e)
    BY <2>1, ReachesFirst
  <2>4. e.s = s /\ e.it = o
    OBVIOUS
  <2>5. o # End
    <3>1. o = list[s][1] /\ list[s][1] \in Objects
      BY <2>1 DEF First, Lists
    <3> QED BY <3>1, SignalsAssumption
  <2> HIDE DEF e, o
  <2>6. Emitting'
    BY <1>2, <2>1, <2>2, <2>3, <2>4, <2>5 DEF Emitting
  <2> QED BY <1>3, <2>2, <2>3, <2>6 DEF IInv
<1>5. CASE SlotReturns
  <2> DEFINE o == em.next
             l == list[em.s]
             e == [em EXCEPT !.it = End, !.next = End]
             f == [em EXCEPT !.it = o, !.next = After(l, o), !.called = Append(@, o)]
  <2>1. em.s # End /\ em.it # End /\ em' = IF o = End THEN e ELSE f
    BY <1>5 DEF SlotReturns, itNext
  <2>2. em.s \in made /\ Reaches(l, em) /\ l \in Lists
    BY <2>1, <1>1 DEF IInv, Emitting
  <2>3. CASE o = End
    <3>1. /\ e \in Emissions /\ e.s = em.s /\ e.it = End /\ e.next = End
          /\ e.due = em.due /\ e.called = em.called
      BY <1>1 DEF Emissions
    <3>2. Reaches(l, e)
      BY <3>1, <2>2, <2>3 DEF Reaches
    <3>3. em' = e
      BY <2>1, <2>3
    <3> HIDE DEF e
    <3>4. Emitting'
      BY <3>1, <3>2, <3>3, <2>2, <1>2 DEF Emitting
    <3> QED BY <1>3, <3>1, <3>3, <3>4 DEF IInv
  <2>4. CASE o # End
    <3>1. Reaches(l, f)
      BY <2>2, <2>4, <1>1, ReachesNext
    <3>2. o \in ToSet(l) /\ o \in Objects /\ ToSet(l) \in SUBSET Objects
      BY <2>2, <2>4, PlaceFacts DEF Reaches
    <3>3. After(l, o) \in Objects \union {End}
      BY <3>2, <2>2, AfterFacts
    <3>4. Append(em.called, o) \in Seq(Objects)
      BY <3>2, <1>1, CalledFacts DEF Emissions
    <3>5. f \in Emissions /\ f.s = em.s /\ f.it = o
      BY <3>2, <3>3, <3>4, <1>1 DEF Emissions
    <3>6. em' = f
      BY <2>1, <2>4
    <3> HIDE DEF f
    <3>7. Emitting'
      BY <3>1, <3>5, <3>6, <2>2, <2>4, <1>2 DEF Emitting
    <3> QED BY <1>3, <3>5, <3>6, <3>7 DEF IInv
  <2> QED BY <2>3, <2>4
<1>6. CASE EmitReturns
  <2>1. em' = None /\ None.s = End /\ None \in Emissions
    <3>1. <<>> \in Seq(Objects)
      OBVIOUS
    <3> QED BY <3>1, <1>6 DEF EmitReturns, None, Emissions
  <2>2. Emitting'
    BY <2>1 DEF Emitting
  <2> QED BY <1>3, <2>1, <2>2 DEF IInv
<1> QED BY <1>4, <1>5, <1>6

\* Every step keeps the invariant.
LEMMA NextIInv == IInv /\ [Next]_vars => IInv'
<1> SUFFICES ASSUME IInv, [Next]_vars PROVE IInv'
  OBVIOUS
<1>1. ASSUME NEW s \in Sigs, NEW o \in Objects, connect(s, o) \/ disconnect(s, o) PROVE IInv'
  BY <1>1, ConnectKeeps, DisconnectKeeps
<1>2. ASSUME NEW o \in Objects, NEW p \in Objects, disconnect_all(o) \/ has_slots(o, p) PROVE IInv'
  BY <1>2, DisconnectAllKeeps, CopyKeeps
<1>3. ASSUME NEW s \in Sigs, NEW t \in Sigs, signal_base(s, t) \/ signal_disconnect_all(s) PROVE IInv'
  BY <1>3, SignalKeeps
<1>4. CASE (\E s \in Sigs : emit(s)) \/ SlotReturns \/ EmitReturns
  BY <1>4, EmissionKeeps
<1>5. CASE UNCHANGED vars
  BY <1>5 DEF vars, IInv, TypeOK, Mirror, Emitting
<1> QED BY <1>1, <1>2, <1>3, <1>4, <1>5 DEF Next
----------------------------------------------------------------------------
(* What holds in every execution.                                          *)

\* The lists mirror each other and no object is in one twice, an emission keeps
\* its place: for any signals, objects and number of steps.
THEOREM Invariant == Spec => []IInv
<1>1. Init => IInv
  BY InitIInv
<1>2. IInv /\ [Next]_vars => IInv'
  BY NextIInv
<1> QED BY <1>1, <1>2, PTL DEF Spec

\* A signal and an object agree on whether they are connected, after any copies
\* and destructions, and an emission calls once each object that stays connected,
\* and none that is gone.
THEOREM EverySlotReached == Spec => []SignalsReach
<1>1. IInv => SignalsReach
  <2> SUFFICES ASSUME IInv PROVE SignalsReach
    OBVIOUS
  <2>1. em \in Emissions
    BY DEF IInv, TypeOK
  <2>2. ASSUME em.s # End, NEW o \in em.due
        PROVE  Cardinality({i \in DOMAIN em.called : em.called[i] = o}) <= 1
    <3> DEFINE C == {i \in DOMAIN em.called : em.called[i] = o}
    <3>1. \A i, j \in C : i = j
      <4>1. DOMAIN em.called = 1 .. Len(em.called)
        BY <2>1 DEF Emissions
      <4> QED BY <4>1, <2>2 DEF IInv, Emitting, Reaches
    <3>2. CASE C = {}
      <4>1. Cardinality(C) = 0
        BY <3>2, FS_EmptySet
      <4> QED BY <4>1
    <3>3. CASE C # {}
      <4>1. PICK i \in C : C = {i}
        BY <3>1, <3>3
      <4>2. Cardinality({i}) = 1
        BY FS_Singleton
      <4> QED BY <4>1, <4>2
    <3> QED BY <3>2, <3>3
  <2> QED BY <2>2 DEF IInv, Mirror, Emitting, Reaches, SignalsReach
<1> QED BY <1>1, Invariant, PTL
=============================================================================
