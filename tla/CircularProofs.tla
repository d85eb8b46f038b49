----------------------------- MODULE CircularProofs -----------------------------
(* Theorems about Circular, for any objects, elements and size: a ring that no    *)
(* exception has damaged is a sequence of at most Size elements, laid out from    *)
(* begin_ on, and it behaves as one.                                              *)
EXTENDS Circular, FiniteSetTheorems, SequenceTheorems, TLAPS

-------------------------------------------------------------------------------
(* Indexes.  Place is the slot n steps after f, Offset the number of steps from f *)
(* to slot i; the loops of the model, which are recursive functions, are compared *)
(* with them.                                                                     *)

Place(f, n)  == IF f + n <= Size THEN f + n ELSE f + n - (Size + 1)
Offset(f, i) == IF f <= i THEN i - f ELSE i - f + (Size + 1)

\* A set of naturals that is not empty has a least one.
LEMMA LeastExists ==
    ASSUME NEW T, T \subseteq Nat, T # {}
    PROVE  \E x \in T : \A y \in T : x <= y
<1> DEFINE R == OpToRel(<, Nat)
<1>1. IsWellFoundedOn(R, Nat)  BY NatLessThanWellFounded
<1>2. \E x \in T : \A y \in T : ~ (<<y, x>> \in R)
  <2> HIDE DEF R
  <2> QED BY <1>1, WFMin
<1>3. \A x, y \in Nat : <<y, x>> \in R <=> y < x  BY DEF OpToRel
<1> HIDE DEF R
<1>4. PICK x \in T : \A y \in T : ~ (<<y, x>> \in R)  BY <1>2
<1>5. ASSUME NEW y \in T PROVE x <= y
  <2>1. x \in Nat /\ y \in Nat  OBVIOUS
  <2>2. ~ (y < x)  BY <1>3, <1>4, <2>1
  <2> QED BY <2>1, <2>2
<1> QED BY <1>5

\* Induction up to N: two functions that start alike and whose next values follow
\* from the ones before in the same way are equal.  E is the set of the places where
\* they are.
LEMMA EqualUpTo ==
    ASSUME NEW N \in Nat, NEW E, 0 \in E,
           \A n \in 1 .. N : n - 1 \in E => n \in E
    PROVE  \A n \in 0 .. N : n \in E
<1> DEFINE T == {n \in 0 .. N : n \notin E}
<1>1. SUFFICES ASSUME T # {} PROVE FALSE  OBVIOUS
<1>2. T \subseteq Nat  OBVIOUS
<1>3. PICK n \in T : \A m \in T : n <= m
  <2> HIDE DEF T
  <2> QED BY <1>1, <1>2, LeastExists
<1>4. n \in 1 .. N /\ n - 1 \in 0 .. N /\ n - 1 \notin T  BY <1>3
<1> QED BY <1>3, <1>4

LEMMA Indexes ==
    ASSUME NEW f \in Index
    PROVE  /\ \A n \in Index : Place(f, n) \in Index /\ Offset(f, Place(f, n)) = n
           /\ \A i \in Index : Offset(f, i) \in Index /\ Place(f, Offset(f, i)) = i
           /\ Place(f, 0) = f
           /\ increment(f) \in Index /\ decrement(f) \in Index
           /\ increment(f) = Place(f, 1) /\ Place(decrement(f), 1) = f
BY SizeAssumption DEF Index, Place, Offset, increment, decrement

\* begin_ and end_ tell how many steps there are between them.
LEMMA SizeOfPlace ==
    ASSUME NEW c, c.first \in Index, NEW n \in Index, c.last = Place(c.first, n)
    PROVE  SizeOf(c) = n
BY SizeAssumption DEF Index, Place, SizeOf

LEMMA SizeOfIsIndex ==
    ASSUME NEW c, c.first \in Index, c.last \in Index
    PROVE  SizeOf(c) \in Index /\ c.last = Place(c.first, SizeOf(c))
BY SizeAssumption DEF Index, Place, SizeOf

\* The n-th increment of begin() is where Place says.
LEMMA IteratorIsPlace ==
    ASSUME NEW c, c.first \in Index, NEW n \in Index
    PROVE  Iterator(c, n) = Place(c.first, n)
<1> DEFINE at == CHOOSE at : at = [k \in 0 .. n |-> IF k = 0 THEN c.first
                                                     ELSE Increased(at[k - 1])]
           place == [k \in 0 .. n |-> Place(c.first, k)]
<1>0. n \in Nat /\ \A k \in 0 .. n : k \in Index  BY SizeAssumption DEF Index
<1>1. place = [k \in 0 .. n |-> IF k = 0 THEN c.first ELSE Increased(place[k - 1])]
  <2>1. ASSUME NEW k \in 1 .. n PROVE Place(c.first, k) = Increased(Place(c.first, k - 1))
    BY <1>0, SizeAssumption DEF Place, Increased, Index
  <2>2. Place(c.first, 0) = c.first  BY Indexes
  <2> QED BY <1>0, <2>1, <2>2
<1>2. at = [k \in 0 .. n |-> IF k = 0 THEN c.first ELSE Increased(at[k - 1])]
  <2> HIDE DEF place
  <2> QED BY <1>1
<1>3. Iterator(c, n) = at[n]  BY DEF Iterator
<1> HIDE DEF at
<1> DEFINE E == {k \in 0 .. n : at[k] = place[k]}
<1>4. 0 \in E
  <2>1. 0 \in 0 .. n  BY <1>0
  <2>2. at[0] = c.first  BY <1>2, <2>1
  <2>3. place[0] = c.first
    <3> HIDE DEF place
    <3> QED BY <1>1, <2>1
  <2> QED BY <2>1, <2>2, <2>3
<1>5. ASSUME NEW k \in 1 .. n, k - 1 \in E PROVE k \in E
  <2>1. k \in 0 .. n /\ k # 0 /\ at[k - 1] = place[k - 1]  BY <1>0, <1>5
  <2>2. at[k] = Increased(at[k - 1])  BY <1>2, <2>1
  <2>3. place[k] = Increased(place[k - 1])
    <3> HIDE DEF place
    <3> QED BY <1>1, <2>1
  <2> QED BY <2>1, <2>2, <2>3
<1> HIDE DEF E
<1>6. n \in E  BY <1>0, <1>4, <1>5, EqualUpTo
<1> QED BY <1>0, <1>3, <1>6 DEF E
-------------------------------------------------------------------------------
(* Rings.  RingOf(f, s) is the ring of the sequence s that starts at slot f: every *)
(* operation on a ring is one on the sequence.                                    *)

Record(slots, f, l) == [slots |-> slots, first |-> f, last |-> l]

SlotsOf(f, s) == [i \in Index |-> IF Offset(f, i) < Len(s) THEN s[Offset(f, i) + 1] ELSE Raw]

RingOf(f, s) == Record(SlotsOf(f, s), f, Place(f, Len(s)))

\* The sequences a ring has room for.
Fit == {s \in Seq(Values) : Len(s) <= Size}

LEMMA FitsAreShort ==
    ASSUME NEW s \in Fit
    PROVE  /\ s \in Seq(Values) /\ Len(s) \in Index
           /\ \A n \in 1 .. Len(s) : s[n] \in Values
BY SizeAssumption DEF Fit, Index

\* What can be seen of the ring of a sequence.
LEMMA Seen ==
    ASSUME NEW f \in Index, NEW s \in Fit
    PROVE  /\ RingOf(f, s).slots = SlotsOf(f, s)
           /\ RingOf(f, s).first = f /\ RingOf(f, s).last = Place(f, Len(s))
           /\ RingOf(f, s).last \in Index
           /\ SizeOf(RingOf(f, s)) = Len(s)
           /\ LiveSlots(RingOf(f, s)) = {i \in Index : Offset(f, i) < Len(s)}
           /\ Contents(RingOf(f, s)) = s
           /\ {i \in Index : RingOf(f, s).slots[i] # Raw}
                = {i \in Index : Offset(f, i) < Len(s)}
<1> DEFINE c == RingOf(f, s)
<1>1. /\ c.slots = SlotsOf(f, s) /\ c.first = f /\ c.last = Place(f, Len(s))
  BY DEF RingOf, Record
<1> HIDE DEF c
<1>2. s \in Seq(Values) /\ Len(s) \in Index /\ Len(s) \in Nat
  BY FitsAreShort, SizeAssumption DEF Index
<1>3. c.last \in Index
  <2>1. Place(f, Len(s)) \in Index  BY <1>2, Indexes
  <2> QED BY <1>1, <2>1
<1>4. SizeOf(c) = Len(s)  BY <1>1, <1>2, SizeOfPlace
<1>5. \A n \in 0 .. Len(s) - 1 : n \in Index /\ Iterator(c, n) = Place(f, n)
  BY <1>1, <1>2, IteratorIsPlace, SizeAssumption DEF Index
<1>6. LiveSlots(c) = {i \in Index : Offset(f, i) < Len(s)}
  <2>1. ASSUME NEW i \in LiveSlots(c) PROVE i \in Index /\ Offset(f, i) < Len(s)
    <3>1. PICK n \in 0 .. Len(s) - 1 : i = Iterator(c, n)
      BY <1>4, <2>1 DEF LiveSlots
    <3>2. n \in Index /\ i = Place(f, n)  BY <1>5, <3>1
    <3>3. i \in Index /\ Offset(f, i) = n  BY <3>2, Indexes
    <3> QED BY <1>2, <3>1, <3>3
  <2>2. ASSUME NEW i \in Index, Offset(f, i) < Len(s) PROVE i \in LiveSlots(c)
    <3> DEFINE n == Offset(f, i)
    <3>1. n \in Index /\ Place(f, n) = i  BY Indexes
    <3>2. n \in 0 .. Len(s) - 1  BY <1>2, <2>2, <3>1, SizeAssumption DEF Index
    <3> HIDE DEF n
    <3>3. i = Iterator(c, n)  BY <1>5, <3>1, <3>2
    <3> QED BY <1>4, <3>2, <3>3 DEF LiveSlots
  <2> QED BY <2>1, <2>2
<1>7. Contents(c) = s
  <2>1. Contents(c) = [n \in 1 .. Len(s) |-> c.slots[Iterator(c, n - 1)]]
    BY <1>4 DEF Contents
  <2>2. ASSUME NEW n \in 1 .. Len(s) PROVE c.slots[Iterator(c, n - 1)] = s[n]
    <3>1. n - 1 \in 0 .. Len(s) - 1  BY <1>2
    <3>2. Iterator(c, n - 1) = Place(f, n - 1) /\ n - 1 \in Index  BY <1>5, <3>1
    <3>3. Place(f, n - 1) \in Index /\ Offset(f, Place(f, n - 1)) = n - 1
      BY <3>2, Indexes
    <3>4. c.slots[Place(f, n - 1)] = s[(n - 1) + 1]
      BY <1>1, <1>2, <3>1, <3>3 DEF SlotsOf
    <3> QED BY <3>2, <3>4
  <2>3. s = [n \in 1 .. Len(s) |-> s[n]]  BY <1>2
  <2> QED BY <2>1, <2>2, <2>3
<1>8. {i \in Index : c.slots[i] # Raw} = {i \in Index : Offset(f, i) < Len(s)}
  <2>1. ASSUME NEW i \in Index PROVE c.slots[i] # Raw <=> Offset(f, i) < Len(s)
    <3>1. Offset(f, i) \in Nat  BY Indexes, SizeAssumption DEF Index
    <3>2. CASE Offset(f, i) < Len(s)
      <4>1. Offset(f, i) + 1 \in 1 .. Len(s)  BY <1>2, <3>1, <3>2
      <4>2. s[Offset(f, i) + 1] \in Values  BY <4>1, FitsAreShort
      <4> QED BY <1>1, <3>2, <4>2, ValuesAssumption DEF SlotsOf, Values
    <3>3. CASE ~(Offset(f, i) < Len(s))
      BY <1>1, <3>3 DEF SlotsOf
    <3> QED BY <3>2, <3>3
  <2> QED BY <2>1
<1> QED BY <1>1, <1>3, <1>4, <1>6, <1>7, <1>8 DEF c

\* Rings are compared slot by slot.
LEMMA SameRing ==
    ASSUME NEW slots, slots = [i \in Index |-> slots[i]],
           NEW f \in Index, NEW s, NEW l, l = Place(f, Len(s)),
           \A i \in Index : slots[i] = IF Offset(f, i) < Len(s) THEN s[Offset(f, i) + 1]
                                                                ELSE Raw
    PROVE  Record(slots, f, l) = RingOf(f, s)
<1>1. slots = SlotsOf(f, s)  BY DEF SlotsOf
<1> QED BY <1>1 DEF RingOf

\* The writes of the operations: a slot, and one of the two ends.
Write(slots, k, v) == [slots EXCEPT ![k] = v]

PutBack(c, v)  == [c EXCEPT !.slots[c.last] = v, !.last = increment(c.last)]
PutFront(c, v) == [c EXCEPT !.slots[decrement(c.first)] = v, !.first = decrement(c.first)]

LEMMA PopFrontIs ==
    ASSUME NEW sl, NEW f, NEW l
    PROVE  PopFront(Record(sl, f, l))
             = Record(Write(sl, f, Raw), increment(f), l)
<1> DEFINE c == [slots |-> sl, first |-> f, last |-> l]
           g == increment(f)
           d == [c EXCEPT !.slots[f] = Raw]
<1>1. d = [slots |-> [sl EXCEPT ![f] = Raw], first |-> f, last |-> l]  OBVIOUS
<1>2. PopFront(Record(sl, f, l)) = [d EXCEPT !.first = g]
  BY DEF PopFront, Record
<1> HIDE DEF d
<1>3. [d EXCEPT !.first = g] = [slots |-> [sl EXCEPT ![f] = Raw], first |-> g, last |-> l]
  BY <1>1
<1> QED BY <1>2, <1>3 DEF Record, Write

LEMMA PopBackIs ==
    ASSUME NEW sl, NEW f, NEW l
    PROVE  PopBack(Record(sl, f, l))
             = Record(Write(sl, decrement(l), Raw), f, decrement(l))
<1> DEFINE c == [slots |-> sl, first |-> f, last |-> l]
           g == decrement(l)
           d == [c EXCEPT !.slots[decrement(l)] = Raw]
<1>1. d = [slots |-> [sl EXCEPT ![decrement(l)] = Raw], first |-> f, last |-> l]  OBVIOUS
<1>2. PopBack(Record(sl, f, l)) = [d EXCEPT !.last = g]
  BY DEF PopBack, Record
<1> HIDE DEF d
<1>3. [d EXCEPT !.last = g] = [slots |-> [sl EXCEPT ![decrement(l)] = Raw], first |-> f, last |-> g]
  BY <1>1
<1> QED BY <1>2, <1>3 DEF Record, Write

LEMMA PutBackIs ==
    ASSUME NEW sl, NEW f, NEW l, NEW v
    PROVE  PutBack(Record(sl, f, l), v)
             = Record(Write(sl, l, v), f, increment(l))
<1> DEFINE c == [slots |-> sl, first |-> f, last |-> l]
           g == increment(l)
           d == [c EXCEPT !.slots[l] = v]
<1>1. d = [slots |-> [sl EXCEPT ![l] = v], first |-> f, last |-> l]  OBVIOUS
<1>2. PutBack(Record(sl, f, l), v) = [d EXCEPT !.last = g]
  BY DEF PutBack, Record
<1> HIDE DEF d
<1>3. [d EXCEPT !.last = g] = [slots |-> [sl EXCEPT ![l] = v], first |-> f, last |-> g]
  BY <1>1
<1> QED BY <1>2, <1>3 DEF Record, Write

LEMMA PutFrontIs ==
    ASSUME NEW sl, NEW f, NEW l, NEW v
    PROVE  PutFront(Record(sl, f, l), v)
             = Record(Write(sl, decrement(f), v), decrement(f), l)
<1> DEFINE c == [slots |-> sl, first |-> f, last |-> l]
           g == decrement(f)
           d == [c EXCEPT !.slots[decrement(f)] = v]
<1>1. d = [slots |-> [sl EXCEPT ![decrement(f)] = v], first |-> f, last |-> l]  OBVIOUS
<1>2. PutFront(Record(sl, f, l), v) = [d EXCEPT !.first = g]
  BY DEF PutFront, Record
<1> HIDE DEF d
<1>3. [d EXCEPT !.first = g] = [slots |-> [sl EXCEPT ![decrement(f)] = v], first |-> g, last |-> l]
  BY <1>1
<1> QED BY <1>2, <1>3 DEF Record, Write

\* Arithmetic of the two ends: what happens to the steps to a slot when begin_ moves.
LEMMA Shifts ==
    ASSUME NEW f \in Index
    PROVE  /\ \A i \in Index : Offset(increment(f), i) = IF i = f THEN Size
                                                         ELSE Offset(f, i) - 1
           /\ \A n \in 1 .. Size : Place(increment(f), n - 1) = Place(f, n)
           /\ \A i \in Index : Offset(decrement(f), i) = IF i = decrement(f) THEN 0
                                                         ELSE Offset(f, i) + 1
           /\ \A n \in 0 .. Size - 1 : Place(decrement(f), n + 1) = Place(f, n)
           /\ \A n \in 1 .. Size : decrement(Place(f, n)) = Place(f, n - 1)
           /\ \A n \in 0 .. Size - 1 : increment(Place(f, n)) = Place(f, n + 1)
           /\ \A i \in Index : Offset(f, i) = 0 <=> i = f
           /\ Offset(f, decrement(f)) = Size
BY SizeAssumption DEF Index, Place, Offset, increment, decrement

LEMMA PopFrontOf ==
    ASSUME NEW f \in Index, NEW s \in Fit, s # <<>>
    PROVE  PopFront(RingOf(f, s)) = RingOf(increment(f), Tail(s)) /\ Tail(s) \in Fit
<1> DEFINE sl == SlotsOf(f, s)
           to == [sl EXCEPT ![f] = Raw]
           g == increment(f)
           t == Tail(s)
<1>1. PopFront(RingOf(f, s)) = Record(to, g, Place(f, Len(s)))
  BY PopFrontIs DEF RingOf, Write
<1>2. /\ s \in Seq(Values) /\ Len(s) \in 1 .. Size /\ Len(s) \in Index /\ g \in Index
  <2>1. s \in Seq(Values) /\ Len(s) \in Index  BY FitsAreShort
  <2>2. Len(s) # 0  BY <2>1
  <2>3. g \in Index  BY Indexes
  <2> QED BY <2>1, <2>2, <2>3, SizeAssumption DEF Index
<1>3. /\ t \in Seq(Values) /\ Len(t) = Len(s) - 1
      /\ \A n \in 1 .. Len(t) : t[n] = s[n + 1]
  BY <1>2
<1>4. t \in Fit  BY <1>2, <1>3, SizeAssumption DEF Fit
<1>5. Place(f, Len(s)) = Place(g, Len(t))  BY <1>2, <1>3, Shifts
<1>6. ASSUME NEW i \in Index
      PROVE  to[i] = IF Offset(g, i) < Len(t) THEN t[Offset(g, i) + 1] ELSE Raw
  <2>1. CASE i = f
    <3>1. to[i] = Raw  BY <2>1 DEF SlotsOf
    <3>2. Offset(g, i) = Size  BY <2>1, Shifts
    <3> QED BY <1>2, <1>3, <3>1, <3>2, SizeAssumption
  <2>2. CASE i # f
    <3>1. to[i] = IF Offset(f, i) < Len(s) THEN s[Offset(f, i) + 1] ELSE Raw
      BY <2>2 DEF SlotsOf
    <3>2. /\ Offset(g, i) = Offset(f, i) - 1
          /\ Offset(f, i) \in Nat \ {0}
      BY <2>2, Shifts, Indexes, SizeAssumption DEF Index
    <3>3. CASE Offset(f, i) < Len(s)
      <4>1. Offset(g, i) + 1 \in 1 .. Len(t)  BY <1>2, <1>3, <3>2, <3>3
      <4>2. t[Offset(g, i) + 1] = s[Offset(f, i) + 1]  BY <1>3, <3>2, <4>1
      <4> QED BY <1>2, <1>3, <3>1, <3>2, <3>3, <4>2
    <3>4. CASE ~(Offset(f, i) < Len(s))
      BY <1>2, <1>3, <3>1, <3>2, <3>4
    <3> QED BY <3>3, <3>4
  <2> QED BY <2>1, <2>2
<1>7. to = [i \in Index |-> to[i]]  BY DEF SlotsOf
<1> HIDE DEF to, t, g
<1>8. Record(to, g, Place(f, Len(s))) = RingOf(g, t)
  BY <1>2, <1>5, <1>6, <1>7, SameRing
<1> QED BY <1>1, <1>4, <1>8 DEF t, g

LEMMA PopBackOf ==
    ASSUME NEW f \in Index, NEW s \in Fit, s # <<>>
    PROVE  /\ PopBack(RingOf(f, s)) = RingOf(f, Front(s))
           /\ Front(s) \in Fit /\ Len(Front(s)) = Len(s) - 1
<1> DEFINE sl == SlotsOf(f, s)
           k == Place(f, Len(s) - 1)
           to == [sl EXCEPT ![k] = Raw]
           t == Front(s)
<1>1. /\ s \in Seq(Values) /\ Len(s) \in 1 .. Size /\ Len(s) - 1 \in Index
  <2>1. s \in Seq(Values) /\ Len(s) \in Index  BY FitsAreShort
  <2>2. Len(s) # 0  BY <2>1
  <2> QED BY <2>1, <2>2, SizeAssumption DEF Index
<1>2. decrement(Place(f, Len(s))) = k  BY <1>1, Shifts
<1>3. PopBack(RingOf(f, s)) = Record(to, f, k)
  BY <1>2, PopBackIs DEF RingOf, Write
<1>4. /\ t \in Seq(Values) /\ Len(t) = Len(s) - 1
      /\ \A n \in 1 .. Len(t) : t[n] = s[n]
  <2>1. Len(s) \in Nat /\ Len(s) >= 1  BY <1>1
  <2>2. \A i \in 1 .. Len(s) - 1 : s[i] \in Values  BY <1>1, <2>1
  <2>3. t = SubSeq(s, 1, Len(s) - 1)  BY DEF Front
  <2>4. Len(s) - 1 \in Int /\ 1 \in Int  BY <2>1
  <2> HIDE DEF t
  <2>5. /\ SubSeq(s, 1, Len(s) - 1) \in Seq(Values)
        /\ Len(SubSeq(s, 1, Len(s) - 1)) = IF 1 <= Len(s) - 1 THEN Len(s) - 1 - 1 + 1 ELSE 0
        /\ \A i \in 1 .. Len(s) - 1 - 1 + 1 : SubSeq(s, 1, Len(s) - 1)[i] = s[1 + i - 1]
    BY <2>2, <2>4, SubSeqProperties
  <2>6. t \in Seq(Values) /\ Len(t) = Len(s) - 1
    <3>1. t \in Seq(Values)  BY <2>3, <2>5
    <3>2. Len(t) = IF 1 <= Len(s) - 1 THEN Len(s) - 1 - 1 + 1 ELSE 0
      BY <2>3, <2>5
    <3>3. CASE 1 <= Len(s) - 1  BY <2>1, <3>1, <3>2, <3>3
    <3>4. CASE ~(1 <= Len(s) - 1)
      <4>1. Len(t) = 0  BY <3>2, <3>4
      <4>2. \A l \in Nat : l >= 1 /\ ~(1 <= l - 1) => l = 1  OBVIOUS
      <4>3. Len(s) = 1  BY <2>1, <3>4, <4>2
      <4> QED BY <4>1, <4>3
    <3> QED BY <3>1, <3>3, <3>4
  <2>7. ASSUME NEW n \in 1 .. Len(t) PROVE t[n] = s[n]
    BY <2>1, <2>3, <2>5, <2>6
  <2> QED BY <2>6, <2>7
<1>5. t \in Fit  BY <1>1, <1>4, SizeAssumption DEF Fit
<1>6. ASSUME NEW i \in Index
      PROVE  to[i] = IF Offset(f, i) < Len(t) THEN t[Offset(f, i) + 1] ELSE Raw
  <2>1. Offset(f, k) = Len(s) - 1 /\ k \in Index  BY <1>1, Indexes
  <2>2. Offset(f, i) \in Nat /\ Place(f, Offset(f, i)) = i
    BY Indexes, SizeAssumption DEF Index
  <2>3. CASE i = k
    <3>1. to[i] = Raw  BY <2>1, <2>3 DEF SlotsOf
    <3> QED BY <1>4, <2>1, <2>3, <3>1
  <2>4. CASE i # k
    <3>1. to[i] = IF Offset(f, i) < Len(s) THEN s[Offset(f, i) + 1] ELSE Raw
      BY <2>4 DEF SlotsOf
    <3>2. Offset(f, i) # Len(s) - 1  BY <2>2, <2>4
    <3>3. Offset(f, i) < Len(t) => t[Offset(f, i) + 1] = s[Offset(f, i) + 1]
      BY <1>1, <1>4, <2>2
    <3> QED BY <1>1, <1>4, <2>2, <3>1, <3>2, <3>3
  <2> QED BY <2>3, <2>4
<1>7. to = [i \in Index |-> to[i]]  BY DEF SlotsOf
<1> HIDE DEF to, t
<1>8. Record(to, f, k) = RingOf(f, t)
  BY <1>4, <1>6, <1>7, SameRing
<1> QED BY <1>3, <1>4, <1>5, <1>8 DEF t

LEMMA PutBackOf ==
    ASSUME NEW f \in Index, NEW s \in Fit, Len(s) < Size, NEW v \in Values
    PROVE  /\ PutBack(RingOf(f, s), v) = RingOf(f, Append(s, v))
           /\ Append(s, v) \in Fit
<1> DEFINE sl == SlotsOf(f, s)
           k == Place(f, Len(s))
           to == [sl EXCEPT ![k] = v]
           t == Append(s, v)
<1>1. s \in Seq(Values) /\ Len(s) \in 0 .. Size - 1 /\ Len(s) \in Index
  BY FitsAreShort, SizeAssumption DEF Index
<1>2. increment(k) = Place(f, Len(s) + 1)  BY <1>1, Shifts
<1>3. PutBack(RingOf(f, s), v) = Record(to, f, Place(f, Len(s) + 1))
  BY <1>2, PutBackIs DEF RingOf, Write
<1>4. /\ t \in Seq(Values) /\ Len(t) = Len(s) + 1
      /\ \A n \in 1 .. Len(s) : t[n] = s[n]
      /\ t[Len(s) + 1] = v
  BY <1>1, AppendProperties
<1>5. t \in Fit  BY <1>1, <1>4, SizeAssumption DEF Fit
<1>6. ASSUME NEW i \in Index
      PROVE  to[i] = IF Offset(f, i) < Len(t) THEN t[Offset(f, i) + 1] ELSE Raw
  <2>1. Offset(f, k) = Len(s) /\ k \in Index  BY <1>1, Indexes
  <2>2. Offset(f, i) \in Nat /\ Place(f, Offset(f, i)) = i
    <3>1. Offset(f, i) \in Index /\ Place(f, Offset(f, i)) = i  BY Indexes
    <3> QED BY <3>1, SizeAssumption DEF Index
  <2>3. CASE i = k
    <3>1. to[i] = v  BY <2>1, <2>3 DEF SlotsOf
    <3>2. Len(s) < Len(t)  BY <1>1, <1>4
    <3> QED BY <1>4, <2>1, <2>3, <3>1, <3>2
  <2>4. CASE i # k
    <3>1. to[i] = IF Offset(f, i) < Len(s) THEN s[Offset(f, i) + 1] ELSE Raw
      BY <2>4 DEF SlotsOf
    <3>2. Offset(f, i) # Len(s)  BY <2>2, <2>4
    <3>3. Offset(f, i) < Len(s) => t[Offset(f, i) + 1] = s[Offset(f, i) + 1]
      BY <1>1, <1>4, <2>2
    <3> QED BY <1>1, <1>4, <2>2, <3>1, <3>2, <3>3
  <2> QED BY <2>3, <2>4
<1>7. to = [i \in Index |-> to[i]]  BY DEF SlotsOf
<1>8. Place(f, Len(s) + 1) = Place(f, Len(t))  BY <1>4
<1> HIDE DEF to, t
<1>9. Record(to, f, Place(f, Len(s) + 1)) = RingOf(f, t)
  BY <1>6, <1>7, <1>8, SameRing
<1> QED BY <1>3, <1>5, <1>9 DEF t

LEMMA PutFrontOf ==
    ASSUME NEW f \in Index, NEW s \in Fit, Len(s) < Size, NEW v \in Values
    PROVE  /\ PutFront(RingOf(f, s), v) = RingOf(decrement(f), <<v>> \o s)
           /\ <<v>> \o s \in Fit
<1> DEFINE sl == SlotsOf(f, s)
           g == decrement(f)
           to == [sl EXCEPT ![g] = v]
           t == <<v>> \o s
<1>1. s \in Seq(Values) /\ Len(s) \in 0 .. Size - 1 /\ Len(s) \in Index /\ g \in Index
  <2>1. s \in Seq(Values) /\ Len(s) \in Index  BY FitsAreShort
  <2>2. g \in Index  BY Indexes
  <2> QED BY <2>1, <2>2, SizeAssumption DEF Index
<1>2. PutFront(RingOf(f, s), v) = Record(to, g, Place(f, Len(s)))
  BY PutFrontIs DEF RingOf, Write
<1>3. /\ t \in Seq(Values) /\ Len(t) = Len(s) + 1
      /\ t[1] = v
      /\ \A n \in 1 .. Len(s) : t[n + 1] = s[n]
  <2>1. /\ <<v>> \in Seq(Values) /\ Len(<<v>>) = 1 /\ <<v>>[1] = v  OBVIOUS
  <2>2. /\ t \in Seq(Values) /\ Len(t) = 1 + Len(s)
        /\ \A n \in 1 .. 1 + Len(s) : t[n] = IF n <= 1 THEN <<v>>[n] ELSE s[n - 1]
    BY <1>1, <2>1, ConcatProperties
  <2> HIDE DEF t
  <2>3. Len(s) \in Nat  BY <1>1
  <2>4. t[1] = v  BY <2>1, <2>2, <2>3
  <2>5. ASSUME NEW n \in 1 .. Len(s) PROVE t[n + 1] = s[n]
    <3>1. n + 1 \in 1 .. 1 + Len(s) /\ ~(n + 1 <= 1) /\ (n + 1) - 1 = n  BY <2>3
    <3>2. t[n + 1] = s[(n + 1) - 1]  BY <2>2, <3>1
    <3> QED BY <3>1, <3>2
  <2> QED BY <2>2, <2>3, <2>4, <2>5
<1>4. t \in Fit  BY <1>1, <1>3, SizeAssumption DEF Fit
<1>5. Place(f, Len(s)) = Place(g, Len(t))  BY <1>1, <1>3, Shifts
<1>6. ASSUME NEW i \in Index
      PROVE  to[i] = IF Offset(g, i) < Len(t) THEN t[Offset(g, i) + 1] ELSE Raw
  <2>1. CASE i = g
    <3>1. to[i] = v  BY <2>1 DEF SlotsOf
    <3>2. Offset(g, i) = 0  BY <2>1, Shifts
    <3> QED BY <1>1, <1>3, <3>1, <3>2
  <2>2. CASE i # g
    <3>1. to[i] = IF Offset(f, i) < Len(s) THEN s[Offset(f, i) + 1] ELSE Raw
      BY <2>2 DEF SlotsOf
    <3>2. /\ Offset(g, i) = Offset(f, i) + 1
          /\ Offset(f, i) \in Nat
      BY <2>2, Shifts, Indexes, SizeAssumption DEF Index
    <3>3. CASE Offset(f, i) < Len(s)
      <4>1. Offset(f, i) + 1 \in 1 .. Len(s)  BY <1>1, <3>2, <3>3
      <4>2. t[(Offset(f, i) + 1) + 1] = s[Offset(f, i) + 1]  BY <1>3, <4>1
      <4> QED BY <1>1, <1>3, <3>1, <3>2, <3>3, <4>2
    <3>4. CASE ~(Offset(f, i) < Len(s))
      BY <1>1, <1>3, <3>1, <3>2, <3>4
    <3> QED BY <3>3, <3>4
  <2> QED BY <2>1, <2>2
<1>7. to = [i \in Index |-> to[i]]  BY DEF SlotsOf
<1> HIDE DEF to, t, g
<1>8. Record(to, g, Place(f, Len(s))) = RingOf(g, t)
  BY <1>1, <1>5, <1>6, <1>7, SameRing
<1> QED BY <1>2, <1>4, <1>8 DEF t, g
-------------------------------------------------------------------------------
(* The operations, as operations on the sequence.                                 *)

\* Room is made by giving up the element at the other end.
LEMMA RoomAtBackOf ==
    ASSUME NEW f \in Index, NEW s \in Fit
    PROVE  \/ /\ RoomAtBack(RingOf(f, s)) = RingOf(f, s)
              /\ Len(s) < Size
           \/ /\ RoomAtBack(RingOf(f, s)) = RingOf(increment(f), Tail(s))
              /\ ~(Len(s) < Size)
              /\ increment(f) \in Index /\ Tail(s) \in Fit /\ Len(Tail(s)) < Size
<1>1. Len(s) \in 0 .. Size /\ s \in Seq(Values)  BY FitsAreShort DEF Index
<1>2. SizeOf(RingOf(f, s)) = Len(s)  BY Seen
<1>3. CASE Len(s) < Size
  BY <1>1, <1>2, <1>3, SizeAssumption DEF RoomAtBack
<1>4. CASE ~(Len(s) < Size)
  <2>1. Len(s) = Size /\ s # <<>>  BY <1>1, <1>4, SizeAssumption
  <2>2. /\ PopFront(RingOf(f, s)) = RingOf(increment(f), Tail(s))
        /\ Tail(s) \in Fit /\ increment(f) \in Index
    BY <2>1, PopFrontOf, Indexes
  <2>3. Len(Tail(s)) < Size  BY <1>1, <2>1, SizeAssumption
  <2>4. RoomAtBack(RingOf(f, s)) = PopFront(RingOf(f, s))
    BY <1>2, <2>1 DEF RoomAtBack
  <2> QED BY <1>4, <2>2, <2>3, <2>4
<1> QED BY <1>3, <1>4

LEMMA RoomAtFrontOf ==
    ASSUME NEW f \in Index, NEW s \in Fit
    PROVE  \E t \in Fit :
             /\ RoomAtFront(RingOf(f, s)) = RingOf(f, t) /\ Len(t) < Size
             /\ t = IF Len(s) < Size THEN s ELSE Front(s)
<1>1. Len(s) \in 0 .. Size /\ s \in Seq(Values)  BY FitsAreShort DEF Index
<1>2. SizeOf(RingOf(f, s)) = Len(s)  BY Seen
<1>3. CASE Len(s) < Size
  BY <1>1, <1>2, <1>3, SizeAssumption DEF RoomAtFront
<1>4. CASE ~(Len(s) < Size)
  <2>1. Len(s) = Size /\ s # <<>>  BY <1>1, <1>4, SizeAssumption
  <2>2. /\ PopBack(RingOf(f, s)) = RingOf(f, Front(s))
        /\ Front(s) \in Fit /\ Len(Front(s)) = Len(s) - 1
    BY <2>1, PopBackOf
  <2>3. Len(Front(s)) < Size  BY <2>1, <2>2, SizeAssumption
  <2>4. RoomAtFront(RingOf(f, s)) = PopBack(RingOf(f, s))
    BY <1>2, <2>1 DEF RoomAtFront
  <2> QED BY <1>4, <2>2, <2>3, <2>4
<1> QED BY <1>3, <1>4

LEMMA EmplaceBackOf ==
    ASSUME NEW f \in Index, NEW s \in Fit, NEW v \in Values
    PROVE  /\ \E g \in Index : EmplaceBack(RingOf(f, s), v) = RingOf(g, Deque!WithBack(s, v))
           /\ Deque!WithBack(s, v) \in Fit
<1>1. \A c : EmplaceBack(c, v) = PutBack(RoomAtBack(c), v)
  BY DEF EmplaceBack, PutBack
<1>2. CASE /\ RoomAtBack(RingOf(f, s)) = RingOf(f, s)
           /\ Len(s) < Size
  <2>1. PutBack(RingOf(f, s), v) = RingOf(f, Append(s, v)) /\ Append(s, v) \in Fit
    BY <1>2, PutBackOf
  <2>2. Deque!WithBack(s, v) = Append(s, v)  BY <1>2 DEF Deque!WithBack, Deque!Room
  <2> QED BY <1>1, <1>2, <2>1, <2>2
<1>3. CASE /\ RoomAtBack(RingOf(f, s)) = RingOf(increment(f), Tail(s))
           /\ ~(Len(s) < Size)
           /\ increment(f) \in Index /\ Tail(s) \in Fit /\ Len(Tail(s)) < Size
  <2>1. /\ PutBack(RingOf(increment(f), Tail(s)), v)
             = RingOf(increment(f), Append(Tail(s), v))
        /\ Append(Tail(s), v) \in Fit
    BY <1>3, PutBackOf
  <2>2. Deque!WithBack(s, v) = Append(Tail(s), v)
    BY <1>3 DEF Deque!WithBack, Deque!Room
  <2> QED BY <1>1, <1>3, <2>1, <2>2
<1> QED BY <1>2, <1>3, RoomAtBackOf

LEMMA EmplaceFrontOf ==
    ASSUME NEW f \in Index, NEW s \in Fit, NEW v \in Values
    PROVE  /\ \E g \in Index : EmplaceFront(RingOf(f, s), v) = RingOf(g, Deque!WithFront(s, v))
           /\ Deque!WithFront(s, v) \in Fit
<1>1. PICK t \in Fit :
        /\ RoomAtFront(RingOf(f, s)) = RingOf(f, t) /\ Len(t) < Size
        /\ t = IF Len(s) < Size THEN s ELSE Front(s)
  BY RoomAtFrontOf
<1>2. EmplaceFront(RingOf(f, s), v) = PutFront(RingOf(f, t), v)
  BY <1>1 DEF EmplaceFront, PutFront
<1>3. /\ PutFront(RingOf(f, t), v) = RingOf(decrement(f), <<v>> \o t)
      /\ <<v>> \o t \in Fit /\ decrement(f) \in Index
  BY <1>1, PutFrontOf, Indexes
<1>4. <<v>> \o t = Deque!WithFront(s, v)
  <2>1. CASE Len(s) < Size  BY <1>1, <2>1 DEF Deque!WithFront, Deque!Room
  <2>2. CASE ~(Len(s) < Size)  BY <1>1, <2>2 DEF Deque!WithFront, Deque!Room, Deque!Front, Front
  <2> QED BY <2>1, <2>2
<1> QED BY <1>2, <1>3, <1>4

\* An empty ring, wherever it starts.
LEMMA EmptyRing ==
    ASSUME NEW f \in Index
    PROVE  /\ <<>> \in Fit
           /\ RingOf(f, <<>>) = Record([i \in Index |-> Raw], f, f)
           /\ NewRing = RingOf(0, <<>>) /\ 0 \in Index
<1>1. <<>> \in Fit  BY SizeAssumption DEF Fit
<1>2. ASSUME NEW h \in Index
      PROVE  RingOf(h, <<>>) = Record([i \in Index |-> Raw], h, h)
  <2>1. \A i \in Index : ~(Offset(h, i) < 0)
    BY Indexes, SizeAssumption DEF Index
  <2>2. SlotsOf(h, <<>>) = [i \in Index |-> Raw]  BY <2>1 DEF SlotsOf
  <2>3. Place(h, 0) = h  BY Indexes
  <2> QED BY <2>2, <2>3 DEF RingOf
<1>3. 0 \in Index  BY SizeAssumption DEF Index
<1> QED BY <1>1, <1>2, <1>3 DEF NewRing, Record

LEMMA ClearOf ==
    ASSUME NEW f \in Index, NEW s \in Fit
    PROVE  Clear(RingOf(f, s)) = RingOf(Place(f, Len(s)), <<>>)
<1> DEFINE c  == RingOf(f, s)
           h  == Place(f, Len(s))
           to == [i \in Index |-> IF i \in LiveSlots(c) THEN Raw ELSE c.slots[i]]
<1>1. /\ c.slots = SlotsOf(f, s) /\ c.first = f /\ c.last = h /\ h \in Index
      /\ LiveSlots(c) = {i \in Index : Offset(f, i) < Len(s)}
  BY Seen
<1>2. to = [i \in Index |-> Raw]  BY <1>1 DEF SlotsOf
<1>3. Clear(c) = Record(to, h, h)
  <2>1. Clear(c) = [[c EXCEPT !.slots = to] EXCEPT !.first = h]
    BY <1>1 DEF Clear
  <2> HIDE DEF to
  <2>2. [c EXCEPT !.slots = to] = Record(to, f, h)  BY DEF RingOf, Record
  <2>3. [Record(to, f, h) EXCEPT !.first = h] = Record(to, h, h)  BY DEF Record
  <2> QED BY <2>1, <2>2, <2>3
<1> QED BY <1>1, <1>2, <1>3, EmptyRing

\* The elements of a ring that was moved from are still there, to be destroyed.
Hollow(s) == [n \in 1 .. Len(s) |-> Moved]

LEMMA MovedFromOf ==
    ASSUME NEW f \in Index, NEW s \in Fit
    PROVE  MovedFrom(RingOf(f, s)) = RingOf(f, Hollow(s)) /\ Hollow(s) \in Fit
<1> DEFINE c  == RingOf(f, s)
           h  == Place(f, Len(s))
           to == [i \in Index |-> IF i \in LiveSlots(c) THEN Moved ELSE c.slots[i]]
           t  == Hollow(s)
<1>1. /\ c.slots = SlotsOf(f, s) /\ c.first = f /\ c.last = h /\ h \in Index
      /\ LiveSlots(c) = {i \in Index : Offset(f, i) < Len(s)}
  BY Seen
<1>2. Len(s) \in Nat /\ Len(s) <= Size
  BY FitsAreShort, SizeAssumption DEF Index
<1>3. /\ t \in Seq(Values) /\ Len(t) = Len(s)
      /\ \A n \in 1 .. Len(s) : t[n] = Moved
  BY <1>2 DEF Hollow, Values
<1>4. t \in Fit  BY <1>2, <1>3 DEF Fit
<1>5. MovedFrom(c) = Record(to, f, h)
  <2>1. MovedFrom(c) = [c EXCEPT !.slots = to]
    BY <1>1 DEF MovedFrom
  <2> HIDE DEF to
  <2>2. [c EXCEPT !.slots = to] = Record(to, f, h)  BY DEF RingOf, Record
  <2> QED BY <2>1, <2>2
<1>6. ASSUME NEW i \in Index
      PROVE  to[i] = IF Offset(f, i) < Len(t) THEN t[Offset(f, i) + 1] ELSE Raw
  <2>1. Offset(f, i) \in Nat  BY Indexes, SizeAssumption DEF Index
  <2>2. CASE Offset(f, i) < Len(s)
    <3>1. Offset(f, i) + 1 \in 1 .. Len(s)  BY <1>2, <2>1, <2>2
    <3> QED BY <1>1, <1>3, <2>2, <3>1
  <2>3. CASE ~(Offset(f, i) < Len(s))
    <3>1. to[i] = SlotsOf(f, s)[i]  BY <1>1, <2>3
    <3> QED BY <1>3, <2>3, <3>1 DEF SlotsOf
  <2> QED BY <2>2, <2>3
<1>7. to = [i \in Index |-> to[i]]  OBVIOUS
<1>8. h = Place(f, Len(t))  BY <1>3
<1> HIDE DEF to, t, h
<1>9. Record(to, f, h) = RingOf(f, t)  BY <1>6, <1>7, <1>8, SameRing
<1> QED BY <1>4, <1>5, <1>9 DEF t

\* What a copy has made of the source after n elements.
LEMMA CopiedOf ==
    ASSUME NEW t \in Fit
    PROVE  /\ SubSeq(t, 1, 0) = <<>> /\ SubSeq(t, 1, Len(t)) = t
           /\ \A n \in 0 .. Len(t) : SubSeq(t, 1, n) \in Fit /\ Len(SubSeq(t, 1, n)) = n
           /\ \A n \in 1 .. Len(t) : Append(SubSeq(t, 1, n - 1), t[n]) = SubSeq(t, 1, n)
<1>1. t \in Seq(Values) /\ Len(t) \in Nat /\ Len(t) <= Size
  BY FitsAreShort, SizeAssumption DEF Index
<1>2. ASSUME NEW n \in 0 .. Len(t)
      PROVE  /\ SubSeq(t, 1, n) \in Seq(Values) /\ Len(SubSeq(t, 1, n)) = n
             /\ \A i \in 1 .. n : SubSeq(t, 1, n)[i] = t[i]
  <2>1. n \in Nat /\ n \in Int /\ 1 \in Int /\ \A i \in 1 .. n : t[i] \in Values
    BY <1>1
  <2>2. /\ SubSeq(t, 1, n) \in Seq(Values)
        /\ Len(SubSeq(t, 1, n)) = IF 1 <= n THEN n - 1 + 1 ELSE 0
        /\ \A i \in 1 .. n - 1 + 1 : SubSeq(t, 1, n)[i] = t[1 + i - 1]
    BY <2>1, SubSeqProperties
  <2>3. Len(SubSeq(t, 1, n)) = n
    <3>1. CASE 1 <= n  BY <2>1, <2>2, <3>1
    <3>2. CASE n = 0  BY <2>2, <3>2
    <3> QED BY <2>1, <3>1, <3>2
  <2>4. ASSUME NEW i \in 1 .. n PROVE SubSeq(t, 1, n)[i] = t[i]
    BY <2>1, <2>2
  <2> QED BY <2>2, <2>3, <2>4
<1>3. ASSUME NEW n \in 0 .. Len(t) PROVE SubSeq(t, 1, n) \in Fit
  BY <1>1, <1>2, SizeAssumption DEF Fit
<1>4. ASSUME NEW n \in 1 .. Len(t)
      PROVE  Append(SubSeq(t, 1, n - 1), t[n]) = SubSeq(t, 1, n)
  <2> DEFINE u == SubSeq(t, 1, n - 1)
             w == SubSeq(t, 1, n)
  <2>1. n - 1 \in 0 .. Len(t) /\ n \in 0 .. Len(t) /\ n \in Nat  BY <1>1
  <2>2. u \in Seq(Values) /\ Len(u) = n - 1 /\ \A i \in 1 .. n - 1 : u[i] = t[i]
    BY <1>2, <2>1
  <2>3. w \in Seq(Values) /\ Len(w) = n /\ \A i \in 1 .. n : w[i] = t[i]
    BY <1>2, <2>1
  <2>4. t[n] \in Values  BY <1>1
  <2> HIDE DEF u, w
  <2>5. /\ Append(u, t[n]) \in Seq(Values) /\ Len(Append(u, t[n])) = Len(u) + 1
        /\ \A i \in 1 .. Len(u) : Append(u, t[n])[i] = u[i]
        /\ Append(u, t[n])[Len(u) + 1] = t[n]
    BY <2>2, <2>4, AppendProperties
  <2>6. Len(Append(u, t[n])) = Len(w)  BY <2>1, <2>2, <2>3, <2>5
  <2>7. ASSUME NEW i \in 1 .. Len(Append(u, t[n])) PROVE Append(u, t[n])[i] = w[i]
    <3>1. i \in 1 .. n  BY <2>3, <2>6
    <3>2. CASE i = n  BY <2>1, <2>2, <2>3, <2>5, <3>1, <3>2
    <3>3. CASE i # n
      <4>1. i \in 1 .. n - 1  BY <2>1, <3>1, <3>3
      <4>2. Append(u, t[n])[i] = u[i]  BY <2>2, <2>5, <4>1
      <4> QED BY <2>2, <2>3, <3>1, <4>1, <4>2
    <3> QED BY <3>2, <3>3
  <2>8. Append(u, t[n]) = w  BY <2>3, <2>5, <2>6, <2>7, SeqEqual
  <2> QED BY <2>8 DEF u, w
<1>5. SubSeq(t, 1, 0) = <<>>
  <2>1. 0 \in 0 .. Len(t)  BY <1>1
  <2>2. SubSeq(t, 1, 0) \in Seq(Values) /\ Len(SubSeq(t, 1, 0)) = 0  BY <1>2, <2>1
  <2> QED BY <2>2, EmptySeq
<1>6. SubSeq(t, 1, Len(t)) = t
  <2>1. Len(t) \in 0 .. Len(t)  BY <1>1
  <2>2. /\ SubSeq(t, 1, Len(t)) \in Seq(Values) /\ Len(SubSeq(t, 1, Len(t))) = Len(t)
        /\ \A i \in 1 .. Len(t) : SubSeq(t, 1, Len(t))[i] = t[i]
    BY <1>2, <2>1
  <2> QED BY <1>1, <2>2, SeqEqual
<1> QED BY <1>2, <1>3, <1>4, <1>5, <1>6

\* An assignment gives the object the elements of the source, wherever its own ended.
LEMMA AssignOf ==
    ASSUME NEW f \in Index, NEW s \in Fit, NEW t \in Fit
    PROVE  Assign(RingOf(f, s), t) = RingOf(Place(f, Len(s)), t)
<1> DEFINE c == RingOf(f, s)
           h == Place(f, Len(s))
           after == CHOOSE after : after = [n \in 0 .. Len(t) |->
                                              IF n = 0 THEN Clear(c)
                                              ELSE EmplaceBack(after[n - 1], t[n])]
           copied == [n \in 0 .. Len(t) |-> RingOf(h, SubSeq(t, 1, n))]
<1>1. Len(t) \in Nat /\ Len(t) <= Size /\ h \in Index
      /\ \A n \in 1 .. Len(t) : t[n] \in Values
  <2>1. h \in Index  BY Seen
  <2> QED BY <2>1, FitsAreShort, SizeAssumption DEF Index
<1>2. Clear(c) = RingOf(h, <<>>)  BY ClearOf
<1>3. ASSUME NEW n \in 1 .. Len(t)
      PROVE  EmplaceBack(RingOf(h, SubSeq(t, 1, n - 1)), t[n]) = RingOf(h, SubSeq(t, 1, n))
  <2> DEFINE u == SubSeq(t, 1, n - 1)
  <2>1. n - 1 \in 0 .. Len(t) /\ n - 1 < Size  BY <1>1, SizeAssumption
  <2>2. u \in Fit /\ Len(u) = n - 1 /\ Append(u, t[n]) = SubSeq(t, 1, n)
    BY <2>1, CopiedOf
  <2>3. Len(u) < Size  BY <2>1, <2>2
  <2> HIDE DEF u, h
  <2>4. RoomAtBack(RingOf(h, u)) = RingOf(h, u)
    BY <1>1, <2>2, <2>3, RoomAtBackOf
  <2>5. PutBack(RingOf(h, u), t[n]) = RingOf(h, Append(u, t[n]))
    BY <1>1, <2>2, <2>3, PutBackOf
  <2>6. EmplaceBack(RingOf(h, u), t[n]) = PutBack(RingOf(h, u), t[n])
    BY <2>4 DEF EmplaceBack, PutBack
  <2> QED BY <2>2, <2>5, <2>6 DEF u
<1> HIDE DEF c, h
<1>4. copied = [n \in 0 .. Len(t) |-> IF n = 0 THEN Clear(c)
                                      ELSE EmplaceBack(copied[n - 1], t[n])]
  <2>1. RingOf(h, SubSeq(t, 1, 0)) = Clear(c)  BY <1>2, CopiedOf
  <2>2. \A n \in 1 .. Len(t) : n - 1 \in 0 .. Len(t)  BY <1>1
  <2>3. \A n \in 0 .. Len(t) : n = 0 \/ n \in 1 .. Len(t)  BY <1>1
  <2> QED BY <1>3, <2>1, <2>2, <2>3
<1>5. after = [n \in 0 .. Len(t) |-> IF n = 0 THEN Clear(c)
                                     ELSE EmplaceBack(after[n - 1], t[n])]
  <2> HIDE DEF copied
  <2> QED BY <1>4
<1>6. Assign(c, t) = after[Len(t)]  BY DEF Assign
<1> HIDE DEF after
<1> DEFINE E == {n \in 0 .. Len(t) : after[n] = copied[n]}
<1>7. 0 \in E
  <2>1. 0 \in 0 .. Len(t)  BY <1>1
  <2>2. after[0] = Clear(c)  BY <1>5, <2>1
  <2>3. copied[0] = Clear(c)
    <3> HIDE DEF copied
    <3> QED BY <1>4, <2>1
  <2> QED BY <2>1, <2>2, <2>3
<1>8. ASSUME NEW n \in 1 .. Len(t), n - 1 \in E PROVE n \in E
  <2>1. n \in 0 .. Len(t) /\ n # 0 /\ after[n - 1] = copied[n - 1]  BY <1>1, <1>8
  <2>2. after[n] = EmplaceBack(after[n - 1], t[n])  BY <1>5, <2>1
  <2>3. copied[n] = EmplaceBack(copied[n - 1], t[n])
    <3> HIDE DEF copied
    <3> QED BY <1>4, <2>1
  <2> QED BY <2>1, <2>2, <2>3
<1> HIDE DEF E
<1>9. Len(t) \in E
  <2>1. Len(t) \in 0 .. Len(t)  BY <1>1
  <2> QED BY <1>1, <1>7, <1>8, <2>1, EqualUpTo
<1>10. after[Len(t)] = copied[Len(t)] /\ Len(t) \in 0 .. Len(t)  BY <1>9 DEF E
<1>11. copied[Len(t)] = RingOf(h, t)  BY <1>10, CopiedOf
<1> QED BY <1>6, <1>10, <1>11 DEF c, h
-------------------------------------------------------------------------------
(* The same, without where the ring starts: Holds(c, s) says that c is a ring of  *)
(* the sequence s.                                                                *)

Holds(c, s) == s \in Fit /\ \E f \in Index : c = RingOf(f, s)

Rings == [slots : [Index -> Values \cup {Raw}], first : Index, last : Index]

LEMMA HoldsSeen ==
    ASSUME NEW c, NEW s, Holds(c, s)
    PROVE  /\ c \in Rings /\ s \in Fit
           /\ SizeOf(c) = Len(s) /\ Contents(c) = s
           /\ {i \in Index : c.slots[i] # Raw} = LiveSlots(c)
           /\ s = <<>> => LiveSlots(c) = {}
<1>1. PICK f \in Index : c = RingOf(f, s)  BY DEF Holds
<1>2. s \in Fit  BY DEF Holds
<1>3. /\ SizeOf(c) = Len(s) /\ Contents(c) = s
      /\ {i \in Index : c.slots[i] # Raw} = LiveSlots(c)
  BY <1>1, <1>2, Seen
<1>4. c \in Rings
  <2>1. ASSUME NEW i \in Index PROVE SlotsOf(f, s)[i] \in Values \cup {Raw}
    <3>1. Offset(f, i) \in Nat  BY Indexes, SizeAssumption DEF Index
    <3>2. Len(s) \in Nat /\ \A n \in 1 .. Len(s) : s[n] \in Values
      BY <1>2, FitsAreShort, SizeAssumption DEF Index
    <3>3. CASE Offset(f, i) < Len(s)
      <4>1. Offset(f, i) + 1 \in 1 .. Len(s)  BY <3>1, <3>2, <3>3
      <4> QED BY <3>2, <3>3, <4>1 DEF SlotsOf
    <3>4. CASE ~(Offset(f, i) < Len(s))  BY <3>4 DEF SlotsOf
    <3> QED BY <3>3, <3>4
  <2>2. SlotsOf(f, s) \in [Index -> Values \cup {Raw}]
    <3>1. SlotsOf(f, s) = [i \in Index |-> SlotsOf(f, s)[i]]  BY DEF SlotsOf
    <3> QED BY <2>1, <3>1
  <2>3. Place(f, Len(s)) \in Index  BY <1>2, Seen
  <2> QED BY <1>1, <2>2, <2>3 DEF RingOf, Record, Rings
<1>5. s = <<>> => LiveSlots(c) = {}
  <2>1. LiveSlots(c) = {i \in Index : Offset(f, i) < Len(s)}  BY <1>1, <1>2, Seen
  <2>2. \A i \in Index : ~(Offset(f, i) < 0)  BY Indexes, SizeAssumption DEF Index
  <2> QED BY <2>1, <2>2
<1> QED BY <1>2, <1>3, <1>4, <1>5

LEMMA HoldsNew == Holds(NewRing, <<>>)
<1>1. 0 \in Index  BY SizeAssumption DEF Index
<1> QED BY <1>1, EmptyRing DEF Holds

LEMMA HoldsPops ==
    ASSUME NEW c, NEW s, Holds(c, s), SizeOf(c) > 0
    PROVE  /\ Holds(PopFront(c), Tail(s)) /\ Holds(PopBack(c), Front(s))
           /\ s # <<>>
<1>1. PICK f \in Index : c = RingOf(f, s)  BY DEF Holds
<1>2. s \in Fit /\ s # <<>>
  <2>1. SizeOf(c) = Len(s)  BY HoldsSeen
  <2>2. s = <<>> => ~(Len(s) > 0)  OBVIOUS
  <2> QED BY <2>1, <2>2 DEF Holds
<1>3. increment(f) \in Index  BY Indexes
<1> QED BY <1>1, <1>2, <1>3, PopFrontOf, PopBackOf DEF Holds

LEMMA HoldsEmplaces ==
    ASSUME NEW c, NEW s, Holds(c, s), NEW v \in Values
    PROVE  /\ Holds(EmplaceBack(c, v), Deque!WithBack(s, v))
           /\ Holds(EmplaceFront(c, v), Deque!WithFront(s, v))
<1>1. PICK f \in Index : c = RingOf(f, s)  BY DEF Holds
<1>2. s \in Fit  BY DEF Holds
<1>3. /\ \E g \in Index : EmplaceBack(c, v) = RingOf(g, Deque!WithBack(s, v))
      /\ Deque!WithBack(s, v) \in Fit
  BY <1>1, <1>2, EmplaceBackOf
<1>4. /\ \E g \in Index : EmplaceFront(c, v) = RingOf(g, Deque!WithFront(s, v))
      /\ Deque!WithFront(s, v) \in Fit
  BY <1>1, <1>2, EmplaceFrontOf
<1> QED BY <1>3, <1>4 DEF Holds

\* A push that fails has made room; at the front it has moved begin_, too.
LEMMA HoldsFailures ==
    ASSUME NEW c, NEW s, Holds(c, s)
    PROVE  /\ Len(s) < Size => Holds(RoomAtBack(c), s)
           /\ ~(Len(s) < Size) => Holds(RoomAtBack(c), Tail(s))
           /\ EmplaceFrontFailed(c) \in Rings
<1>1. PICK f \in Index : c = RingOf(f, s)  BY DEF Holds
<1>2. s \in Fit  BY DEF Holds
<1>3. EmplaceFrontFailed(c) \in Rings
  <2>1. PICK t \in Fit : RoomAtFront(c) = RingOf(f, t)  BY <1>1, <1>2, RoomAtFrontOf
  <2>2. Holds(RoomAtFront(c), t)  BY <2>1 DEF Holds
  <2>3. RoomAtFront(c) \in Rings  BY <2>2, HoldsSeen
  <2>4. \A r \in Rings : decrement(r.first) \in Index  BY Indexes DEF Rings
  <2>5. \A r \in Rings, i \in Index : [r EXCEPT !.first = i] \in Rings  BY DEF Rings
  <2> QED BY <2>3, <2>4, <2>5 DEF EmplaceFrontFailed
<1>4. CASE /\ RoomAtBack(c) = RingOf(f, s)
           /\ Len(s) < Size
  BY <1>1, <1>2, <1>3, <1>4 DEF Holds
<1>5. CASE /\ RoomAtBack(c) = RingOf(increment(f), Tail(s))
           /\ ~(Len(s) < Size)
           /\ increment(f) \in Index /\ Tail(s) \in Fit
  BY <1>3, <1>5 DEF Holds
<1> QED BY <1>1, <1>2, <1>4, <1>5, RoomAtBackOf

LEMMA HoldsClear ==
    ASSUME NEW c, NEW s, Holds(c, s)
    PROVE  /\ Holds(Clear(c), <<>>)
           /\ [Clear(c) EXCEPT !.first = 0, !.last = 0] = NewRing
<1>1. PICK f \in Index : c = RingOf(f, s)  BY DEF Holds
<1>2. s \in Fit  BY DEF Holds
<1> DEFINE h == Place(f, Len(s))
           no == [i \in Index |-> Raw]
<1>3. h \in Index /\ Clear(c) = RingOf(h, <<>>)  BY <1>1, <1>2, ClearOf, Seen
<1> HIDE DEF h
<1>4. Holds(Clear(c), <<>>)  BY <1>3, EmptyRing DEF Holds
<1>5. Clear(c) = Record(no, h, h)  BY <1>3, EmptyRing
<1>6. NewRing = Record(no, 0, 0)  BY DEF NewRing, Record
<1> HIDE DEF no
<1>7. [Record(no, h, h) EXCEPT !.first = 0] = Record(no, 0, h)  BY DEF Record
<1>8. [Record(no, 0, h) EXCEPT !.last = 0] = Record(no, 0, 0)  BY DEF Record
<1> QED BY <1>4, <1>5, <1>6, <1>7, <1>8

LEMMA HoldsMoved ==
    ASSUME NEW c, NEW s, Holds(c, s)
    PROVE  Holds(MovedFrom(c), Hollow(s))
BY MovedFromOf DEF Holds

LEMMA HoldsAssign ==
    ASSUME NEW c, NEW s, Holds(c, s), NEW t \in Fit
    PROVE  Holds(Assign(c, t), t)
<1>1. PICK f \in Index : c = RingOf(f, s)  BY DEF Holds
<1>2. s \in Fit  BY DEF Holds
<1>3. Place(f, Len(s)) \in Index  BY <1>2, Seen
<1> QED BY <1>1, <1>2, <1>3, AssignOf DEF Holds
-------------------------------------------------------------------------------
(* The inductive invariant: an object that no exception has damaged holds a       *)
(* sequence, the empty one when it is not alive.  Of a damaged ring only the type  *)
(* is left: begin_ may have moved over a slot without an element.                  *)

RingsInv ==
    /\ alive \subseteq Objects /\ damaged \subseteq Objects
    /\ ring \in [Objects -> Rings]
    /\ \A o \in Objects \ damaged :
         /\ Holds(ring[o], Contents(ring[o]))
         /\ o \notin alive => Contents(ring[o]) = <<>>

\* The elements of the objects that can be used.
Deques == [o \in Objects |-> IF o \in Intact THEN Contents(ring[o]) ELSE <<>>]

LEMMA UpdateStep ==
    ASSUME RingsInv, NEW o \in Objects, NEW c, NEW t, Holds(c, t), Update(o, c)
    PROVE  /\ RingsInv'
           /\ o \in Intact /\ Intact' = Intact
           /\ Deques' = [Deques EXCEPT ![o] = t]
           /\ Deques[o] = Contents(ring[o])
<1>1. /\ o \in alive /\ o \notin damaged /\ alive' = alive /\ damaged' = damaged
      /\ ring' = [ring EXCEPT ![o] = c]
  BY DEF Update, Intact
<1>2. c \in Rings /\ Contents(c) = t  BY HoldsSeen
<1>3. ring'[o] = c /\ \A p \in Objects : p # o => ring'[p] = ring[p]
  BY <1>1 DEF RingsInv
<1>4. RingsInv'
  <2>1. ring' \in [Objects -> Rings]  BY <1>1, <1>2 DEF RingsInv
  <2>2. ASSUME NEW p \in Objects \ damaged
        PROVE  /\ Holds(ring'[p], Contents(ring'[p]))
               /\ p \notin alive => Contents(ring'[p]) = <<>>
    BY <1>1, <1>2, <1>3 DEF RingsInv
  <2> QED BY <1>1, <2>1, <2>2 DEF RingsInv
<1>5. Intact' = Intact  BY <1>1 DEF Intact
<1>6. Deques' = [Deques EXCEPT ![o] = t]
  <2>1. ASSUME NEW p \in Objects
        PROVE  Deques'[p] = IF p = o THEN t ELSE Deques[p]
    BY <1>1, <1>2, <1>3, <1>5 DEF Deques, Intact
  <2>2. /\ Deques' = [p \in Objects |-> Deques'[p]]
        /\ DOMAIN Deques = Objects
    BY DEF Deques
  <2> QED BY <2>1, <2>2
<1> QED BY <1>1, <1>4, <1>5, <1>6 DEF Deques, Intact

LEMMA BuildStep ==
    ASSUME RingsInv, NEW o \in Objects, NEW c, NEW t, Holds(c, t), Build(o, c)
    PROVE  /\ RingsInv'
           /\ o \notin Intact /\ Intact' = Intact \cup {o}
           /\ Deques' = [Deques EXCEPT ![o] = t]
<1>1. /\ o \notin alive /\ o \notin damaged /\ alive' = alive \cup {o}
      /\ damaged' = damaged /\ ring' = [ring EXCEPT ![o] = c]
  BY DEF Build
<1>2. c \in Rings /\ Contents(c) = t  BY HoldsSeen
<1>3. ring'[o] = c /\ \A p \in Objects : p # o => ring'[p] = ring[p]
  BY <1>1 DEF RingsInv
<1>4. RingsInv'
  <2>1. ring' \in [Objects -> Rings]  BY <1>1, <1>2 DEF RingsInv
  <2>2. ASSUME NEW p \in Objects \ damaged
        PROVE  /\ Holds(ring'[p], Contents(ring'[p]))
               /\ p \notin alive' => Contents(ring'[p]) = <<>>
    BY <1>1, <1>2, <1>3 DEF RingsInv
  <2> QED BY <1>1, <2>1, <2>2 DEF RingsInv
<1>5. Intact' = Intact \cup {o} /\ o \notin Intact  BY <1>1 DEF Intact
<1>6. Deques' = [Deques EXCEPT ![o] = t]
  <2>1. ASSUME NEW p \in Objects
        PROVE  Deques'[p] = IF p = o THEN t ELSE Deques[p]
    BY <1>1, <1>2, <1>3, <1>5 DEF Deques, Intact
  <2>2. /\ Deques' = [p \in Objects |-> Deques'[p]]
        /\ DOMAIN Deques = Objects
    BY DEF Deques
  <2> QED BY <2>1, <2>2
<1> QED BY <1>4, <1>5, <1>6

\* A move: o takes the sequence of p, and the elements of p stay behind, moved-from.
LEMMA MoveStep ==
    ASSUME RingsInv, NEW o \in Objects, NEW p \in Objects, NEW c,
           p \in Intact, o # p, Holds(c, Contents(ring[p])),
           ring' = [ring EXCEPT ![o] = c, ![p] = MovedFrom(ring[p])],
           \/ o \in Intact /\ alive' = alive
           \/ o \notin alive \cup damaged /\ alive' = alive \cup {o},
           damaged' = damaged
    PROVE  /\ RingsInv'
           /\ Intact' = Intact \cup {o}
           /\ Deques' = [Deques EXCEPT ![o] = Deques[p],
                                             ![p] = Hollow(Deques[p])]
<1> DEFINE s == Contents(ring[p])
           d == MovedFrom(ring[p])
<1>1. p \in alive /\ p \notin damaged /\ Holds(ring[p], s) /\ Deques[p] = s
  BY DEF RingsInv, Intact, Deques
<1>2. Holds(d, Hollow(s))  BY <1>1, HoldsMoved
<1>3. /\ c \in Rings /\ Contents(c) = s
      /\ d \in Rings /\ Contents(d) = Hollow(s)
  BY <1>2, HoldsSeen
<1> HIDE DEF d
<1>4. /\ ring'[o] = c /\ ring'[p] = d
      /\ \A q \in Objects : q # o /\ q # p => ring'[q] = ring[q]
  BY DEF RingsInv, d
<1>5. o \notin damaged /\ Intact' = Intact \cup {o}
  BY DEF Intact
<1>6. o \in alive' /\ p \in alive' /\ \A q \in Objects : q # o => (q \in alive' <=> q \in alive)
  BY <1>1 DEF Intact
<1>7. RingsInv'
  <2>1. ring' \in [Objects -> Rings]  BY <1>3 DEF RingsInv, d
  <2>2. alive' \subseteq Objects /\ damaged' \subseteq Objects  BY DEF RingsInv
  <2>3. ASSUME NEW q \in Objects \ damaged
        PROVE  /\ Holds(ring'[q], Contents(ring'[q]))
               /\ q \notin alive' => Contents(ring'[q]) = <<>>
    <3>1. CASE q = o  BY <1>3, <1>4, <1>6, <3>1
    <3>2. CASE q = p  BY <1>2, <1>3, <1>4, <1>6, <3>2
    <3>3. CASE q # o /\ q # p  BY <1>4, <1>6, <3>3 DEF RingsInv
    <3> QED BY <3>1, <3>2, <3>3
  <2> QED BY <2>1, <2>2, <2>3 DEF RingsInv
<1>8. ASSUME NEW q \in Objects
      PROVE  Deques'[q] = IF q = p THEN Hollow(s) ELSE IF q = o THEN s ELSE Deques[q]
  <2>1. q \in Intact' <=> q \in Intact \/ q = o  BY <1>5
  <2>2. Deques'[q] = IF q \in Intact' THEN Contents(ring'[q]) ELSE <<>>
    BY DEF Deques
  <2>3. Deques[q] = IF q \in Intact THEN Contents(ring[q]) ELSE <<>>
    BY DEF Deques
  <2> QED BY <1>3, <1>4, <2>1, <2>2, <2>3
<1>9. Deques' = [Deques EXCEPT ![o] = s, ![p] = Hollow(s)]
  <2>1. /\ Deques' = [q \in Objects |-> Deques'[q]]
        /\ DOMAIN Deques = Objects
    BY DEF Deques
  <2> QED BY <1>8, <2>1
<1> QED BY <1>1, <1>5, <1>7, <1>9
-------------------------------------------------------------------------------
(* Every step keeps the invariant and is a step of BoundedDeque.                  *)

DequeStep == Deque!Next \/ UNCHANGED <<Intact, Deques>>

LEMMA RingsInit == Init => RingsInv /\ Intact = {} /\ Deques = [o \in Objects |-> <<>>]
<1> SUFFICES ASSUME Init
             PROVE  RingsInv /\ Intact = {} /\ Deques = [o \in Objects |-> <<>>]
  OBVIOUS
<1>1. NewRing \in Rings /\ Contents(NewRing) = <<>> /\ Holds(NewRing, <<>>)
  BY HoldsNew, HoldsSeen
<1>2. alive = {} /\ damaged = {} /\ \A o \in Objects : ring[o] = NewRing
  BY DEF Init
<1>3. RingsInv  BY <1>1, <1>2 DEF Init, RingsInv
<1> QED BY <1>2, <1>3 DEF Intact, Deques

LEMMA ConstructIsCreation ==
    ASSUME RingsInv, NEW o \in Objects, DoConstruct(o)
    PROVE  RingsInv' /\ Deque!Empty(o)
<1>1. /\ RingsInv' /\ o \notin Intact /\ Intact' = Intact \cup {o}
      /\ Deques' = [Deques EXCEPT ![o] = <<>>]
  BY HoldsNew, BuildStep DEF DoConstruct
<1> QED BY <1>1 DEF Deque!Empty, Deque!Create, Deque!Becomes, Deques

LEMMA PushIsPush ==
    ASSUME RingsInv, NEW o \in Objects, DoEmplaceBack(o) \/ DoEmplaceFront(o)
    PROVE  RingsInv' /\ Deque!Push(o)
<1> DEFINE s == Contents(ring[o])
<1>1. o \in Intact /\ Holds(ring[o], s) /\ Deques[o] = s
  BY DEF DoEmplaceBack, DoEmplaceFront, Update, RingsInv, Intact, Deques
<1> HIDE DEF s
<1>2. CASE DoEmplaceBack(o)
  <2>1. PICK e \in Elements : Update(o, EmplaceBack(ring[o], e))
    BY <1>2 DEF DoEmplaceBack
  <2>2. Holds(EmplaceBack(ring[o], e), Deque!WithBack(s, e))
    BY <1>1, HoldsEmplaces DEF Values
  <2>3. /\ RingsInv' /\ Intact' = Intact
        /\ Deques' = [Deques EXCEPT ![o] = Deque!WithBack(s, e)]
    BY <2>1, <2>2, UpdateStep
  <2> QED BY <1>1, <2>3 DEF Deque!Push, Deque!Keep, Deque!Becomes, Deques
<1>3. CASE DoEmplaceFront(o)
  <2>1. PICK e \in Elements : Update(o, EmplaceFront(ring[o], e))
    BY <1>3 DEF DoEmplaceFront
  <2>2. Holds(EmplaceFront(ring[o], e), Deque!WithFront(s, e))
    BY <1>1, HoldsEmplaces DEF Values
  <2>3. /\ RingsInv' /\ Intact' = Intact
        /\ Deques' = [Deques EXCEPT ![o] = Deque!WithFront(s, e)]
    BY <2>1, <2>2, UpdateStep
  <2> QED BY <1>1, <2>3 DEF Deque!Push, Deque!Keep, Deque!Becomes, Deques
<1> QED BY <1>2, <1>3

LEMMA PopIsPop ==
    ASSUME RingsInv, NEW o \in Objects, DoPopBack(o) \/ DoPopFront(o)
    PROVE  RingsInv' /\ Deque!Pop(o)
<1> DEFINE s == Contents(ring[o])
<1>1. o \in Intact /\ Holds(ring[o], s) /\ Deques[o] = s /\ SizeOf(ring[o]) > 0
  BY DEF DoPopBack, DoPopFront, Update, RingsInv, Intact, Deques
<1> HIDE DEF s
<1>2. Holds(PopFront(ring[o]), Tail(s)) /\ Holds(PopBack(ring[o]), Front(s)) /\ s # <<>>
  BY <1>1, HoldsPops
<1>3. CASE DoPopBack(o)
  <2>1. Update(o, PopBack(ring[o]))  BY <1>3 DEF DoPopBack
  <2>2. /\ RingsInv' /\ Intact' = Intact
        /\ Deques' = [Deques EXCEPT ![o] = Front(s)]
    BY <1>2, <2>1, UpdateStep
  <2> QED BY <1>1, <1>2, <2>2
          DEF Deque!Pop, Deque!Keep, Deque!Becomes, Deque!Front, Front, Deques
<1>4. CASE DoPopFront(o)
  <2>1. Update(o, PopFront(ring[o]))  BY <1>4 DEF DoPopFront
  <2>2. /\ RingsInv' /\ Intact' = Intact
        /\ Deques' = [Deques EXCEPT ![o] = Tail(s)]
    BY <1>2, <2>1, UpdateStep
  <2> QED BY <1>1, <1>2, <2>2 DEF Deque!Pop, Deque!Keep, Deque!Becomes, Deques
<1> QED BY <1>3, <1>4

LEMMA ClearIsEmpty ==
    ASSUME RingsInv, NEW o \in Objects, DoClear(o)
    PROVE  RingsInv' /\ Deque!Empty(o)
<1>1. o \in Intact /\ Holds(ring[o], Contents(ring[o]))
  BY DEF DoClear, Update, RingsInv, Intact
<1>2. Holds(Clear(ring[o]), <<>>)  BY <1>1, HoldsClear
<1>3. /\ RingsInv' /\ Intact' = Intact
      /\ Deques' = [Deques EXCEPT ![o] = <<>>]
  BY <1>2, UpdateStep DEF DoClear
<1> QED BY <1>1, <1>3 DEF Deque!Empty, Deque!Keep, Deque!Becomes, Deques

LEMMA DestroyIsVanish ==
    ASSUME RingsInv, NEW o \in Objects, Destroy(o)
    PROVE  RingsInv' /\ Deque!Vanish(o)
<1>1. /\ o \in Intact /\ o \in alive /\ o \notin damaged
      /\ alive' = alive \ {o} /\ damaged' = damaged
      /\ Holds(ring[o], Contents(ring[o]))
  BY DEF Destroy, RingsInv, Intact
<1>2. ring' = [ring EXCEPT ![o] = NewRing]
  BY <1>1, HoldsClear DEF Destroy
<1>3. NewRing \in Rings /\ Contents(NewRing) = <<>> /\ Holds(NewRing, <<>>)
  BY HoldsNew, HoldsSeen
<1>4. ring'[o] = NewRing /\ \A p \in Objects : p # o => ring'[p] = ring[p]
  BY <1>2 DEF RingsInv
<1>5. RingsInv'
  <2>1. ring' \in [Objects -> Rings]  BY <1>2, <1>3 DEF RingsInv
  <2>2. ASSUME NEW p \in Objects \ damaged
        PROVE  /\ Holds(ring'[p], Contents(ring'[p]))
               /\ p \notin alive' => Contents(ring'[p]) = <<>>
    BY <1>1, <1>3, <1>4 DEF RingsInv
  <2> QED BY <1>1, <2>1, <2>2 DEF RingsInv
<1>6. Intact' = Intact \ {o}  BY <1>1 DEF Intact
<1>7. Deques' = [Deques EXCEPT ![o] = <<>>]
  <2>1. ASSUME NEW p \in Objects
        PROVE  Deques'[p] = IF p = o THEN <<>> ELSE Deques[p]
    BY <1>4, <1>6 DEF Deques
  <2>2. Deques' = [p \in Objects |-> Deques'[p]] /\ DOMAIN Deques = Objects
    BY DEF Deques
  <2> QED BY <2>1, <2>2
<1> QED BY <1>1, <1>5, <1>6, <1>7 DEF Deque!Vanish, Deque!Becomes, Deques

\* A push whose element throws has pushed nothing, and in a full ring has lost the
\* element that made room.
LEMMA ThrowAtBackStep ==
    ASSUME RingsInv, NEW o \in Objects, EmplaceBackThrow(o)
    PROVE  RingsInv' /\ (Deque!FailedPush(o) \/ UNCHANGED <<Intact, Deques>>)
<1> DEFINE s == Contents(ring[o])
<1>1. o \in Intact /\ Holds(ring[o], s) /\ Deques[o] = s
  BY DEF EmplaceBackThrow, Update, RingsInv, Intact, Deques
<1> HIDE DEF s
<1>2. Update(o, RoomAtBack(ring[o]))  BY DEF EmplaceBackThrow
<1>3. CASE Len(s) < Size
  <2>1. Holds(RoomAtBack(ring[o]), s)  BY <1>1, <1>3, HoldsFailures
  <2>2. /\ RingsInv' /\ Intact' = Intact
        /\ Deques' = [Deques EXCEPT ![o] = s]
    BY <1>2, <2>1, UpdateStep
  <2>3. Deques' = Deques  BY <1>1, <2>2 DEF Deques
  <2> QED BY <2>2, <2>3
<1>4. CASE ~(Len(s) < Size)
  <2>1. Holds(RoomAtBack(ring[o]), Tail(s))  BY <1>1, <1>4, HoldsFailures
  <2>2. /\ RingsInv' /\ Intact' = Intact
        /\ Deques' = [Deques EXCEPT ![o] = Tail(s)]
    BY <1>2, <2>1, UpdateStep
  <2> QED BY <1>1, <1>4, <2>2
          DEF Deque!FailedPush, Deque!Keep, Deque!Room, Deque!Becomes, Deques
<1> QED BY <1>3, <1>4

LEMMA ThrowAtFrontIsVanish ==
    ASSUME RingsInv, NEW o \in Objects, EmplaceFrontThrow(o)
    PROVE  RingsInv' /\ Deque!Vanish(o)
<1> DEFINE c == EmplaceFrontFailed(ring[o])
<1>1. /\ o \in Intact /\ Holds(ring[o], Contents(ring[o]))
      /\ alive' = alive /\ damaged' = damaged \cup {o}
      /\ ring' = [ring EXCEPT ![o] = c]
  BY DEF EmplaceFrontThrow, RingsInv, Intact
<1>2. c \in Rings  BY <1>1, HoldsFailures
<1> HIDE DEF c
<1>3. ring'[o] = c /\ \A p \in Objects : p # o => ring'[p] = ring[p]
  BY <1>1 DEF RingsInv
<1>4. RingsInv'
  <2>1. ring' \in [Objects -> Rings]  BY <1>1, <1>2 DEF RingsInv
  <2>2. ASSUME NEW p \in Objects \ damaged'
        PROVE  /\ Holds(ring'[p], Contents(ring'[p]))
               /\ p \notin alive' => Contents(ring'[p]) = <<>>
    BY <1>1, <1>3 DEF RingsInv
  <2> QED BY <1>1, <2>1, <2>2 DEF RingsInv
<1>5. Intact' = Intact \ {o}  BY <1>1 DEF Intact
<1>6. Deques' = [Deques EXCEPT ![o] = <<>>]
  <2>1. ASSUME NEW p \in Objects
        PROVE  Deques'[p] = IF p = o THEN <<>> ELSE Deques[p]
    BY <1>3, <1>5 DEF Deques
  <2>2. Deques' = [p \in Objects |-> Deques'[p]] /\ DOMAIN Deques = Objects
    BY DEF Deques
  <2> QED BY <2>1, <2>2
<1> QED BY <1>1, <1>4, <1>5, <1>6 DEF Deque!Vanish, Deque!Becomes, Deques

LEMMA CopyIsCopy ==
    ASSUME RingsInv, NEW o \in Objects, NEW p \in Objects,
           CopyConstruct(o, p) \/ CopyAssign(o, p)
    PROVE  RingsInv' /\ Deque!Copy(o, p)
<1> DEFINE t == Contents(ring[p])
<1>1. p \in Intact /\ Holds(ring[p], t) /\ Deques[p] = t /\ t \in Fit
  BY DEF CopyConstruct, CopyAssign, RingsInv, Intact, Deques, Holds
<1> HIDE DEF t
<1>2. CASE CopyConstruct(o, p)
  <2>1. Build(o, Assign(NewRing, t))  BY <1>2 DEF CopyConstruct, t
  <2>2. Holds(Assign(NewRing, t), t)  BY <1>1, HoldsNew, HoldsAssign
  <2>3. /\ RingsInv' /\ o \notin Intact /\ Intact' = Intact \cup {o}
        /\ Deques' = [Deques EXCEPT ![o] = t]
    BY <2>1, <2>2, BuildStep
  <2> QED BY <1>1, <2>3 DEF Deque!Copy, Deque!Create, Deque!Becomes, Deques
<1>3. CASE CopyAssign(o, p)
  <2>1. Update(o, Assign(ring[o], t))  BY <1>3 DEF CopyAssign, t
  <2>2. o \in Intact /\ Holds(ring[o], Contents(ring[o]))
    BY <2>1 DEF Update, RingsInv, Intact
  <2>3. Holds(Assign(ring[o], t), t)  BY <1>1, <2>2, HoldsAssign
  <2>4. /\ RingsInv' /\ Intact' = Intact
        /\ Deques' = [Deques EXCEPT ![o] = t]
    BY <2>1, <2>3, UpdateStep
  <2> QED BY <1>1, <2>2, <2>4 DEF Deque!Copy, Deque!Keep, Deque!Becomes, Deques
<1> QED BY <1>2, <1>3

LEMMA MoveIsMove ==
    ASSUME RingsInv, NEW o \in Objects, NEW p \in Objects,
           MoveConstruct(o, p) \/ MoveAssign(o, p)
    PROVE  RingsInv' /\ Deque!Move(o, p)
<1> DEFINE t == Contents(ring[p])
           new == Assign(NewRing, t)
           old == Assign(ring[o], t)
<1>1. /\ p \in Intact /\ Holds(ring[p], t) /\ Deques[p] = t /\ t \in Fit /\ o # p
  BY DEF MoveConstruct, MoveAssign, RingsInv, Intact, Deques, Holds
<1>2. Hollow(t) = [i \in DOMAIN t |-> Moved]
  BY <1>1, FitsAreShort DEF Hollow
<1>3. CASE MoveConstruct(o, p)
  <2>1. /\ ring' = [ring EXCEPT ![o] = new, ![p] = MovedFrom(ring[p])]
        /\ o \notin alive \cup damaged /\ alive' = alive \cup {o} /\ damaged' = damaged
    BY <1>3 DEF MoveConstruct
  <2>2. Holds(new, t)  BY <1>1, HoldsNew, HoldsAssign
  <2> HIDE DEF new, old
  <2>3. /\ RingsInv' /\ Intact' = Intact \cup {o}
        /\ Deques' = [Deques EXCEPT ![o] = Deques[p], ![p] = Hollow(Deques[p])]
    BY <1>1, <2>1, <2>2, MoveStep
  <2>4. o \notin Intact  BY <2>1 DEF Intact
  <2> QED BY <1>1, <1>2, <2>3, <2>4 DEF Deque!Move, Deque!Create, Deques
<1>4. CASE MoveAssign(o, p)
  <2>1. /\ ring' = [ring EXCEPT ![o] = old, ![p] = MovedFrom(ring[p])]
        /\ o \in Intact /\ alive' = alive /\ damaged' = damaged
    BY <1>4 DEF MoveAssign
  <2>2. Holds(ring[o], Contents(ring[o]))  BY <2>1 DEF RingsInv, Intact
  <2>3. Holds(old, t)  BY <1>1, <2>2, HoldsAssign
  <2> HIDE DEF new, old
  <2>4. /\ RingsInv' /\ Intact' = Intact \cup {o}
        /\ Deques' = [Deques EXCEPT ![o] = Deques[p], ![p] = Hollow(Deques[p])]
    BY <1>1, <2>1, <2>3, MoveStep
  <2>5. Intact' = Intact  BY <2>1, <2>4
  <2> QED BY <1>1, <1>2, <2>1, <2>4, <2>5 DEF Deque!Move, Deque!Keep, Deques
<1> QED BY <1>3, <1>4

LEMMA ThrowInCopyStep ==
    ASSUME RingsInv, NEW o \in Objects, NEW p \in Objects, CopyAssignThrow(o, p)
    PROVE  RingsInv' /\ Deque!FailedCopy(o, p)
<1> DEFINE t == Contents(ring[p])
<1>1. p \in Intact /\ Holds(ring[p], t) /\ Deques[p] = t /\ t \in Fit /\ o # p
  BY DEF CopyAssignThrow, RingsInv, Intact, Deques, Holds
<1>2. PICK n \in 0 .. SizeOf(ring[p]) - 1 : Update(o, Assign(ring[o], SubSeq(t, 1, n)))
  BY DEF CopyAssignThrow, Copied
<1> HIDE DEF t
<1> DEFINE u == SubSeq(t, 1, n)
<1>3. SizeOf(ring[p]) = Len(t) /\ Len(t) \in Nat
  BY <1>1, HoldsSeen, FitsAreShort, SizeAssumption DEF Index
<1>4. n \in 0 .. Len(t) /\ u \in Fit  BY <1>1, <1>2, <1>3, CopiedOf
<1>5. o \in Intact /\ Holds(ring[o], Contents(ring[o]))
  BY <1>2 DEF Update, RingsInv, Intact
<1>6. Holds(Assign(ring[o], u), u)  BY <1>4, <1>5, HoldsAssign
<1>7. Update(o, Assign(ring[o], u))  BY <1>2
<1> HIDE DEF u
<1>8. /\ RingsInv' /\ Intact' = Intact
      /\ Deques' = [Deques EXCEPT ![o] = u]
  BY <1>6, <1>7, UpdateStep
<1> QED BY <1>1, <1>4, <1>5, <1>8
        DEF Deque!FailedCopy, Deque!Keep, Deque!Becomes, Deques, u

\* A copy construction that throws makes no object; what is left of the storage is
\* an object's no more.
LEMMA ThrowInConstructionStep ==
    ASSUME RingsInv, NEW o \in Objects, NEW p \in Objects, CopyConstructThrow(o, p)
    PROVE  RingsInv' /\ UNCHANGED <<Intact, Deques>>
<1> DEFINE t == Contents(ring[p])
<1>1. p \in Intact /\ Holds(ring[p], t) /\ t \in Fit
  BY DEF CopyConstructThrow, RingsInv, Intact, Holds
<1>2. PICK n \in 0 .. SizeOf(ring[p]) - 1 :
        /\ ring' = [ring EXCEPT ![o] = Assign(NewRing, SubSeq(t, 1, n))]
        /\ damaged' = IF n = 0 THEN damaged ELSE damaged \cup {o}
  BY DEF CopyConstructThrow, Copied
<1> HIDE DEF t
<1> DEFINE u == SubSeq(t, 1, n)
           c == Assign(NewRing, u)
<1>3. SizeOf(ring[p]) = Len(t) /\ Len(t) \in Nat
  BY <1>1, HoldsSeen, FitsAreShort, SizeAssumption DEF Index
<1>4. n \in 0 .. Len(t) /\ u \in Fit /\ (n = 0 => u = <<>>)
  BY <1>1, <1>2, <1>3, CopiedOf
<1>5. Holds(c, u)  BY <1>4, HoldsNew, HoldsAssign
<1>6. c \in Rings /\ Contents(c) = u  BY <1>5, HoldsSeen
<1>7. /\ ring' = [ring EXCEPT ![o] = c]
      /\ o \notin alive \cup damaged /\ alive' = alive
  BY <1>2 DEF CopyConstructThrow
<1> HIDE DEF c
<1>8. ring'[o] = c /\ \A q \in Objects : q # o => ring'[q] = ring[q]
  BY <1>7 DEF RingsInv
<1>9. RingsInv'
  <2>1. ring' \in [Objects -> Rings]  BY <1>6, <1>7 DEF RingsInv
  <2>2. ASSUME NEW q \in Objects \ damaged'
        PROVE  /\ Holds(ring'[q], Contents(ring'[q]))
               /\ q \notin alive' => Contents(ring'[q]) = <<>>
    <3>1. CASE q = o  BY <1>2, <1>4, <1>5, <1>6, <1>8, <3>1
    <3>2. CASE q # o  BY <1>2, <1>7, <1>8, <3>2 DEF RingsInv
    <3> QED BY <3>1, <3>2
  <2>3. alive' \subseteq Objects /\ damaged' \subseteq Objects
    BY <1>2, <1>7 DEF RingsInv
  <2> QED BY <2>1, <2>2, <2>3 DEF RingsInv
<1>10. Intact' = Intact /\ o \notin Intact  BY <1>2, <1>7 DEF Intact
<1>11. Deques' = Deques
  <2>1. ASSUME NEW q \in Objects PROVE Deques'[q] = Deques[q]
    BY <1>8, <1>10 DEF Deques
  <2>2. /\ Deques' = [q \in Objects |-> Deques'[q]]
        /\ Deques = [q \in Objects |-> Deques[q]]
    BY DEF Deques
  <2> QED BY <2>1, <2>2
<1> QED BY <1>9, <1>10, <1>11

LEMMA RingsNext == RingsInv /\ [Next]_vars => RingsInv' /\ DequeStep
<1> SUFFICES ASSUME RingsInv, [Next]_vars PROVE RingsInv' /\ DequeStep
  OBVIOUS
<1>1. ASSUME NEW o \in Objects,
             \/ DoConstruct(o) \/ Destroy(o)
             \/ DoEmplaceBack(o) \/ DoEmplaceFront(o)
             \/ DoPopBack(o) \/ DoPopFront(o) \/ DoClear(o)
             \/ EmplaceBackThrow(o) \/ EmplaceFrontThrow(o)
      PROVE  RingsInv' /\ DequeStep
  <2>1. CASE DoConstruct(o)
    BY <2>1, ConstructIsCreation DEF DequeStep, Deque!Next
  <2>2. CASE Destroy(o)
    BY <2>2, DestroyIsVanish DEF DequeStep, Deque!Next
  <2>3. CASE DoEmplaceBack(o) \/ DoEmplaceFront(o)
    BY <2>3, PushIsPush DEF DequeStep, Deque!Next
  <2>4. CASE DoPopBack(o) \/ DoPopFront(o)
    BY <2>4, PopIsPop DEF DequeStep, Deque!Next
  <2>5. CASE DoClear(o)
    BY <2>5, ClearIsEmpty DEF DequeStep, Deque!Next
  <2>6. CASE EmplaceBackThrow(o)
    BY <2>6, ThrowAtBackStep DEF DequeStep, Deque!Next
  <2>7. CASE EmplaceFrontThrow(o)
    BY <2>7, ThrowAtFrontIsVanish DEF DequeStep, Deque!Next
  <2> QED BY <1>1, <2>1, <2>2, <2>3, <2>4, <2>5, <2>6, <2>7
<1>2. ASSUME NEW o \in Objects, NEW p \in Objects,
             \/ CopyConstruct(o, p) \/ CopyAssign(o, p)
             \/ MoveConstruct(o, p) \/ MoveAssign(o, p)
             \/ CopyAssignThrow(o, p) \/ CopyConstructThrow(o, p)
      PROVE  RingsInv' /\ DequeStep
  <2>1. CASE CopyConstruct(o, p) \/ CopyAssign(o, p)
    BY <2>1, CopyIsCopy DEF DequeStep, Deque!Next
  <2>2. CASE MoveConstruct(o, p) \/ MoveAssign(o, p)
    BY <2>2, MoveIsMove DEF DequeStep, Deque!Next
  <2>3. CASE CopyAssignThrow(o, p)
    BY <2>3, ThrowInCopyStep DEF DequeStep, Deque!Next
  <2>4. CASE CopyConstructThrow(o, p)
    BY <2>4, ThrowInConstructionStep DEF DequeStep
  <2> QED BY <1>2, <2>1, <2>2, <2>3, <2>4
<1>3. CASE UNCHANGED vars
  BY <1>3 DEF vars, RingsInv, DequeStep, Deques, Intact
<1> QED BY <1>1, <1>2, <1>3 DEF Next

LEMMA RingsAlways == Spec => []RingsInv
<1>1. Init => RingsInv  BY RingsInit
<1>2. RingsInv /\ [Next]_vars => RingsInv'  BY RingsNext
<1> QED BY <1>1, <1>2, PTL DEF Spec
-------------------------------------------------------------------------------
(* The theorems.                                                                  *)

\* Every variable has its type: begin_ and end_ stay in the storage, whatever is
\* done to a ring, and even where an exception has damaged it.
THEOREM TypeCorrect == Spec => []TypeOK
<1>1. RingsInv => TypeOK  BY DEF RingsInv, TypeOK, Rings
<1> QED BY <1>1, RingsAlways, PTL

\* An element lives in a slot exactly when the slot is between begin_ and end_, and
\* nothing lives in an object that is gone (the ASSERTs of uninitialized.h), for
\* every object that no exception has damaged.
THEOREM ElementsLiveBetweenTheEnds == Spec => []LifetimesMatch
<1>1. RingsInv => LifetimesMatch
  <2> SUFFICES ASSUME RingsInv, NEW o \in Objects \ damaged
               PROVE  {i \in Index : ring[o].slots[i] # Raw} =
                        IF o \in alive THEN LiveSlots(ring[o]) ELSE {}
    BY DEF LifetimesMatch
  <2>1. /\ Holds(ring[o], Contents(ring[o]))
        /\ o \notin alive => Contents(ring[o]) = <<>>
    BY DEF RingsInv
  <2> QED BY <2>1, HoldsSeen
<1> QED BY <1>1, RingsAlways, PTL

\* A loop from begin() to end() ends after size() elements, from front() to back();
\* going back undoes going forward except from the first slot, and the order of
\* iterators is that of iteration exactly in a ring that does not wrap.
THEOREM LoopsVisitTheElements == Spec => []IterationAgrees
<1>1. RingsInv => IterationAgrees
  <2> SUFFICES ASSUME RingsInv, NEW o \in alive
               PROVE  LET c     == ring[o]
                          size  == SizeOf(c)
                          at(n) == Iterator(c, n)
                      IN /\ at(size) = c.last
                         /\ \A n \in 0 .. size - 1 : at(n) # c.last
                         /\ size > 0 => /\ FrontOf(c) = c.slots[at(0)]
                                        /\ BackOf(c)  = c.slots[at(size - 1)]
                         /\ \A n \in 1 .. size : Decreased(at(n)) = at(n - 1) <=> at(n) # 0
                         /\ (\A m, n \in 0 .. size : m < n <=> at(m) < at(n))
                              <=> c.first <= c.last
    BY DEF IterationAgrees
  <2> DEFINE c == ring[o]
             f == c.first
             size == SizeOf(c)
             at(n) == Iterator(c, n)
  <2>1. f \in Index /\ c.last \in Index  BY DEF RingsInv, Rings
  <2>2. size \in Index /\ c.last = Place(f, size)  BY <2>1, SizeOfIsIndex
  <2>3. \A n \in 0 .. size : n \in Index /\ n \in Nat
    BY <2>2, SizeAssumption DEF Index
  <2>4. \A n \in 0 .. size : at(n) = Place(f, n)
    BY <2>1, <2>3, IteratorIsPlace
  <2>5. size \in Nat /\ size <= Size /\ f \in Nat /\ f <= Size
    BY <2>1, <2>2, SizeAssumption DEF Index
  <2> HIDE DEF f, size, at
  <2>6. at(size) = c.last  BY <2>2, <2>4, <2>5
  <2>7. ASSUME NEW n \in 0 .. size - 1 PROVE at(n) # c.last
    <3>1. n \in 0 .. size /\ n # size  BY <2>5
    <3>2. Offset(f, Place(f, n)) = n /\ Offset(f, Place(f, size)) = size
      BY <2>1, <2>2, <2>3, <3>1, Indexes
    <3> QED BY <2>2, <2>4, <3>1, <3>2
  <2>8. ASSUME size > 0
        PROVE  FrontOf(c) = c.slots[at(0)] /\ BackOf(c) = c.slots[at(size - 1)]
    <3>1. 0 \in 0 .. size /\ size - 1 \in 0 .. size /\ size \in 1 .. Size
      BY <2>5, <2>8
    <3>2. at(0) = f  BY <2>1, <2>4, <3>1, Indexes
    <3>3. decrement(c.last) = at(size - 1)  BY <2>1, <2>2, <2>4, <3>1, Shifts
    <3> QED BY <3>2, <3>3 DEF FrontOf, BackOf, f
  <2>9. ASSUME NEW n \in 1 .. size
        PROVE  Decreased(at(n)) = at(n - 1) <=> at(n) # 0
    <3>1. n \in 0 .. size /\ n - 1 \in 0 .. size /\ n \in 1 .. Size  BY <2>5, SizeAssumption
    <3>2. Place(f, n) - 1 = Place(f, n - 1) <=> Place(f, n) # 0
      BY <2>5, <3>1, SizeAssumption DEF Place
    <3> QED BY <2>4, <3>1, <3>2 DEF Decreased
  <2>10. (\A m, n \in 0 .. size : m < n <=> at(m) < at(n)) <=> f <= c.last
    <3>1. CASE f <= c.last
      <4>1. ASSUME NEW n \in 0 .. size PROVE at(n) = f + n
        <5>1. f + size <= Size  BY <2>2, <2>5, <3>1, SizeAssumption DEF Place
        <5>2. f + n <= Size  BY <2>5, <5>1, SizeAssumption
        <5> QED BY <2>4, <5>2 DEF Place
      <4>2. \A m, n \in 0 .. size : m < n <=> at(m) < at(n)  BY <2>5, <4>1
      <4> QED BY <3>1, <4>2
    <3>2. CASE ~(f <= c.last)
      <4>1. size # 0 /\ 0 \in 0 .. size /\ size \in 0 .. size
        BY <2>1, <2>2, <2>5, <3>2, Indexes
      <4>2. 0 < size /\ at(0) = f /\ at(size) = c.last
        BY <2>1, <2>4, <2>5, <2>6, <4>1, Indexes
      <4>3. ~(at(0) < at(size))
        BY <2>1, <2>5, <3>2, <4>2, SizeAssumption DEF Index
      <4> QED BY <3>2, <4>1, <4>2, <4>3
    <3> QED BY <3>1, <3>2
  <2> QED BY <2>6, <2>7, <2>8, <2>9, <2>10 DEF f, size, at
<1> QED BY <1>1, RingsAlways, PTL

\* The objects that no exception has damaged are deques of at most Size elements:
\* the ring of slots implements BoundedDeque, copies, moves and failures included.
THEOREM RingsAreDeques == Spec => ImplementsDeque
<1>1. Init => Deque!Init  BY RingsInit DEF Deque!Init, Deques
<1>2. RingsInv /\ [Next]_vars => [Deque!Next]_(Deque!vars)
  BY RingsNext DEF DequeStep, Deque!vars, Deques
<1> QED BY <1>1, <1>2, RingsAlways, PTL DEF Spec, ImplementsDeque, Deque!Spec
=============================================================================
