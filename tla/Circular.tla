------------------------------ MODULE Circular ------------------------------
(* kae::Circular (include/kae/circular.h) over kae::Uninitialized             *)
(* (include/kae/uninitialized.h): a ring of Size + 1 slots in which elements  *)
(* are constructed and destroyed by hand.  Raw is a slot without an element,  *)
(* init_ of Uninitialized is "not Raw".  One thread uses the objects; an      *)
(* element's constructor may throw, its destructor and its move may not.      *)
EXTENDS Integers, SequencesExt, FiniteSets

CONSTANTS
    Objects,   \* the Circular objects
    Elements,
    Moved,     \* the value of a moved-from element
    Raw,       \* no element lives in the slot
    Size       \* Tsize

ASSUME SizeAssumption   == Size \in Nat \ {0}
ASSUME ValuesAssumption == Moved \notin Elements /\ Raw \notin Elements /\ Moved # Raw

VARIABLES
    alive,    \* the objects whose constructor has returned
    ring,     \* their members: storage_, begin_ and end_
    damaged   \* history: the objects whose lifetimes an exception has broken

vars == <<alive, ring, damaged>>

Index  == 0 .. Size
Values == Elements \cup {Moved}

NewRing == [slots |-> [i \in Index |-> Raw], first |-> 0, last |-> 0]

\* Mutant of increment: wraps one slot too late.
incrementLate(i) == IF i = Size + 1 THEN 0 ELSE i + 1

increment(i) == IF i = Size THEN 0 ELSE i + 1

decrement(i) == IF i = 0 THEN Size ELSE i - 1

SizeOf(c) == IF c.first <= c.last THEN c.last - c.first
             ELSE (Size + 1 - c.first) + c.last

(* Iterators: element_ as an index of storage_, begin_ and end_ being 0 and     *)
(* Size + 1; the comparisons of iterators are those of the indexes.             *)

\* Mutant of Increased: wraps at end_, one slot too late.
IncreasedLate(e) == IF e = Size + 1 THEN 0 ELSE e + 1

\* operator++
Increased(e) == IF e = Size THEN 0 ELSE e + 1

\* operator--.  It compares element_ with the null pointer, which it never is: from
\* the first slot it leaves the storage.
Decreased(e) == e - 1

\* n increments away from begin().
Iterator(c, n) == LET at[k \in 0 .. n] == IF k = 0 THEN c.first ELSE Increased(at[k - 1])
                  IN at[n]

LiveSlots(c) == {Iterator(c, n) : n \in 0 .. SizeOf(c) - 1}
Contents(c)  == [n \in 1 .. SizeOf(c) |-> c.slots[Iterator(c, n - 1)]]
FrontOf(c)   == c.slots[c.first]
BackOf(c)    == c.slots[decrement(c.last)]
-----------------------------------------------------------------------------
(* The operations on one ring                                                 *)

PopFront(c) == [c EXCEPT !.slots[c.first] = Raw, !.first = increment(c.first)]

PopBack(c) == LET i == decrement(c.last)
              IN [c EXCEPT !.slots[i] = Raw, !.last = i]

\* Mutants of RoomAtBack: no room is made; it is made at the wrong end.
RoomAtBackNone(c) == c
RoomAtBackWrong(c) == IF SizeOf(c) = Size THEN PopBack(c) ELSE c

RoomAtBack(c)  == IF SizeOf(c) = Size THEN PopFront(c) ELSE c
RoomAtFront(c) == IF SizeOf(c) = Size THEN PopBack(c) ELSE c

EmplaceBack(c, v) ==
    LET r == RoomAtBack(c)
    IN [r EXCEPT !.slots[r.last] = v, !.last = increment(r.last)]

EmplaceFront(c, v) ==
    LET r == RoomAtFront(c)
        i == decrement(r.first)
    IN [r EXCEPT !.slots[i] = v, !.first = i]

\* begin_ moves before the element is constructed.
EmplaceFrontFailed(c) ==
    LET r == RoomAtFront(c) IN [r EXCEPT !.first = decrement(r.first)]

\* pop_front until begin_ meets end_, which stays where it is.
Clear(c) == [c EXCEPT !.slots = [i \in Index |-> IF i \in LiveSlots(c) THEN Raw
                                                 ELSE c.slots[i]],
                      !.first = c.last]

\* The assignments: clear, then emplace_back for each element of the source.
Assign(c, source) ==
    LET after[n \in 0 .. Len(source)] == IF n = 0 THEN Clear(c)
                                         ELSE EmplaceBack(after[n - 1], source[n])
    IN after[Len(source)]

MovedFrom(c) == [c EXCEPT !.slots = [i \in Index |-> IF i \in LiveSlots(c) THEN Moved
                                                     ELSE c.slots[i]]]

Init == /\ alive = {}
        /\ ring = [o \in Objects |-> NewRing]
        /\ damaged = {}
-----------------------------------------------------------------------------
(* Calls on an object                                                         *)

\* A ring that an exception has damaged counts a slot with no element in it, or
\* belongs to no object.  Every further life of it ends with the destruction of
\* that slot, which is undefined (an ASSERT of a debug build): it is not
\* followed.
Intact == alive \ damaged

\* o is alive and becomes c.
Update(o, c) == /\ o \in Intact
                /\ ring' = [ring EXCEPT ![o] = c]
                /\ UNCHANGED <<alive, damaged>>

\* o comes to life as c.
Build(o, c) == /\ o \notin alive \cup damaged
               /\ alive' = alive \cup {o}
               /\ ring' = [ring EXCEPT ![o] = c]
               /\ UNCHANGED damaged

DoConstruct(o) == Build(o, NewRing)

DoEmplaceBack(o)  == \E e \in Elements : Update(o, EmplaceBack(ring[o], e))
DoEmplaceFront(o) == \E e \in Elements : Update(o, EmplaceFront(ring[o], e))

DoPopBack(o)  == SizeOf(ring[o]) > 0 /\ Update(o, PopBack(ring[o]))
DoPopFront(o) == SizeOf(ring[o]) > 0 /\ Update(o, PopFront(ring[o]))

DoClear(o) == Update(o, Clear(ring[o]))

CopyAssign(o, p) == /\ p \in Intact /\ o # p
                    /\ Update(o, Assign(ring[o], Contents(ring[p])))

CopyConstruct(o, p) == p \in Intact /\ Build(o, Assign(NewRing, Contents(ring[p])))

MoveAssign(o, p) ==
    /\ p \in Intact /\ o \in Intact /\ o # p
    /\ ring' = [ring EXCEPT ![o] = Assign(ring[o], Contents(ring[p])),
                            ![p] = MovedFrom(ring[p])]
    /\ UNCHANGED <<alive, damaged>>

MoveConstruct(o, p) ==
    /\ p \in Intact /\ o \notin alive \cup damaged
    /\ alive' = alive \cup {o}
    /\ ring' = [ring EXCEPT ![o] = Assign(NewRing, Contents(ring[p])),
                            ![p] = MovedFrom(ring[p])]
    /\ UNCHANGED damaged

\* ~Circular: clear, then ~Uninitialized of each slot; the memory is reused.
Destroy(o) == /\ o \in Intact
              /\ alive' = alive \ {o}
              /\ ring' = [ring EXCEPT ![o] = [Clear(@) EXCEPT !.first = 0, !.last = 0]]
              /\ UNCHANGED damaged
-----------------------------------------------------------------------------
(* Calls in which the constructor of an element throws                        *)

\* emplace_back has made room already; end_ has not moved.
EmplaceBackThrow(o) == Update(o, RoomAtBack(ring[o]))

EmplaceFrontThrow(o) == /\ o \in Intact
                        /\ ring' = [ring EXCEPT ![o] = EmplaceFrontFailed(@)]
                        /\ damaged' = damaged \cup {o}
                        /\ UNCHANGED alive

\* The copy of element n + 1 throws.
Copied(p, n) == SubSeq(Contents(ring[p]), 1, n)

CopyAssignThrow(o, p) ==
    /\ p \in Intact /\ o # p
    /\ \E n \in 0 .. SizeOf(ring[p]) - 1 :
         Update(o, Assign(ring[o], Copied(p, n)))

\* The body of the constructor throws: ~Circular does not run, storage_ is
\* destroyed with the n elements in it.
CopyConstructThrow(o, p) ==
    /\ p \in Intact /\ o \notin alive \cup damaged
    /\ \E n \in 0 .. SizeOf(ring[p]) - 1 :
         /\ ring' = [ring EXCEPT ![o] = Assign(NewRing, Copied(p, n))]
         /\ damaged' = IF n = 0 THEN damaged ELSE damaged \cup {o}
    /\ UNCHANGED alive
-----------------------------------------------------------------------------
Next == \/ \E o \in Objects :
             \/ DoConstruct(o) \/ Destroy(o)
             \/ DoEmplaceBack(o) \/ DoEmplaceFront(o)
             \/ DoPopBack(o) \/ DoPopFront(o) \/ DoClear(o)
             \/ EmplaceBackThrow(o) \/ EmplaceFrontThrow(o)
        \/ \E o, p \in Objects :
             \/ CopyConstruct(o, p) \/ CopyAssign(o, p)
             \/ MoveConstruct(o, p) \/ MoveAssign(o, p)
             \/ CopyAssignThrow(o, p) \/ CopyConstructThrow(o, p)

Spec == Init /\ [][Next]_vars
-----------------------------------------------------------------------------
(* Properties                                                                 *)

\* Every variable has its type.
TypeOK ==
    /\ alive \subseteq Objects /\ damaged \subseteq Objects
    /\ ring \in [Objects -> [slots : [Index -> Values \cup {Raw}],
                             first : Index, last : Index]]

\* An element lives in a slot exactly when the slot is between begin_ and end_,
\* and nothing lives in an object that is gone: every constructor is matched by
\* one destructor, and size() counts the elements even in a full ring ("we need
\* Tsize+1", line 238).  These are the ASSERTs of uninitialized.h, for every object
\* that no exception has damaged.
LifetimesMatch ==
    \A o \in Objects \ damaged :
        {i \in Index : ring[o].slots[i] # Raw} =
            IF o \in alive THEN LiveSlots(ring[o]) ELSE {}

\* A loop from begin() to end() ends after size() elements, the first and the last
\* of which are front() and back().  Going back undoes going forward except from
\* the first slot (circular.h:56), and the order of iterators is that of iteration
\* exactly in a ring that does not wrap (circular.h:74): as deep as a program may
\* rely on either.
IterationAgrees ==
    \A o \in alive :
        LET c     == ring[o]
            size  == SizeOf(c)
            at(n) == Iterator(c, n)
        IN /\ at(size) = c.last
           /\ \A n \in 0 .. size - 1 : at(n) # c.last
           /\ size > 0 => /\ FrontOf(c) = c.slots[at(0)]
                          /\ BackOf(c)  = c.slots[at(size - 1)]
           /\ \A n \in 1 .. size : Decreased(at(n)) = at(n - 1) <=> at(n) # 0
           /\ (\A m, n \in 0 .. size : m < n <=> at(m) < at(n)) <=> c.first <= c.last

\* "ASSERT(init_)" of destroy (uninitialized.h:64): every element that clear or
\* the destructor is going to destroy is there.
DestroysOnlyElements ==
    \A o \in alive : \A i \in LiveSlots(ring[o]) : ring[o].slots[i] # Raw

\* The objects that no exception has damaged are deques of at most Size
\* elements, copies and moves between them included.
Deque == INSTANCE BoundedDeque
             WITH exists <- Intact,
                  deque <- [o \in Objects |-> IF o \in Intact THEN Contents(ring[o])
                                              ELSE <<>>]

ImplementsDeque == Deque!Spec
=============================================================================
