----------------------------- MODULE HoldersProofs -----------------------------
(* Theorems about Holders, for any finite set of holders and any functions: no   *)
(* object is lost or destroyed twice, a guard's function is called once or handed*)
(* over, and the promise of a task is kept, broken, or still somebody's to keep. *)
EXTENDS Holders, FiniteSetTheorems, TLAPS

-------------------------------------------------------------------------------
(* Storage.  ObjectsMatchStorage counts the holders with an object; a step       *)
(* changes what one or two of them hold.                                         *)

Bodies  == Functions \cup {Empty, Hollow, Raw}
Full(b) == {o \in Holders : b[o] \notin {Empty, Raw}}

\* The objects that v is, as the content of a holder.
Objects(v) == IF v \in {Empty, Raw} THEN 0 ELSE 1

StorageInv == AnyTypeOK /\ ObjectsMatchStorage

\* The three marks differ from each other.
LEMMA Marks == Empty # Hollow /\ Empty # Raw /\ Hollow # Raw
<1>1. ASSUME NEW a, NEW b PROVE Cardinality({a, b}) <= 2
  <2>1. IsFiniteSet({a}) /\ Cardinality({a}) = 1  BY FS_Singleton
  <2>2. IsFiniteSet({b}) /\ Cardinality({b}) = 1  BY FS_Singleton
  <2>3. /\ IsFiniteSet({a} \cup {b})
        /\ Cardinality({a} \cup {b})
             = Cardinality({a}) + Cardinality({b}) - Cardinality({a} \cap {b})
    BY <2>1, <2>2, FS_Union
  <2>4. Cardinality({a} \cap {b}) \in Nat
    BY <2>1, FS_Subset, FS_CardinalityType, {a} \cap {b} \subseteq {a}
  <2>5. {a} \cup {b} = {a, b}  OBVIOUS
  <2> QED BY <2>1, <2>2, <2>3, <2>4, <2>5
<1>2. Cardinality({Empty, Hollow, Raw}) = 3  BY BodiesAssumption
<1>3. Empty # Hollow
  <2>1. SUFFICES ASSUME Empty = Hollow PROVE FALSE  OBVIOUS
  <2>2. {Empty, Hollow, Raw} = {Empty, Raw}  BY <2>1
  <2>3. Cardinality({Empty, Raw}) <= 2  BY <1>1
  <2> QED BY <1>2, <2>2, <2>3
<1>4. Empty # Raw
  <2>1. SUFFICES ASSUME Empty = Raw PROVE FALSE  OBVIOUS
  <2>2. {Empty, Hollow, Raw} = {Empty, Hollow}  BY <2>1
  <2>3. Cardinality({Empty, Hollow}) <= 2  BY <1>1
  <2> QED BY <1>2, <2>2, <2>3
<1>5. Hollow # Raw
  <2>1. SUFFICES ASSUME Hollow = Raw PROVE FALSE  OBVIOUS
  <2>2. {Empty, Hollow, Raw} = {Empty, Hollow}  BY <2>1
  <2>3. Cardinality({Empty, Hollow}) <= 2  BY <1>1
  <2> QED BY <1>2, <2>2, <2>3
<1> QED BY <1>3, <1>4, <1>5

\* No function is a mark.
LEMMA FunctionsAreNoMarks ==
    ASSUME NEW f \in Functions PROVE f # Empty /\ f # Hollow /\ f # Raw
BY BodiesAssumption

\* The holders with an object can be counted.
LEMMA FullCounts ==
    ASSUME NEW b PROVE IsFiniteSet(Full(b)) /\ Cardinality(Full(b)) \in Nat
<1>1. Full(b) \subseteq Holders  BY DEF Full
<1> QED BY <1>1, HoldersAssumption, FS_Subset, FS_CardinalityType

\* What a holder's new content changes in the count.
LEMMA Put ==
    ASSUME NEW b \in [Holders -> Bodies], NEW c \in [Holders -> Bodies],
           NEW o \in Holders, \A q \in Holders \ {o} : c[q] = b[q]
    PROVE  Cardinality(Full(c)) = Cardinality(Full(b)) - Objects(b[o]) + Objects(c[o])
<1>2. /\ IsFiniteSet(Full(b)) /\ Cardinality(Full(b)) \in Nat
      /\ IsFiniteSet(Full(c)) /\ Cardinality(Full(c)) \in Nat
  BY FullCounts
<1>3. Full(c) \ {o} = Full(b) \ {o}  BY DEF Full
<1>4. ASSUME NEW d, IsFiniteSet(Full(d)), Cardinality(Full(d)) \in Nat
      PROVE  Cardinality(Full(d)) = Cardinality(Full(d) \ {o}) + Objects(d[o])
  <2>1. CASE d[o] \in {Empty, Raw}
    <3>1. Full(d) \ {o} = Full(d)  BY <2>1 DEF Full
    <3> QED BY <1>4, <2>1, <3>1 DEF Objects
  <2>2. CASE d[o] \notin {Empty, Raw}
    <3>1. o \in Full(d)  BY <2>2 DEF Full
    <3>2. Cardinality(Full(d) \ {o}) = Cardinality(Full(d)) - 1
      BY <1>4, <3>1, FS_RemoveElement
    <3> QED BY <1>4, <2>2, <3>2 DEF Objects
  <2> QED BY <2>1, <2>2
<1>5. /\ Cardinality(Full(b)) = Cardinality(Full(b) \ {o}) + Objects(b[o])
      /\ Cardinality(Full(c)) = Cardinality(Full(b) \ {o}) + Objects(c[o])
  <2>1. Cardinality(Full(b)) = Cardinality(Full(b) \ {o}) + Objects(b[o])
    BY <1>2, <1>4
  <2>2. Cardinality(Full(c)) = Cardinality(Full(c) \ {o}) + Objects(c[o])
    BY <1>2, <1>4
  <2> QED BY <1>3, <2>1, <2>2
<1>6. Cardinality(Full(b) \ {o}) \in Nat
  BY <1>2, FS_Subset, FS_CardinalityType, Full(b) \ {o} \subseteq Full(b)
<1>7. Objects(b[o]) \in Nat /\ Objects(c[o]) \in Nat  BY DEF Objects
<1> QED BY <1>5, <1>6, <1>7

\* The same for the contents of two holders, as a move changes them.
LEMMA PutTwo ==
    ASSUME NEW b \in [Holders -> Bodies], NEW c \in [Holders -> Bodies],
           NEW o \in Holders, NEW p \in Holders, o # p,
           \A q \in Holders \ {o, p} : c[q] = b[q]
    PROVE  Cardinality(Full(c)) = Cardinality(Full(b)) - Objects(b[o]) + Objects(c[o])
                                    - Objects(b[p]) + Objects(c[p])
<1> DEFINE d == [b EXCEPT ![o] = c[o]]
<1>1. /\ d \in [Holders -> Bodies] /\ d[o] = c[o] /\ d[p] = b[p]
      /\ \A q \in Holders \ {o} : d[q] = b[q]
      /\ \A q \in Holders \ {p} : c[q] = d[q]
  OBVIOUS
<1> HIDE DEF d
<1>2. Cardinality(Full(d)) = Cardinality(Full(b)) - Objects(b[o]) + Objects(d[o])
  BY <1>1, Put
<1>3. Cardinality(Full(c)) = Cardinality(Full(d)) - Objects(d[p]) + Objects(c[p])
  BY <1>1, Put
<1>4. Cardinality(Full(b)) \in Nat /\ Cardinality(Full(d)) \in Nat  BY FullCounts
<1> QED BY <1>1, <1>2, <1>3, <1>4 DEF Objects

\* A step that changes what one holder holds, and counts it, keeps StorageInv.
LEMMA OneChanges ==
    ASSUME StorageInv, NEW o \in Holders, NEW v \in Bodies,
           body' = [body EXCEPT ![o] = v],
           living' = living - Objects(body[o]) + Objects(v),
           alive' \subseteq Holders, alive \ {o} \subseteq alive',
           o \in alive' \/ v = Empty,
           o \in Copyables \/ v # Raw,
           ending' \in {"no", "bad_alloc", "bad_function_call"}
    PROVE  StorageInv'
<1> USE DEF StorageInv
<1>1. body \in [Holders -> Bodies]  BY DEF AnyTypeOK, Bodies
<1>2. /\ body' \in [Holders -> Bodies]
      /\ Cardinality(Full(body')) = Cardinality(Full(body)) - Objects(body[o]) + Objects(v)
  <2>1. /\ body' \in [Holders -> Bodies] /\ body'[o] = v
        /\ \A q \in Holders \ {o} : body'[q] = body[q]
    BY <1>1
  <2>2. Cardinality(Full(body'))
          = Cardinality(Full(body)) - Objects(body[o]) + Objects(body'[o])
    BY <1>1, <2>1, Put
  <2> QED BY <2>1, <2>2
<1>3. living = Cardinality(Full(body))  BY DEF ObjectsMatchStorage, Full
<1>4. Cardinality(Full(body)) \in Nat /\ Cardinality(Full(body')) \in Nat  BY FullCounts
<1>5. living' = Cardinality(Full(body')) /\ living' \in Nat
  BY <1>2, <1>3, <1>4 DEF Objects
<1>6. \A q \in Holders \ alive' : body'[q] = Empty
  BY <1>1 DEF AnyTypeOK
<1>7. AnyTypeOK'  BY <1>2, <1>5, <1>6 DEF AnyTypeOK, Bodies
<1>8. \A q \in Holders \ Copyables : body'[q] # Raw
  BY <1>1 DEF ObjectsMatchStorage
<1> QED BY <1>5, <1>7, <1>8 DEF ObjectsMatchStorage, Full

\* So does one that changes what two hold.
LEMMA TwoChange ==
    ASSUME StorageInv, NEW o \in Holders, NEW p \in Holders, o # p,
           NEW v \in Bodies, NEW w \in Bodies,
           body' = [body EXCEPT ![o] = v, ![p] = w],
           living' = living - Objects(body[o]) + Objects(v)
                            - Objects(body[p]) + Objects(w),
           alive' \subseteq Holders, alive \ {o, p} \subseteq alive',
           o \in alive' \/ v = Empty, p \in alive' \/ w = Empty,
           v # Raw, w # Raw,
           ending' \in {"no", "bad_alloc", "bad_function_call"}
    PROVE  StorageInv'
<1> USE DEF StorageInv
<1>1. body \in [Holders -> Bodies]  BY DEF AnyTypeOK, Bodies
<1>2. /\ body' \in [Holders -> Bodies]
      /\ Cardinality(Full(body')) = Cardinality(Full(body)) - Objects(body[o]) + Objects(v)
                                      - Objects(body[p]) + Objects(w)
  <2>1. /\ body' \in [Holders -> Bodies] /\ body'[o] = v /\ body'[p] = w
        /\ \A q \in Holders \ {o, p} : body'[q] = body[q]
    BY <1>1
  <2>2. Cardinality(Full(body'))
          = Cardinality(Full(body)) - Objects(body[o]) + Objects(body'[o])
                                    - Objects(body[p]) + Objects(body'[p])
    <3>1. ASSUME NEW c \in [Holders -> Bodies], \A q \in Holders \ {o, p} : c[q] = body[q]
          PROVE  Cardinality(Full(c))
                   = Cardinality(Full(body)) - Objects(body[o]) + Objects(c[o])
                                             - Objects(body[p]) + Objects(c[p])
      BY <1>1, <3>1, PutTwo
    <3> QED BY <2>1, <3>1
  <2> QED BY <2>1, <2>2
<1>3. living = Cardinality(Full(body))  BY DEF ObjectsMatchStorage, Full
<1>4. Cardinality(Full(body)) \in Nat /\ Cardinality(Full(body')) \in Nat  BY FullCounts
<1>5. living' = Cardinality(Full(body')) /\ living' \in Nat
  BY <1>2, <1>3, <1>4 DEF Objects
<1>6. \A q \in Holders \ alive' : body'[q] = Empty
  BY <1>1 DEF AnyTypeOK
<1>7. AnyTypeOK'  BY <1>2, <1>5, <1>6 DEF AnyTypeOK, Bodies
<1>8. \A q \in Holders \ Copyables : body'[q] # Raw
  BY <1>1 DEF ObjectsMatchStorage
<1> QED BY <1>5, <1>7, <1>8 DEF ObjectsMatchStorage, Full

\* A step that changes no content keeps it.
LEMMA NoneChanges ==
    ASSUME StorageInv, UNCHANGED <<body, living>>,
           alive' \subseteq Holders, alive \subseteq alive',
           ending' \in {"no", "bad_alloc", "bad_function_call"}
    PROVE  StorageInv'
BY DEF StorageInv, AnyTypeOK, ObjectsMatchStorage

\* Count, and what Destroyed and Remains make of it, are about objects: all but
\* the storage that a failed copy has left hold one or nothing.
LEMMA CountsObjects ==
    ASSUME StorageInv, NEW o \in Holders, body[o] # Raw
    PROVE  /\ Count(o) = Objects(body[o]) /\ Destroyed(o) = Objects(body[o])
           /\ Objects(Remains(o)) = Objects(body[o])
           /\ Remains(o) \in Bodies /\ Remains(o) # Raw
BY Marks DEF Count, Destroyed, Holds, Remains, Objects, Bodies

\* The operations of Any keep StorageInv, whatever holder they are applied to.
LEMMA MakeEmptyStorage ==
    ASSUME StorageInv, NEW o \in Holders, MakeEmpty(o) PROVE StorageInv'
BY NoneChanges DEF MakeEmpty, StorageInv, AnyTypeOK

LEMMA MakeStorage ==
    ASSUME StorageInv, NEW o \in Holders, NEW f \in Functions \cup {Hollow}, Make(o, f)
    PROVE  StorageInv'
<1>1. f \in Bodies /\ f # Raw /\ Objects(f) = 1
  BY Marks, FunctionsAreNoMarks DEF Bodies, Objects
<1>2. Objects(body[o]) = 0  BY DEF StorageInv, AnyTypeOK, Make, Objects
<1>3. living \in Nat /\ alive \subseteq Holders
      /\ ending \in {"no", "bad_alloc", "bad_function_call"}
  BY DEF StorageInv, AnyTypeOK
<1>4. /\ living' = living - Objects(body[o]) + Objects(f) /\ ending' = ending
      /\ alive' = alive \cup {o} /\ body' = [body EXCEPT ![o] = f]
  BY <1>1, <1>2, <1>3 DEF Make
<1> QED BY <1>1, <1>3, <1>4, OneChanges

LEMMA MoveStorage ==
    ASSUME StorageInv, NEW o \in Holders, NEW p \in Holders, Move(o, p)
    PROVE  StorageInv'
<1>1. o # p /\ p \in alive /\ body[p] # Raw /\ body[o] # Raw
  BY Marks DEF Move, Sound, StorageInv, AnyTypeOK
<1>2. /\ Count(p) = Objects(body[p]) /\ Destroyed(o) = Objects(body[o])
      /\ Objects(Remains(p)) = Objects(body[p])
      /\ Remains(p) \in Bodies /\ Remains(p) # Raw
  BY <1>1, CountsObjects
<1>3. /\ living \in Nat /\ alive \subseteq Holders /\ body[p] \in Bodies
      /\ ending \in {"no", "bad_alloc", "bad_function_call"}
  BY DEF StorageInv, AnyTypeOK, Bodies
<1>4. Objects(body[o]) \in Nat /\ Objects(body[p]) \in Nat  BY DEF Objects
<1>5. /\ body' = [body EXCEPT ![o] = body[p], ![p] = Remains(p)]
      /\ living' = living - Objects(body[o]) + Objects(body[p])
                          - Objects(body[p]) + Objects(Remains(p))
      /\ alive' = alive \cup {o} /\ ending' = ending
  BY <1>2, <1>3, <1>4 DEF Move, MoveInto, Moved
<1> QED BY <1>1, <1>2, <1>3, <1>5, TwoChange

LEMMA MoveFailsStorage ==
    ASSUME StorageInv, NEW o, NEW p, MoveFails(o, p) PROVE StorageInv'
BY NoneChanges DEF MoveFails, StorageInv, AnyTypeOK

LEMMA DropStorage ==
    ASSUME StorageInv, NEW o \in Holders, Drop(o) PROVE StorageInv'
<1>1. Destroyed(o) = Objects(body[o])  BY CountsObjects DEF Drop, Sound
<1>2. Empty \in Bodies /\ Objects(Empty) = 0  BY DEF Bodies, Objects
<1>3. /\ living \in Nat /\ alive \subseteq Holders /\ Objects(body[o]) \in Nat
      /\ ending \in {"no", "bad_alloc", "bad_function_call"}
  BY DEF StorageInv, AnyTypeOK, Objects
<1>4. /\ living' = living - Objects(body[o]) + Objects(Empty) /\ ending' = ending
      /\ alive' = alive \ {o} /\ body' = [body EXCEPT ![o] = Empty]
  BY <1>1, <1>2, <1>3 DEF Drop, Clear
<1> QED BY <1>2, <1>3, <1>4, Marks, OneChanges

LEMMA CopyableStorage == StorageInv /\ CopyableStep => StorageInv'
<1> SUFFICES ASSUME StorageInv, CopyableStep PROVE StorageInv'  OBVIOUS
<1>0. Copyables \subseteq Holders  BY HoldersAssumption
<1>1. ASSUME NEW o \in Copyables, NEW p \in Copyables,
             CopyMake(o, p) \/ CopyAssign(o, p)
      PROVE  StorageInv'
  <2>1. body[p] # Raw /\ body[o] # Raw /\ o \in Holders /\ p \in Holders
    BY <1>0, <1>1, Marks DEF CopyMake, CopyAssign, Sound, StorageInv, AnyTypeOK
  <2>2. Count(p) = Objects(body[p]) /\ Destroyed(o) = Objects(body[o])
    BY <2>1, CountsObjects
  <2>3. /\ living \in Nat /\ alive \subseteq Holders /\ body[p] \in Bodies
        /\ ending \in {"no", "bad_alloc", "bad_function_call"}
        /\ Objects(body[o]) \in Nat /\ Objects(body[p]) \in Nat
    BY <2>1 DEF StorageInv, AnyTypeOK, Bodies, Objects
  <2>4. /\ body' = [body EXCEPT ![o] = body[p]]
        /\ living' = living - Objects(body[o]) + Objects(body[p])
        /\ alive' = alive \cup {o} /\ ending' = ending
    BY <1>1, <2>1, <2>2, <2>3
       DEF CopyMake, CopyAssign, Sound, StorageInv, AnyTypeOK, Objects
  <2> QED BY <2>1, <2>3, <2>4, OneChanges
<1>2. ASSUME NEW o \in Copyables, NEW p \in Copyables, CopyAssignFails(o, p)
      PROVE  StorageInv'
  <2>1. PICK b \in {Empty, Raw} : body' = [body EXCEPT ![o] = b]
    BY <1>2 DEF CopyAssignFails
  <2>2. Destroyed(o) = Objects(body[o])
    BY <1>0, <1>2, CountsObjects DEF CopyAssignFails, Sound
  <2>3. /\ living \in Nat /\ alive \subseteq Holders /\ b \in Bodies
        /\ ending \in {"no", "bad_alloc", "bad_function_call"}
        /\ Objects(body[o]) \in Nat /\ Objects(b) = 0
    BY DEF StorageInv, AnyTypeOK, Bodies, Objects
  <2>4. living' = living - Objects(body[o]) /\ alive' = alive /\ ending' = ending
    BY <1>2, <2>2 DEF CopyAssignFails
  <2>5. o \in alive
    BY <1>2 DEF CopyAssignFails, Sound
  <2>6. living' = living - Objects(body[o]) + Objects(b)
    BY <2>3, <2>4
  <2> QED BY <1>0, <2>1, <2>3, <2>4, <2>5, <2>6, OneChanges
<1>3. ASSUME NEW o \in Copyables,
             MakeEmpty(o) \/ Drop(o) \/ \E f \in Functions : Make(o, f)
      PROVE  StorageInv'
  BY <1>0, <1>3, MakeEmptyStorage, DropStorage, MakeStorage
<1>4. ASSUME NEW o \in Copyables, NEW p \in Copyables, Move(o, p) \/ MoveFails(o, p)
      PROVE  StorageInv'
  BY <1>0, <1>4, MoveStorage, MoveFailsStorage
<1> QED BY <1>1, <1>2, <1>3, <1>4 DEF CopyableStep

\* What the guards and tasks do to storage.
LEMMA ClearStorage ==
    ASSUME StorageInv, NEW g \in Holders \ Copyables, Clear(g),
           alive' \subseteq Holders, alive \ {g} \subseteq alive',
           ending' \in {"no", "bad_alloc", "bad_function_call"}
    PROVE  StorageInv'
<1>1. Destroyed(g) = Objects(body[g])
  BY CountsObjects DEF StorageInv, ObjectsMatchStorage
<1>2. Empty \in Bodies /\ Empty # Raw /\ Objects(Empty) = 0
  BY Marks DEF Bodies, Objects
<1>3. living \in Nat /\ Objects(body[g]) \in Nat
  BY DEF StorageInv, AnyTypeOK, Objects
<1>4. /\ living' = living - Objects(body[g]) + Objects(Empty)
      /\ body' = [body EXCEPT ![g] = Empty]
  BY <1>1, <1>2, <1>3 DEF Clear
<1> QED BY <1>2, <1>4, OneChanges

LEMMA AfterAssignStorage ==
    ASSUME StorageInv, NEW g \in Holders \ Copyables, NEW h \in Holders \ Copyables,
           g # h, AfterAssign(g, h), alive' = alive \cup {g},
           ending' \in {"no", "bad_alloc", "bad_function_call"}
    PROVE  StorageInv'
<1>1. body[g] # Raw /\ body[h] # Raw  BY DEF StorageInv, ObjectsMatchStorage
<1>2. Destroyed(g) = Objects(body[g])  BY <1>1, CountsObjects
<1>3. Empty \in Bodies /\ Empty # Raw /\ Objects(Empty) = 0
  BY Marks DEF Bodies, Objects
<1>4. /\ living \in Nat /\ alive \subseteq Holders /\ body[h] \in Bodies
      /\ Objects(body[g]) \in Nat /\ Objects(body[h]) \in Nat
  BY DEF StorageInv, AnyTypeOK, Bodies, Objects
<1>5. living' = living - Objects(body[g])  BY <1>2 DEF AfterAssign
<1>6. living' = living - Objects(body[g]) + Objects(body[h])
                       - Objects(body[h]) + Objects(Empty)
  BY <1>3, <1>4, <1>5
<1>7. body' = [body EXCEPT ![g] = body[h], ![h] = Empty]
  BY DEF AfterAssign, Moved, StorageInv, AnyTypeOK
<1> QED BY <1>1, <1>3, <1>4, <1>6, <1>7, TwoChange

LEMMA GuardStorage == StorageInv /\ GuardStep => StorageInv'
<1> SUFFICES ASSUME StorageInv, GuardStep PROVE StorageInv'  OBVIOUS
<1>1. Guards \cup Uniques \subseteq Holders \ Copyables  BY GuardsAssumption
<1>2. /\ alive \subseteq Holders
      /\ ending \in {"no", "bad_alloc", "bad_function_call"}
  BY DEF StorageInv, AnyTypeOK
<1>3. ASSUME NEW o \in Guards \cup Uniques, ConstructEmpty(o) PROVE StorageInv'
  BY <1>1, <1>3, MakeEmptyStorage DEF ConstructEmpty
<1>4. ASSUME NEW g \in Guards, Construct(g) PROVE StorageInv'
  BY <1>1, <1>4, MakeStorage DEF Construct
<1>5. ASSUME NEW g \in Guards, Destruct(g) PROVE StorageInv'
  <2>1. ending' \in {"no", "bad_alloc", "bad_function_call"}
    BY <1>2, <1>5 DEF Destruct, CallFunction
  <2> QED BY <1>1, <1>2, <1>5, <2>1, ClearStorage DEF Destruct
<1>6. ASSUME NEW g \in Guards, NEW h \in Guards, Assign(g, h) PROVE StorageInv'
  <2>1. ending' \in {"no", "bad_alloc", "bad_function_call"}
    BY <1>2, <1>6 DEF Assign, CallFunction
  <2>2. alive' = alive /\ alive' = alive \cup {g}  BY <1>6 DEF Assign
  <2>3. CASE g = h
    <3>1. Clear(g)  BY <1>6, <2>3 DEF Assign
    <3> QED BY <1>1, <1>2, <2>1, <2>2, <3>1, ClearStorage
  <2>4. CASE g # h
    <3>1. AfterAssign(g, h)  BY <1>6, <2>4 DEF Assign
    <3> QED BY <1>1, <2>1, <2>2, <2>4, <3>1, AfterAssignStorage
  <2> QED BY <2>3, <2>4
<1>7. ASSUME NEW g \in Guards, NEW h \in Guards, MoveConstruct(g, h)
      PROVE  StorageInv'
  BY <1>1, <1>2, <1>7, AfterAssignStorage DEF MoveConstruct
<1>8. ASSUME NEW o \in Uniques, NEW g \in Guards, Release(o, g) PROVE StorageInv'
  BY <1>1, <1>2, <1>8, AfterAssignStorage DEF Release
<1>9. ASSUME NEW o \in Guards \cup Uniques, NEW p \in Guards \cup Uniques,
             Move(o, p) \/ MoveFails(o, p) \/ Drop(o)
      PROVE  StorageInv'
  BY <1>1, <1>9, MoveStorage, MoveFailsStorage, DropStorage
<1>10. UniqueStep \/ GuardMoveFails => StorageInv'
  BY <1>9 DEF UniqueStep, GuardMoveFails
<1> QED BY <1>3, <1>4, <1>5, <1>6, <1>7, <1>8, <1>10 DEF GuardStep

LEMMA TaskStorage == StorageInv /\ TaskStep => StorageInv'
<1> SUFFICES ASSUME StorageInv, TaskStep PROVE StorageInv'  OBVIOUS
<1>1. Tasks \subseteq Holders  BY TasksAssumption
<1>2. ASSUME NEW t \in Tasks,
             NewTask(t) \/ NewEmptyTask(t) \/ DropTask(t)
      PROVE  StorageInv'
  BY <1>1, <1>2, MakeStorage, MakeEmptyStorage, DropStorage
     DEF NewTask, NewEmptyTask, DropTask
<1>3. ASSUME NEW t \in Tasks, CallTask(t) \/ CallHollowTask(t) \/ TakeFuture(t)
      PROVE  StorageInv'
  BY <1>3 DEF CallTask, CallHollowTask, TakeFuture, anyVars,
              StorageInv, AnyTypeOK, ObjectsMatchStorage
<1>4. ASSUME NEW t \in Tasks, NEW u \in Tasks, MoveTask(t, u) \/ MoveFails(t, u)
      PROVE  StorageInv'
  BY <1>1, <1>4, MoveStorage, MoveFailsStorage DEF MoveTask
<1> QED BY <1>2, <1>3, <1>4 DEF TaskStep
-------------------------------------------------------------------------------
(* Guards.  OwnedOrDone counts the guards of a function; Accounted says where it  *)
(* is without counting, and that a function no guard was made with has not been   *)
(* called.                                                                        *)

Owned(f) == \E g \in Guards : body[g] = f

OneOwner == \A f \in Functions : \A g, h \in Guards : body[g] = f /\ body[h] = f => g = h

Accounted == \A f \in Functions :
    /\ Owned(f) => f \in guarded \ released /\ runs[f] = 0
    /\ f \in released \/ f \notin guarded => runs[f] = 0
    /\ f \in guarded \ released /\ ~Owned(f) => runs[f] = 1

\* A guard holds a std::function without function only if it was made with one.
HollowIsCareless == Owned(Hollow) => careless

GuardsInv == /\ GuardTypeOK /\ OneOwner /\ Accounted
             /\ HollowIsCareless /\ OnlyCarelessTerminates

LEMMA GuardsAreHolders ==
    /\ Guards \subseteq Holders /\ Uniques \subseteq Holders
    /\ Guards \cap Uniques = {}
BY GuardsAssumption

\* A step in which no guard and none of their histories changes.
LEMMA GuardsUnchanged ==
    ASSUME GuardsInv, UNCHANGED guardVars, \A g \in Guards : body'[g] = body[g],
           ending' # "bad_function_call"
    PROVE  GuardsInv'
BY DEF GuardsInv, GuardTypeOK, OneOwner, Accounted, HollowIsCareless,
       OnlyCarelessTerminates, Owned, guardVars

LEMMA ConstructKeeps ==
    ASSUME StorageInv, GuardsInv, NEW g \in Guards, Construct(g) PROVE GuardsInv'
<1> USE GuardsAreHolders
<1>1. PICK f \in (Functions \ guarded) \cup {Hollow} :
        /\ Make(g, f)
        /\ guarded' = guarded \cup (Functions \cap {f})
        /\ careless' = (careless \/ f = Hollow)
        /\ UNCHANGED <<runs, released>>
  BY DEF Construct
<1>2. /\ body'[g] = f /\ body[g] = Empty /\ g \in Holders
      /\ \A h \in Guards \ {g} : body'[h] = body[h]
      /\ ending' = ending
  BY <1>1 DEF StorageInv, AnyTypeOK, Make
<1>3. Hollow \notin Functions /\ Empty \notin Functions  BY BodiesAssumption
<1>4. GuardTypeOK'  BY <1>1 DEF GuardsInv, GuardTypeOK
<1>5. OneOwner'
  <2>1. ASSUME NEW e \in Functions, NEW h \in Guards, NEW i \in Guards,
               body'[h] = e, body'[i] = e
        PROVE  h = i
    <3>1. CASE h # g /\ i # g  BY <1>2, <2>1, <3>1 DEF GuardsInv, OneOwner
    <3>2. CASE h = g \/ i = g
      <4>1. e = f /\ e \notin guarded  BY <1>2, <1>3, <2>1, <3>2
      <4>2. \A j \in Guards : body[j] # e  BY <4>1 DEF GuardsInv, Accounted, Owned
      <4> QED BY <1>2, <2>1, <4>2
    <3> QED BY <3>1, <3>2
  <2> QED BY <2>1 DEF OneOwner
<1>6. Accounted'
  <2>1. ASSUME NEW e \in Functions, e # f PROVE Owned(e)' <=> Owned(e)
    BY <1>2, <1>3, <2>1 DEF Owned
  <2>2. ASSUME NEW e \in Functions, e # f
        PROVE  /\ e \in guarded' <=> e \in guarded
               /\ e \in released' <=> e \in released
               /\ runs'[e] = runs[e]
    BY <1>1, <2>2
  <2>3. f \in Functions =>
          f \in guarded' \ released' /\ runs'[f] = 0 /\ Owned(f)'
    BY <1>1, <1>2, <1>3 DEF GuardsInv, GuardTypeOK, Accounted, Owned
  <2> QED BY <2>1, <2>2, <2>3 DEF GuardsInv, Accounted
<1>7. HollowIsCareless'
  BY <1>1, <1>2 DEF GuardsInv, HollowIsCareless, Owned
<1>8. OnlyCarelessTerminates'
  BY <1>1, <1>2 DEF GuardsInv, OnlyCarelessTerminates
<1> QED BY <1>4, <1>5, <1>6, <1>7, <1>8 DEF GuardsInv

\* A guard loses its function in a call of it: destruction, and assignment to the
\* guard itself.
LEMMA CallKeeps ==
    ASSUME StorageInv, GuardsInv, NEW g \in Guards, CallFunction(g), Clear(g),
           UNCHANGED <<guarded, released, careless>>
    PROVE  GuardsInv'
<1> USE GuardsAreHolders
<1>1. /\ body'[g] = Empty /\ g \in Holders
      /\ \A h \in Guards \ {g} : body'[h] = body[h]
  BY DEF StorageInv, AnyTypeOK, Clear
<1>2. Hollow \notin Functions /\ Empty \notin Functions /\ Hollow # Empty
  BY BodiesAssumption, Marks
<1>3. GuardTypeOK'  BY DEF GuardsInv, GuardTypeOK, CallFunction
<1>4. OneOwner'  BY <1>1, <1>2 DEF GuardsInv, OneOwner
<1>5. Accounted'
  <2>1. ASSUME NEW e \in Functions, body[g] # e
        PROVE  (Owned(e)' <=> Owned(e)) /\ runs'[e] = runs[e]
    BY <1>1, <1>2, <2>1 DEF GuardsInv, GuardTypeOK, Owned, CallFunction
  <2>2. ASSUME NEW e \in Functions, body[g] = e
        PROVE  e \in guarded \ released /\ runs'[e] = 1 /\ ~Owned(e)'
    <3>1. e \in guarded \ released /\ runs[e] = 0
      BY <2>2 DEF GuardsInv, Accounted, Owned
    <3>2. runs'[e] = 1
      BY <2>2, <3>1 DEF GuardsInv, GuardTypeOK, CallFunction
    <3>3. ~Owned(e)'  BY <1>1, <1>2, <2>2 DEF GuardsInv, OneOwner, Owned
    <3> QED BY <3>1, <3>2, <3>3
  <2> QED BY <2>1, <2>2 DEF GuardsInv, Accounted
<1>6. HollowIsCareless'
  BY <1>1, <1>2 DEF GuardsInv, HollowIsCareless, Owned
<1>7. OnlyCarelessTerminates'
  BY DEF GuardsInv, HollowIsCareless, Owned, OnlyCarelessTerminates, CallFunction
<1> QED BY <1>3, <1>4, <1>5, <1>6, <1>7 DEF GuardsInv

\* A guard takes over what another has: assignment to a guard, which calls the
\* function it had, and a move into a new one, which had none.
LEMMA TakeOverKeeps ==
    ASSUME StorageInv, GuardsInv, NEW g \in Guards, NEW h \in Guards, g # h,
           AfterAssign(g, h), UNCHANGED <<guarded, released, careless>>,
           CallFunction(g) \/ (body[g] = Empty /\ UNCHANGED <<runs, ending>>)
    PROVE  GuardsInv'
<1> USE GuardsAreHolders
<1>1. /\ body'[g] = body[h] /\ body'[h] = Empty
      /\ \A i \in Guards \ {g, h} : body'[i] = body[i]
  BY DEF StorageInv, AnyTypeOK, AfterAssign, Moved
<1>2. Hollow \notin Functions /\ Empty \notin Functions /\ Hollow # Empty
  BY BodiesAssumption, Marks
<1>3. GuardTypeOK'  BY DEF GuardsInv, GuardTypeOK, CallFunction
<1>4. OneOwner'  BY <1>1, <1>2 DEF GuardsInv, OneOwner
<1>5. Accounted'
  <2>1. ASSUME NEW e \in Functions, body[g] # e
        PROVE  (Owned(e)' <=> Owned(e)) /\ runs'[e] = runs[e]
    <3>1. Owned(e)' <=> Owned(e)  BY <1>1, <1>2, <2>1 DEF Owned
    <3>2. runs'[e] = runs[e]  BY <2>1 DEF GuardsInv, GuardTypeOK, CallFunction
    <3> QED BY <3>1, <3>2
  <2>2. ASSUME NEW e \in Functions, body[g] = e
        PROVE  e \in guarded \ released /\ runs'[e] = 1 /\ ~Owned(e)'
    <3>1. e \in guarded \ released /\ runs[e] = 0
      BY <2>2 DEF GuardsInv, Accounted, Owned
    <3>2. runs'[e] = 1
      BY <1>2, <2>2, <3>1 DEF GuardsInv, GuardTypeOK, CallFunction
    <3>3. ~Owned(e)'  BY <1>1, <1>2, <2>2 DEF GuardsInv, OneOwner, Owned
    <3> QED BY <3>1, <3>2, <3>3
  <2> QED BY <2>1, <2>2 DEF GuardsInv, Accounted
<1>6. HollowIsCareless'
  BY <1>1, <1>2 DEF GuardsInv, HollowIsCareless, Owned
<1>7. OnlyCarelessTerminates'
  BY DEF GuardsInv, HollowIsCareless, Owned, OnlyCarelessTerminates, CallFunction
<1> QED BY <1>3, <1>4, <1>5, <1>6, <1>7 DEF GuardsInv

LEMMA ReleaseKeeps ==
    ASSUME StorageInv, GuardsInv, NEW o \in Uniques, NEW g \in Guards, Release(o, g)
    PROVE  GuardsInv'
<1> USE GuardsAreHolders
<1>1. /\ body'[g] = Empty /\ \A h \in Guards \ {g} : body'[h] = body[h]
      /\ UNCHANGED <<ending, runs, guarded, careless>>
      /\ released' = released \cup (Functions \cap {body[g]})
  BY DEF StorageInv, AnyTypeOK, Release, AfterAssign, Moved
<1>2. Hollow \notin Functions /\ Empty \notin Functions /\ Hollow # Empty
  BY BodiesAssumption, Marks
<1>3. body[g] \in Functions => body[g] \in guarded /\ runs[body[g]] = 0
  BY DEF GuardsInv, Accounted, Owned
<1>4. GuardTypeOK'  BY <1>1, <1>3 DEF GuardsInv, GuardTypeOK
<1>5. OneOwner'  BY <1>1, <1>2 DEF GuardsInv, OneOwner
<1>6. Accounted'
  <2>1. ASSUME NEW e \in Functions, body[g] # e
        PROVE  (Owned(e)' <=> Owned(e)) /\ (e \in released' <=> e \in released)
    BY <1>1, <1>2, <2>1 DEF Owned
  <2>2. ASSUME NEW e \in Functions, body[g] = e
        PROVE  e \in released' /\ runs[e] = 0 /\ ~Owned(e)'
    BY <1>1, <1>2, <1>3, <2>2 DEF GuardsInv, OneOwner, Owned
  <2> QED BY <1>1, <2>1, <2>2 DEF GuardsInv, Accounted
<1>7. HollowIsCareless'
  BY <1>1, <1>2 DEF GuardsInv, HollowIsCareless, Owned
<1>8. OnlyCarelessTerminates'  BY <1>1 DEF GuardsInv, OnlyCarelessTerminates
<1> QED BY <1>4, <1>5, <1>6, <1>7, <1>8 DEF GuardsInv

LEMMA GuardsKept == StorageInv /\ GuardsInv /\ ending = "no" /\ GuardStep => GuardsInv'
<1> SUFFICES ASSUME StorageInv, GuardsInv, ending = "no", GuardStep PROVE GuardsInv'
  OBVIOUS
<1> USE GuardsAreHolders
<1>1. ASSUME NEW o \in Guards \cup Uniques, ConstructEmpty(o) PROVE GuardsInv'
  BY <1>1, GuardsUnchanged DEF ConstructEmpty, MakeEmpty
<1>2. ASSUME NEW g \in Guards, Construct(g) \/ Destruct(g) PROVE GuardsInv'
  BY <1>2, ConstructKeeps, CallKeeps DEF Destruct
<1>3. ASSUME NEW g \in Guards, NEW h \in Guards, Assign(g, h) PROVE GuardsInv'
  BY <1>3, CallKeeps, TakeOverKeeps DEF Assign
<1>4. ASSUME NEW g \in Guards, NEW h \in Guards, MoveConstruct(g, h) PROVE GuardsInv'
  <2>1. g # h /\ body[g] = Empty
    BY <1>4 DEF MoveConstruct, StorageInv, AnyTypeOK
  <2> QED BY <1>4, <2>1, TakeOverKeeps DEF MoveConstruct, guardVars
<1>5. ASSUME NEW o \in Uniques, NEW g \in Guards, Release(o, g) PROVE GuardsInv'
  BY <1>5, ReleaseKeeps
<1>6. ASSUME NEW o \in Uniques, NEW p \in Uniques, Move(o, p) \/ Drop(o),
             UNCHANGED guardVars
      PROVE  GuardsInv'
  <2>1. \A g \in Guards : body'[g] = body[g]
    BY <1>6 DEF Move, MoveInto, Moved, Drop, Clear, StorageInv, AnyTypeOK
  <2>2. ending' = ending  BY <1>6 DEF Move, Drop
  <2> QED BY <1>6, <2>1, <2>2, GuardsUnchanged
<1>7. ASSUME NEW o, NEW p, MoveFails(o, p), UNCHANGED guardVars PROVE GuardsInv'
  BY <1>7, GuardsUnchanged DEF MoveFails
<1>8. UniqueStep \/ GuardMoveFails => GuardsInv'
  BY <1>6, <1>7 DEF UniqueStep, GuardMoveFails
<1> QED BY <1>1, <1>2, <1>3, <1>4, <1>5, <1>8 DEF GuardStep
-------------------------------------------------------------------------------
(* Tasks.  PromiseServed counts keepers and futures; the parts of TasksInv do     *)
(* not, and say besides that a promise whose task is there is not broken.         *)

Kept(f) == \E t \in Tasks : body[t] = f

OneKeeper == \A f \in Functions : \A t, u \in Tasks : body[t] = f /\ body[u] = f => t = u

Keepers == \A f \in Functions :
    /\ outcome[f] = "pending" => Kept(f)
    /\ Kept(f) => outcome[f] \in {"pending", "value", "exception"}

FirstResult == \A f \in Functions :
    IF results[f] = <<>> THEN outcome[f] \in {"none", "pending", "broken"}
                         ELSE outcome[f] = Head(results[f])

OneFuture == \A f \in Functions :
    /\ \A t, u \in Tasks : future[t] = f /\ future[u] = f => t = u
    /\ f \in taken \/ outcome[f] = "none" => \A t \in Tasks : future[t] # f
    /\ f \in taken => outcome[f] # "none"

TasksInv == TaskTypeOK /\ OneKeeper /\ Keepers /\ FirstResult /\ OneFuture

\* A step that changes neither the contents of tasks nor their histories.
LEMMA TasksUnchanged ==
    ASSUME TasksInv, UNCHANGED taskVars, UNCHANGED body PROVE TasksInv'
BY DEF TasksInv, TaskTypeOK, OneKeeper, Keepers, FirstResult, OneFuture, Kept, taskVars

LEMMA NewTaskKeeps ==
    ASSUME StorageInv, TasksInv, NEW t \in Tasks, NewTask(t) PROVE TasksInv'
<1> USE TasksAssumption, NoFutureAssumption
<1>1. PICK f \in Functions :
        /\ outcome[f] = "none"
        /\ Make(t, f)
        /\ future' = [future EXCEPT ![t] = f]
        /\ outcome' = [outcome EXCEPT ![f] = "pending"]
        /\ UNCHANGED <<taken, results, escaped>>
  BY DEF NewTask
<1>2. /\ body'[t] = f /\ body[t] = Empty
      /\ \A u \in Tasks \ {t} : body'[u] = body[u]
  BY <1>1 DEF Make, StorageInv, AnyTypeOK
<1>3. /\ outcome'[f] = "pending" /\ \A e \in Functions \ {f} : outcome'[e] = outcome[e]
      /\ future'[t] = f /\ \A u \in Tasks \ {t} : future'[u] = future[u]
  BY <1>1 DEF TasksInv, TaskTypeOK
<1>4. Empty \notin Functions  BY BodiesAssumption
<1>5. ~Kept(f)  BY <1>1 DEF TasksInv, Keepers
<1>6. TaskTypeOK'  BY <1>1 DEF TasksInv, TaskTypeOK
<1>7. OneKeeper'  BY <1>2, <1>5 DEF TasksInv, OneKeeper, Kept
<1>8. Keepers'
  <2>1. ASSUME NEW e \in Functions, e # f PROVE Kept(e)' <=> Kept(e)
    BY <1>2, <1>4, <2>1 DEF Kept
  <2>2. Kept(f)'  BY <1>2 DEF Kept
  <2> QED BY <1>3, <2>1, <2>2 DEF TasksInv, Keepers
<1>9. FirstResult'
  <2>1. results[f] = <<>>
    BY <1>1 DEF TasksInv, FirstResult, TaskTypeOK
  <2> QED BY <1>1, <1>3, <2>1 DEF TasksInv, FirstResult
<1>10. OneFuture'  BY <1>1, <1>3 DEF TasksInv, OneFuture
<1> QED BY <1>6, <1>7, <1>8, <1>9, <1>10 DEF TasksInv

\* A call keeps the promise of a task the first time, and never changes it later.
LEMMA CallTaskKeeps ==
    ASSUME StorageInv, TasksInv, NEW t \in Tasks, CallTask(t) PROVE TasksInv'
<1> DEFINE f == body[t]
<1>1. PICK result \in {"value", "exception"} :
        /\ results' = [results EXCEPT ![f] = Append(@, result)]
        /\ Settle(f, result)
  BY DEF CallTask
<1>2. /\ f \in Functions /\ Kept(f) /\ UNCHANGED <<future, taken, body>>
      /\ results[f] \in Seq({"value", "exception"})
      /\ outcome[f] \in {"pending", "value", "exception"}
  BY DEF CallTask, anyVars, TasksInv, TaskTypeOK, Keepers, Kept
<1>3. /\ results'[f] = Append(results[f], result)
      /\ results' \in [Functions -> Seq({"value", "exception"})]
      /\ \A e \in Functions \ {f} : results'[e] = results[e]
  BY <1>1, <1>2 DEF TasksInv, TaskTypeOK
<1>4. /\ outcome' \in [Functions -> {"none", "pending", "value", "exception", "broken"}]
      /\ \A e \in Functions \ {f} : outcome'[e] = outcome[e]
      /\ outcome'[f] = IF outcome[f] = "pending" THEN result ELSE outcome[f]
      /\ escaped' \in BOOLEAN
  BY <1>1, <1>2 DEF Settle, TasksInv, TaskTypeOK
<1>5. TaskTypeOK'  BY <1>2, <1>3, <1>4 DEF TasksInv, TaskTypeOK
<1>6. OneKeeper'  BY <1>2 DEF TasksInv, OneKeeper
<1>7. Keepers'  BY <1>2, <1>4 DEF TasksInv, Keepers, Kept
<1>8. FirstResult'
  <2>1. CASE results[f] = <<>>
    <3>1. outcome[f] = "pending"
      BY <1>2, <2>1 DEF TasksInv, FirstResult
    <3>2. results'[f] # <<>> /\ Head(results'[f]) = result
      BY <1>2, <1>3, <2>1
    <3> QED BY <1>3, <1>4, <3>1, <3>2 DEF TasksInv, FirstResult
  <2>2. CASE results[f] # <<>>
    <3>1. outcome[f] = Head(results[f])
      BY <1>2, <2>2 DEF TasksInv, FirstResult
    <3>2. Head(results[f]) \in {"value", "exception"}
      BY <1>2, <2>2
    <3>3. results'[f] # <<>> /\ Head(results'[f]) = Head(results[f])
      BY <1>2, <1>3, <2>2
    <3> QED BY <1>3, <1>4, <3>1, <3>2, <3>3 DEF TasksInv, FirstResult
  <2> QED BY <2>1, <2>2
<1>9. OneFuture'  BY <1>2, <1>4 DEF TasksInv, OneFuture
<1> QED BY <1>5, <1>6, <1>7, <1>8, <1>9 DEF TasksInv

\* A task that loses its callable breaks the promise, if it is not kept; what it
\* has then is the callable of a task that loses it, or none.
LEMMA BreakKeeps ==
    ASSUME StorageInv, TasksInv, NEW t \in Tasks, outcome' = Breaks(t),
           UNCHANGED <<results, taken, escaped>>,
           TaskTypeOK', OneFuture', OneKeeper',
           \A f \in Functions : Kept(f)' <=> Kept(f) /\ body[t] # f
    PROVE  TasksInv'
<1>1. \A f \in Functions : outcome'[f] = IF f = body[t] /\ outcome[f] = "pending"
                                         THEN "broken" ELSE outcome[f]
  BY DEF Breaks
<1>2. Keepers'  BY <1>1 DEF TasksInv, Keepers
<1>3. FirstResult'
  <2>1. ASSUME NEW f \in Functions, results[f] # <<>> PROVE outcome[f] # "pending"
    <3>1. outcome[f] = Head(results[f])  BY <2>1 DEF TasksInv, FirstResult
    <3>2. Head(results[f]) \in {"value", "exception"}
      BY <2>1 DEF TasksInv, TaskTypeOK
    <3> QED BY <3>1, <3>2
  <2> QED BY <1>1, <2>1 DEF TasksInv, FirstResult
<1> QED BY <1>2, <1>3 DEF TasksInv

LEMMA BreaksType ==
    ASSUME TasksInv, NEW t
    PROVE  /\ Breaks(t) \in [Functions -> {"none", "pending", "value", "exception", "broken"}]
           /\ \A f \in Functions : Breaks(t)[f] = "none" <=> outcome[f] = "none"
BY DEF TasksInv, TaskTypeOK, Breaks

LEMMA DropTaskKeeps ==
    ASSUME StorageInv, TasksInv, NEW t \in Tasks, DropTask(t) PROVE TasksInv'
<1> USE TasksAssumption, NoFutureAssumption
<1>1. /\ body'[t] = Empty /\ \A u \in Tasks \ {t} : body'[u] = body[u]
      /\ future' = [future EXCEPT ![t] = NoFuture] /\ outcome' = Breaks(t)
      /\ UNCHANGED <<results, taken, escaped>>
  BY DEF DropTask, Drop, Clear, StorageInv, AnyTypeOK
<1>2. Empty \notin Functions  BY BodiesAssumption
<1>3. /\ outcome' \in [Functions -> {"none", "pending", "value", "exception", "broken"}]
      /\ \A f \in Functions : outcome'[f] = "none" <=> outcome[f] = "none"
  BY <1>1, BreaksType
<1>4. TaskTypeOK'  BY <1>1, <1>3 DEF TasksInv, TaskTypeOK
<1>5. OneFuture'  BY <1>1, <1>3 DEF TasksInv, TaskTypeOK, OneFuture
<1>6. OneKeeper'  BY <1>1, <1>2 DEF TasksInv, OneKeeper
<1>7. \A f \in Functions : Kept(f)' <=> Kept(f) /\ body[t] # f
  BY <1>1, <1>2 DEF TasksInv, OneKeeper, Kept
<1> QED BY <1>1, <1>4, <1>5, <1>6, <1>7, BreakKeeps

LEMMA MoveTaskKeeps ==
    ASSUME StorageInv, TasksInv, NEW t \in Tasks, NEW u \in Tasks, MoveTask(t, u)
    PROVE  TasksInv'
<1> USE TasksAssumption, NoFutureAssumption
<1>1. /\ t # u /\ body'[t] = body[u] /\ body'[u] \in {Empty, Hollow}
      /\ \A v \in Tasks \ {t, u} : body'[v] = body[v]
      /\ future' = [future EXCEPT ![t] = future[u], ![u] = NoFuture]
      /\ outcome' = Breaks(t)
      /\ UNCHANGED <<results, taken, escaped>>
  BY DEF MoveTask, Move, MoveInto, Moved, Remains, StorageInv, AnyTypeOK
<1>2. Empty \notin Functions /\ Hollow \notin Functions  BY BodiesAssumption
<1>3. /\ outcome' \in [Functions -> {"none", "pending", "value", "exception", "broken"}]
      /\ \A f \in Functions : outcome'[f] = "none" <=> outcome[f] = "none"
  BY <1>1, BreaksType
<1>4. TaskTypeOK'  BY <1>1, <1>3 DEF TasksInv, TaskTypeOK
<1>5. OneFuture'
  <2>1. /\ future'[t] = future[u] /\ future'[u] = NoFuture
        /\ \A v \in Tasks \ {t, u} : future'[v] = future[v]
    BY <1>1 DEF TasksInv, TaskTypeOK
  <2>2. ASSUME NEW f \in Functions
        PROVE  /\ \A v, w \in Tasks : future'[v] = f /\ future'[w] = f => v = w
               /\ (\A v \in Tasks : future[v] # f) => \A v \in Tasks : future'[v] # f
    <3>1. \A v \in Tasks : future'[v] = f => v # u /\ (v = t => future[u] = f)
      BY <2>1
    <3>2. \A v \in Tasks : future'[v] = f => future[IF v = t THEN u ELSE v] = f
      BY <2>1, <3>1
    <3>3. \A v, w \in Tasks : future[v] = f /\ future[w] = f => v = w
      BY DEF TasksInv, OneFuture
    <3> QED BY <1>1, <3>1, <3>2, <3>3
  <2> QED BY <1>1, <1>3, <2>2 DEF TasksInv, OneFuture
<1>6. OneKeeper'  BY <1>1, <1>2 DEF TasksInv, OneKeeper
<1>7. \A f \in Functions : Kept(f)' <=> Kept(f) /\ body[t] # f
  BY <1>1, <1>2 DEF TasksInv, OneKeeper, Kept
<1> QED BY <1>1, <1>4, <1>5, <1>6, <1>7, BreakKeeps

LEMMA TasksKept == StorageInv /\ TasksInv /\ TaskStep => TasksInv'
<1> SUFFICES ASSUME StorageInv, TasksInv, TaskStep PROVE TasksInv'  OBVIOUS
<1>1. ASSUME NEW t \in Tasks,
             NewTask(t) \/ DropTask(t) \/ CallTask(t)
      PROVE  TasksInv'
  BY <1>1, NewTaskKeeps, DropTaskKeeps, CallTaskKeeps
<1>2. ASSUME NEW t \in Tasks, NewEmptyTask(t) PROVE TasksInv'
  BY <1>2, TasksUnchanged DEF NewEmptyTask, MakeEmpty
<1>3. ASSUME NEW t \in Tasks, CallHollowTask(t) PROVE TasksInv'
  BY <1>3 DEF CallHollowTask, anyVars, TasksInv, TaskTypeOK, OneKeeper, Keepers,
              FirstResult, OneFuture, Kept
<1>4. ASSUME NEW t \in Tasks, TakeFuture(t) PROVE TasksInv'
  <2>1. /\ future[t] \in Functions /\ taken' = taken \cup {future[t]}
        /\ future'[t] = NoFuture /\ \A u \in Tasks \ {t} : future'[u] = future[u]
        /\ UNCHANGED <<body, outcome, results, escaped>>
    BY <1>4 DEF TakeFuture, anyVars, TasksInv, TaskTypeOK
  <2>2. TaskTypeOK'  BY <1>4, <2>1 DEF TakeFuture, TasksInv, TaskTypeOK
  <2>3. OneFuture'  BY <2>1, NoFutureAssumption DEF TasksInv, OneFuture
  <2>4. OneKeeper' /\ Keepers' /\ FirstResult'
    BY <2>1 DEF TasksInv, OneKeeper, Keepers, FirstResult, Kept
  <2> QED BY <2>2, <2>3, <2>4 DEF TasksInv
<1>5. ASSUME NEW t \in Tasks, NEW u \in Tasks,
             MoveTask(t, u) \/ (MoveFails(t, u) /\ UNCHANGED taskVars)
      PROVE  TasksInv'
  BY <1>5, MoveTaskKeeps, TasksUnchanged DEF MoveFails
<1> QED BY <1>1, <1>2, <1>3, <1>4, <1>5 DEF TaskStep
-------------------------------------------------------------------------------
(* The program: a behaviour is that of one of its three parts, and the histories *)
(* of the others stay as they were.                                              *)

HoldersInv ==
    /\ StorageInv
    /\ program \in {"functions", "guards", "tasks"}
    /\ IF program = "guards" THEN GuardsInv
       ELSE GuardTypeOK /\ guarded = {} /\ ending # "bad_function_call"
    /\ IF program = "tasks" THEN TasksInv
       ELSE TaskTypeOK /\ outcome = [f \in Functions |-> "none"] /\ taken = {}
            /\ future = [t \in Tasks |-> NoFuture] /\ results = [f \in Functions |-> <<>>]

LEMMA HoldersInit == Init => HoldersInv
<1> SUFFICES ASSUME Init PROVE HoldersInv  OBVIOUS
<1> USE DEF Init, AnyInit, GuardInit, TaskInit
<1>1. StorageInv
  <2>1. {o \in Holders : body[o] \notin {Empty, Raw}} = {}  OBVIOUS
  <2>2. living = Cardinality({o \in Holders : body[o] \notin {Empty, Raw}})
    BY <2>1, FS_EmptySet
  <2> QED BY <2>2, Marks DEF StorageInv, AnyTypeOK, ObjectsMatchStorage
<1>2. GuardTypeOK  BY DEF GuardTypeOK
<1>3. TaskTypeOK
  <2>1. future \in [Tasks -> Functions \cup {NoFuture}] /\ taken \subseteq Functions
    OBVIOUS
  <2>2. outcome \in [Functions -> {"none", "pending", "value", "exception", "broken"}]
    OBVIOUS
  <2>3. <<>> \in Seq({"value", "exception"})  OBVIOUS
  <2>4. results \in [Functions -> Seq({"value", "exception"})]  BY <2>3
  <2> QED BY <2>1, <2>2, <2>4 DEF TaskTypeOK
<1>4. \A g \in Guards : body[g] = Empty  BY GuardsAreHolders
<1>5. \A t \in Tasks : body[t] = Empty  BY TasksAssumption
<1>6. Empty \notin Functions /\ Empty # Hollow  BY BodiesAssumption, Marks
<1>7. GuardsInv
  BY <1>2, <1>4, <1>6
     DEF GuardsInv, OneOwner, Accounted, HollowIsCareless, OnlyCarelessTerminates, Owned
<1>8. TasksInv
  <2>1. OneKeeper /\ Keepers  BY <1>5, <1>6 DEF OneKeeper, Keepers, Kept
  <2>2. FirstResult /\ OneFuture  BY NoFutureAssumption DEF FirstResult, OneFuture
  <2> QED BY <1>3, <2>1, <2>2 DEF TasksInv
<1> QED BY <1>1, <1>2, <1>3, <1>7, <1>8 DEF HoldersInv

LEMMA HoldersNext == HoldersInv /\ [Next]_vars => HoldersInv'
<1> SUFFICES ASSUME HoldersInv, [Next]_vars PROVE HoldersInv'  OBVIOUS
<1>1. CASE UNCHANGED vars
  BY <1>1 DEF vars, anyVars, guardVars, taskVars, HoldersInv, StorageInv, AnyTypeOK,
              ObjectsMatchStorage, GuardsInv, GuardTypeOK, OneOwner, Accounted,
              HollowIsCareless, OnlyCarelessTerminates, Owned, TasksInv, TaskTypeOK,
              OneKeeper, Keepers, FirstResult, OneFuture, Kept
<1>2. CASE Next /\ program = "functions"
  <2>1. CopyableStep /\ UNCHANGED guardVars /\ UNCHANGED taskVars /\ program' = program
    BY <1>2 DEF Next
  <2>2. StorageInv'  BY <2>1, CopyableStorage DEF HoldersInv
  <2>3. ending' # "bad_function_call"
    BY <1>2, <2>1 DEF Next, CopyableStep, MakeEmpty, Make, Drop, CopyMake, CopyAssign,
                      Move, CopyAssignFails, MoveFails
  <2> QED BY <1>2, <2>1, <2>2, <2>3
             DEF HoldersInv, guardVars, taskVars, GuardTypeOK, TaskTypeOK
<1>3. CASE Next /\ program = "guards"
  <2>1. GuardStep /\ UNCHANGED taskVars /\ program' = program /\ ending = "no"
    BY <1>3 DEF Next
  <2>2. StorageInv'  BY <2>1, GuardStorage DEF HoldersInv
  <2>3. GuardsInv'  BY <1>3, <2>1, GuardsKept DEF HoldersInv
  <2> QED BY <1>3, <2>1, <2>2, <2>3 DEF HoldersInv, taskVars, TaskTypeOK
<1>4. CASE Next /\ program = "tasks"
  <2>1. TaskStep /\ UNCHANGED guardVars /\ program' = program /\ ending = "no"
    BY <1>4 DEF Next
  <2>2. StorageInv'  BY <2>1, TaskStorage DEF HoldersInv
  <2>3. TasksInv'  BY <1>4, <2>1, TasksKept DEF HoldersInv
  <2>4. ending' # "bad_function_call"
    BY <2>1 DEF TaskStep, NewTask, NewEmptyTask, DropTask, CallTask, CallHollowTask,
                TakeFuture, MoveTask, MoveFails, MakeEmpty, Make, Drop, Move, anyVars
  <2> QED BY <1>4, <2>1, <2>2, <2>3, <2>4 DEF HoldersInv, guardVars, GuardTypeOK
<1> QED BY <1>1, <1>2, <1>3, <1>4 DEF HoldersInv

LEMMA HoldersAlways == Spec => []HoldersInv
BY HoldersInit, HoldersNext, PTL DEF Spec

\* Every variable keeps its type; living, the constructors less the destructors,
\* never falls below zero.
THEOREM TypeCorrect == Spec => []TypeOK
<1>1. HoldersInv => TypeOK
  BY DEF HoldersInv, StorageInv, GuardsInv, TasksInv, TypeOK
<1> QED BY <1>1, HoldersAlways, PTL

\* The objects that were constructed and not destroyed are those in the storage of
\* the holders, through every copy, move, assignment and failure of the three kinds
\* of program; and only a failed copy assignment leaves storage without an object.
THEOREM ObjectsAreHeld == Spec => []ObjectsMatchStorage
<1>1. HoldersInv => ObjectsMatchStorage  BY DEF HoldersInv, StorageInv
<1> QED BY <1>1, HoldersAlways, PTL

\* The function of a guard is in one guard, handed over, or called once.
THEOREM GuardsCallOnce == Spec => []OwnedOrDone
<1>1. ASSUME HoldersInv, NEW f \in guarded
      PROVE  LET owners == {g \in Guards : body[g] = f}
             IN Cardinality(owners) + runs[f] + (IF f \in released THEN 1 ELSE 0) = 1
  <2> DEFINE owners == {g \in Guards : body[g] = f}
  <2>1. GuardsInv /\ f \in Functions
    BY <1>1 DEF HoldersInv, GuardsInv, GuardTypeOK
  <2>2. CASE Owned(f)
    <3>1. PICK g \in Guards : body[g] = f  BY <2>2 DEF Owned
    <3>2. owners = {g}  BY <2>1, <3>1 DEF GuardsInv, OneOwner
    <3>3. Cardinality(owners) = 1  BY <3>2, FS_Singleton
    <3> QED BY <2>1, <2>2, <3>3 DEF GuardsInv, Accounted
  <2>3. CASE ~Owned(f)
    <3>1. owners = {}  BY <2>3 DEF Owned
    <3>2. Cardinality(owners) = 0  BY <3>1, FS_EmptySet
    <3> QED BY <2>1, <2>3, <3>2 DEF GuardsInv, Accounted
  <2> QED BY <2>2, <2>3
<1>2. HoldersInv => OwnedOrDone  BY <1>1 DEF OwnedOrDone
<1> QED BY <1>2, HoldersAlways, PTL

\* Guards end the process by a call only where a guard was made without a function:
\* a guard that was moved from is empty, and is not called.
THEOREM CarefulGuardsReturn == Spec => []OnlyCarelessTerminates
<1>1. HoldersInv => OnlyCarelessTerminates
  BY DEF HoldersInv, GuardsInv, OnlyCarelessTerminates
<1> QED BY <1>1, HoldersAlways, PTL

\* A pending promise has one task that can keep it, a kept one has the result of the
\* first call, a broken one was never called, and no promise has two futures.
THEOREM PromisesAreServed == Spec => []PromiseServed
<1>1. ASSUME HoldersInv, NEW f \in Functions
      PROVE  LET keepers == {t \in Tasks : body[t] = f}
                 futures == {t \in Tasks : future[t] = f}
             IN /\ outcome[f] = "pending" => Cardinality(keepers \cap alive) = 1
                /\ IF results[f] = <<>> THEN outcome[f] \in {"none", "pending", "broken"}
                                        ELSE outcome[f] = Head(results[f])
                /\ Cardinality(futures) + (IF f \in taken THEN 1 ELSE 0) <= 1
  <2> DEFINE keepers == {t \in Tasks : body[t] = f}
             futures == {t \in Tasks : future[t] = f}
  <2>1. FirstResult /\ OneFuture
    BY <1>1, NoFutureAssumption DEF HoldersInv, TasksInv, FirstResult, OneFuture
  <2>2. ASSUME outcome[f] = "pending" PROVE Cardinality(keepers \cap alive) = 1
    <3>1. TasksInv  BY <2>2 , <1>1 DEF HoldersInv
    <3>2. PICK t \in Tasks : body[t] = f
      BY <2>2, <3>1 DEF TasksInv, Keepers, Kept
    <3>3. t \in alive
      BY <1>1, <3>2, TasksAssumption, FunctionsAreNoMarks
         DEF HoldersInv, StorageInv, AnyTypeOK
    <3>4. keepers \cap alive = {t}
      BY <3>1, <3>2, <3>3 DEF TasksInv, OneKeeper
    <3> QED BY <3>4, FS_Singleton
  <2>3. Cardinality(futures) + (IF f \in taken THEN 1 ELSE 0) <= 1
    <3>1. CASE futures = {}
      <4>1. Cardinality(futures) = 0  BY <3>1, FS_EmptySet
      <4> QED BY <4>1
    <3>2. CASE futures # {}
      <4>1. PICK t \in Tasks : future[t] = f  BY <3>2
      <4>2. futures = {t} /\ f \notin taken  BY <2>1, <4>1 DEF OneFuture
      <4>3. Cardinality(futures) = 1  BY <4>2, FS_Singleton
      <4> QED BY <4>2, <4>3
    <3> QED BY <3>1, <3>2
  <2> QED BY <2>1, <2>2, <2>3 DEF FirstResult
<1>2. HoldersInv => PromiseServed  BY <1>1 DEF PromiseServed
<1> QED BY <1>2, HoldersAlways, PTL
=============================================================================
