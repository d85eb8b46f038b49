------------------------- MODULE ConsumeQueueProofs -------------------------
(* Theorems about ConsumeQueue, for any finite set of threads, any elements   *)
(* and any max_size_: its types, the two wakeup invariants, what end() wakes, *)
(* and that it implements ClosableFifo.                                       *)
EXTENDS ConsumeQueue, FiniteSetTheorems, TLAPS

-----------------------------------------------------------------------------
(* Facts about finite sets of threads                                         *)

\* A set of threads is finite, and its cardinality is a natural number.
LEMMA ThreadSets ==
    ASSUME NEW S, S \subseteq Threads
    PROVE  IsFiniteSet(S) /\ Cardinality(S) \in Nat
BY ThreadsAssumption, FS_Subset, FS_CardinalityType

\* One thread more.
LEMMA OneMore ==
    ASSUME NEW S, S \subseteq Threads, NEW t \in Threads, t \notin S
    PROVE  Cardinality(S \cup {t}) = Cardinality(S) + 1
BY ThreadSets, FS_AddElement

\* One thread less.
LEMMA OneLess ==
    ASSUME NEW S, S \subseteq Threads, NEW t \in S
    PROVE  Cardinality(S \ {t}) = Cardinality(S) - 1
BY ThreadSets, FS_RemoveElement

\* One thread takes the place of another.
LEMMA OneForOne ==
    ASSUME NEW S, S \subseteq Threads, NEW t \in S, NEW w \in Threads, w \notin S
    PROVE  Cardinality((S \ {t}) \cup {w}) = Cardinality(S)
<1>1. Cardinality(S \ {t}) = Cardinality(S) - 1
  BY OneLess
<1>2. Cardinality((S \ {t}) \cup {w}) = Cardinality(S \ {t}) + 1
  BY OneMore
<1>3. Cardinality(S) \in Nat
  BY ThreadSets
<1> QED
  BY <1>1, <1>2, <1>3
-----------------------------------------------------------------------------
(* What a move of one thread, or a notification, does to the sets At(l)       *)

\* A thread that goes from one place to another leaves every other set alone.
LEMMA GoMoves ==
    ASSUME pc \in [Threads -> Locations], NEW t \in Threads,
           NEW from \in Locations, NEW to \in Locations, from # to,
           Go(t, from, to)
    PROVE  /\ t \in At(from) /\ t \notin At(to)
           /\ At(from)' = At(from) \ {t}
           /\ At(to)' = At(to) \cup {t}
           /\ \A l \in Locations \ {from, to} : At(l)' = At(l)
BY DEF Go, At

\* notify_one sends the notifier back, and one sleeper if there is one.
LEMMA NotifyOneMoves ==
    ASSUME pc \in [Threads -> Locations], NEW t \in Threads,
           NEW from \in Locations \ {"idle"}, pc[t] = from,
           NEW waiting \in Locations \ {"idle", from},
           NEW awake \in Locations \ {"idle", from, waiting},
           NotifyOne(t, waiting, awake)
    PROVE  \/ At(waiting) = {} /\ Go(t, from, "idle")
           \/ \E w \in At(waiting) :
                /\ w \in Threads /\ w # t
                /\ t \in At(from) /\ w \notin At(awake) /\ w \notin At(from)
                /\ pc' = [pc EXCEPT ![t] = "idle", ![w] = awake]
                /\ At(from)' = At(from) \ {t}
                /\ At(waiting)' = At(waiting) \ {w}
                /\ At(awake)' = At(awake) \cup {w}
                /\ \A l \in Locations \ {"idle", from, waiting, awake} :
                     At(l)' = At(l)
<1>1. CASE At(waiting) = {}
  BY <1>1 DEF NotifyOne, Go
<1>2. CASE At(waiting) # {}
  <2>1. PICK w \in At(waiting) : pc' = [pc EXCEPT ![t] = "idle", ![w] = awake]
    BY <1>2 DEF NotifyOne
  <2>2. w \in Threads /\ w # t /\ pc[w] = waiting
    BY DEF At
  <2>3. \A u \in Threads : pc'[u] = IF u = w THEN awake
                                    ELSE IF u = t THEN "idle" ELSE pc[u]
    BY <2>1, <2>2
  <2>4. t \in At(from) /\ w \notin At(awake) /\ w \notin At(from)
    BY <2>2 DEF At
  <2>5. At(from)' = At(from) \ {t}
    BY <2>2, <2>3 DEF At
  <2>6. At(waiting)' = At(waiting) \ {w}
    BY <2>2, <2>3 DEF At
  <2>7. At(awake)' = At(awake) \cup {w}
    BY <2>2, <2>3 DEF At
  <2>8. \A l \in Locations \ {"idle", from, waiting, awake} : At(l)' = At(l)
    BY <2>2, <2>3 DEF At
  <2> QED
    BY <2>1, <2>2, <2>4, <2>5, <2>6, <2>7, <2>8
<1> QED
  BY <1>1, <1>2

\* notify_all empties the wait set.
LEMMA NotifyAllMoves ==
    ASSUME pc \in [Threads -> Locations], NEW t \in Threads,
           pc[t] = "notifyAll", NotifyAll(t, "waitPop", "pop")
    PROVE  /\ pc' \in [Threads -> Locations]
           /\ At("waitPop")' = {}
           /\ \A l \in {"push", "waitPush", "notifyPush"} : At(l)' = At(l)
BY DEF NotifyAll, At, Locations
-----------------------------------------------------------------------------
(* Types                                                                      *)

\* One step of the queue keeps the types, the bound and the places of val.
LEMMA TypeStep == TypeOK /\ [Next]_vars => TypeOK'
<1> SUFFICES ASSUME TypeOK, [Next]_vars PROVE TypeOK'
  OBVIOUS
<1> USE ElementsAssumption, MaxSizeAssumption
<1>1. ASSUME NEW t \in Threads, CallPush(t) PROVE TypeOK'
  BY <1>1 DEF TypeOK, CallPush, Go, Holds, Locations
<1>2. ASSUME NEW t \in Threads, CallEnd(t) \/ CallPop(t) PROVE TypeOK'
  BY <1>2 DEF TypeOK, CallEnd, CallPop, Go, Locations
<1>3. ASSUME NEW t \in Threads, PushWait(t) PROVE TypeOK'
  BY <1>3 DEF TypeOK, PushWait, Go, Locations
<1>4. ASSUME NEW t \in Threads, PushStore(t) PROVE TypeOK'
  <2>1. val[t] \in Elements
    BY <1>4 DEF TypeOK, PushStore, Go
  <2>2. queue' \in Seq(Elements) /\ Len(queue') <= MaxSize
    BY <1>4, <2>1 DEF TypeOK, PushStore, HasSpace
  <2> QED
    BY <1>4, <2>2 DEF TypeOK, PushStore, Go, Holds, Locations
<1>5. ASSUME NEW t \in Threads, PushThrow(t) PROVE TypeOK'
  BY <1>5 DEF TypeOK, PushThrow, Go, Holds, Locations
<1>6. ASSUME NEW t \in Threads, PushNotify(t) PROVE TypeOK'
  BY <1>6 DEF TypeOK, PushNotify, NotifyOne, At, Locations
<1>7. ASSUME NEW t \in Threads, EndSet(t) PROVE TypeOK'
  BY <1>7 DEF TypeOK, EndSet, Go, Locations
<1>8. ASSUME NEW t \in Threads, EndNotify(t) PROVE TypeOK'
  BY <1>8 DEF TypeOK, EndNotify, NotifyAll, Locations
<1>9. ASSUME NEW t \in Threads, PopWait(t) \/ PopEmpty(t) PROVE TypeOK'
  BY <1>9 DEF TypeOK, PopWait, PopEmpty, Go, Locations
<1>10. ASSUME NEW t \in Threads, PopTake(t) PROVE TypeOK'
  <2>1. Head(queue) \in Elements
    BY <1>10 DEF TypeOK, PopTake
  <2>2. queue' \in Seq(Elements) /\ Len(queue') <= MaxSize
    BY <1>10 DEF TypeOK, PopTake
  <2> QED
    BY <1>10, <2>1, <2>2 DEF TypeOK, PopTake, Go, Holds, Locations
<1>11. ASSUME NEW t \in Threads, PopThrow(t) PROVE TypeOK'
  BY <1>11 DEF TypeOK, PopThrow, Go, Locations
<1>12. ASSUME NEW t \in Threads, PopNotify(t) PROVE TypeOK'
  BY <1>12 DEF TypeOK, PopNotify, NotifyOne, Holds, At, Locations
<1>13. ASSUME NEW t \in Threads, Unwind(t) \/ Spurious(t) PROVE TypeOK'
  BY <1>13 DEF TypeOK, Unwind, Spurious, Go, Locations
<1>14. CASE UNCHANGED vars
  BY <1>14 DEF TypeOK, vars
<1> QED
  BY <1>1, <1>2, <1>3, <1>4, <1>5, <1>6, <1>7, <1>8, <1>9, <1>10, <1>11,
     <1>12, <1>13, <1>14 DEF Next, Step

\* The types, the bound of the queue and the places of val always hold.
THEOREM TypeCorrect == Spec => []TypeOK
<1>1. ASSUME Init PROVE TypeOK
  <2>1. queue \in Seq(Elements) /\ Len(queue) = 0
    BY <1>1 DEF Init
  <2>2. Len(queue) <= MaxSize
    BY <2>1, MaxSizeAssumption
  <2>3. pc \in [Threads -> Locations] /\ \A t \in Threads : pc[t] = "idle"
    BY <1>1 DEF Init, Locations
  <2>4. /\ val \in [Threads -> Elements \cup {NoElement}]
        /\ \A t \in Threads : val[t] = NoElement
    BY <1>1 DEF Init
  <2> QED
    BY <1>1, <2>1, <2>2, <2>3, <2>4 DEF Init, TypeOK
<1> QED
  BY <1>1, TypeStep, PTL DEF Spec
-----------------------------------------------------------------------------
(* No wakeup of a pop is lost.  The invariant is inductive: each step that    *)
(* adds an element adds a helper, and each helper that leaves takes an        *)
(* element, or leaves a queue with nothing in it.                             *)

PopHelpers == At("notifyPop") \cup At("pop")

LEMMA PopHelpersFinite == PopHelpers \subseteq Threads /\ Cardinality(PopHelpers) \in Nat
BY ThreadSets DEF PopHelpers, At

\* A step that adds no sleeper and no element and loses no helper is harmless.
LEMMA PopHarmless ==
    ASSUME TypeOK, NoLostPopWakeup, thrown' = thrown, queue' = queue,
           At("waitPop")' \subseteq At("waitPop"),
           \/ PopHelpers' = PopHelpers
           \/ \E t \in Threads : t \notin PopHelpers /\ PopHelpers' = PopHelpers \cup {t}
    PROVE  NoLostPopWakeup'
<1>1. Cardinality(PopHelpers)' >= Cardinality(PopHelpers)
  BY OneMore, PopHelpersFinite
<1>2. Len(queue) \in Nat /\ Cardinality(PopHelpers) \in Nat
  BY PopHelpersFinite DEF TypeOK
<1>3. Cardinality(PopHelpers') \in Nat
  BY OneMore, PopHelpersFinite
<1> QED
  BY <1>1, <1>2, <1>3 DEF NoLostPopWakeup, PopHelpers

LEMMA PopWakeupStep ==
    TypeOK /\ NoLostPopWakeup /\ [Next]_vars => NoLostPopWakeup'
<1> SUFFICES ASSUME TypeOK, NoLostPopWakeup, [Next]_vars PROVE NoLostPopWakeup'
  OBVIOUS
<1>0. /\ pc \in [Threads -> Locations]
      /\ Len(queue) \in Nat
      /\ PopHelpers \subseteq Threads
      /\ Cardinality(PopHelpers) \in Nat
  BY PopHelpersFinite DEF TypeOK
<1>1. ASSUME NEW t \in Threads, CallPush(t) \/ CallEnd(t) \/ PushWait(t) \/ EndSet(t)
      PROVE  NoLostPopWakeup'
  <2>1. At("waitPop")' = At("waitPop") /\ PopHelpers' = PopHelpers
    BY <1>0, <1>1 DEF CallPush, CallEnd, PushWait, EndSet, Go, At, PopHelpers
  <2> QED
    BY <1>1, <2>1, PopHarmless DEF CallPush, CallEnd, PushWait, EndSet
<1>2. ASSUME NEW t \in Threads, PushStore(t) PROVE NoLostPopWakeup'
  <2>1. /\ At("waitPop")' = At("waitPop")
        /\ t \notin PopHelpers /\ PopHelpers' = PopHelpers \cup {t}
    BY <1>0, <1>2 DEF PushStore, Go, At, PopHelpers
  <2>2. Cardinality(PopHelpers') = Cardinality(PopHelpers) + 1
    BY <1>0, <2>1, OneMore
  <2>3. Len(queue') = Len(queue) + 1
    BY <1>2 DEF PushStore, TypeOK
  <2> QED
    BY <1>0, <1>2, <2>1, <2>2, <2>3 DEF NoLostPopWakeup, PopHelpers, PushStore
<1>3. ASSUME NEW t \in Threads, PushNotify(t) PROVE NoLostPopWakeup'
  <2>1. pc[t] = "notifyPop" /\ NotifyOne(t, "waitPop", "pop") /\ UNCHANGED <<queue, thrown>>
    BY <1>3 DEF PushNotify
  <2>2. CASE At("waitPop") = {} /\ Go(t, "notifyPop", "idle")
    <3>1. At("waitPop")' = {}
      BY <1>0, <2>2 DEF Go, At
    <3> QED
      BY <3>1 DEF NoLostPopWakeup
  <2>3. ASSUME NEW w \in At("waitPop"), w \in Threads,
               t \in At("notifyPop"), w \notin At("pop"), w \notin At("notifyPop"),
               At("notifyPop")' = At("notifyPop") \ {t},
               At("waitPop")' = At("waitPop") \ {w},
               At("pop")' = At("pop") \cup {w}
        PROVE  NoLostPopWakeup'
    <3>1. t \in PopHelpers /\ w \notin PopHelpers /\ t \notin At("pop")
      BY <2>1, <2>3 DEF PopHelpers, At
    <3>2. PopHelpers' = (PopHelpers \ {t}) \cup {w}
      BY <2>3, <3>1 DEF PopHelpers
    <3>3. Cardinality(PopHelpers') = Cardinality(PopHelpers)
      BY <1>0, <2>3, <3>1, <3>2, OneForOne
    <3> QED
      BY <2>1, <2>3, <3>3 DEF NoLostPopWakeup, PopHelpers
  <2> QED
    BY <1>0, <2>1, <2>2, <2>3, NotifyOneMoves DEF Locations
<1>4. ASSUME NEW t \in Threads, EndNotify(t) PROVE NoLostPopWakeup'
  BY <1>0, <1>4, NotifyAllMoves DEF EndNotify, NoLostPopWakeup
<1>5. ASSUME NEW t \in Threads, CallPop(t) PROVE NoLostPopWakeup'
  <2>1. /\ At("waitPop")' = At("waitPop")
        /\ t \notin PopHelpers /\ PopHelpers' = PopHelpers \cup {t}
    BY <1>0, <1>5 DEF CallPop, Go, At, PopHelpers
  <2> QED
    BY <1>5, <2>1, PopHarmless DEF CallPop
<1>6. ASSUME NEW t \in Threads, PopWait(t) \/ PopEmpty(t) PROVE NoLostPopWakeup'
  <2>1. Len(queue') = 0
    BY <1>6 DEF PopWait, PopEmpty, Available, TypeOK
  <2>2. t \in PopHelpers /\ PopHelpers' = PopHelpers \ {t}
    BY <1>0, <1>6 DEF PopWait, PopEmpty, Go, At, PopHelpers
  <2>3. Cardinality(PopHelpers') \in Nat
    BY <1>0, <2>2, ThreadSets
  <2> QED
    BY <2>1, <2>3 DEF NoLostPopWakeup, PopHelpers
<1>7. ASSUME NEW t \in Threads, PopTake(t) PROVE NoLostPopWakeup'
  <2>1. /\ At("waitPop")' = At("waitPop")
        /\ t \in PopHelpers /\ PopHelpers' = PopHelpers \ {t}
    BY <1>0, <1>7 DEF PopTake, Go, At, PopHelpers
  <2>2. Cardinality(PopHelpers') = Cardinality(PopHelpers) - 1
    BY <1>0, <2>1, OneLess
  <2>3. Len(queue') = Len(queue) - 1
    BY <1>7 DEF PopTake, TypeOK
  <2> QED
    BY <1>0, <1>7, <2>1, <2>2, <2>3 DEF NoLostPopWakeup, PopHelpers, PopTake
<1>8. ASSUME NEW t \in Threads, PushThrow(t) \/ PopThrow(t) PROVE NoLostPopWakeup'
  BY <1>8 DEF PushThrow, PopThrow, NoLostPopWakeup
<1>9. ASSUME NEW t \in Threads, PopNotify(t) PROVE NoLostPopWakeup'
  <2>1. At("waitPop")' = At("waitPop") /\ PopHelpers' = PopHelpers
    BY <1>0, <1>9 DEF PopNotify, NotifyOne, At, PopHelpers
  <2> QED
    BY <1>9, <2>1, PopHarmless DEF PopNotify
<1>10. ASSUME NEW t \in Threads, Unwind(t) PROVE NoLostPopWakeup'
  <2>1. At("waitPop")' = At("waitPop") /\ PopHelpers' = PopHelpers
    BY <1>0, <1>10 DEF Unwind, Go, At, PopHelpers
  <2> QED
    BY <1>10, <2>1, PopHarmless DEF Unwind
<1>11. ASSUME NEW t \in Threads, Spurious(t) PROVE NoLostPopWakeup'
  <2>1. CASE Go(t, "waitPush", "push")
    <3>1. At("waitPop")' = At("waitPop") /\ PopHelpers' = PopHelpers
      BY <1>0, <2>1 DEF Go, At, PopHelpers
    <3> QED
      BY <1>11, <3>1, PopHarmless DEF Spurious
  <2>2. CASE Go(t, "waitPop", "pop")
    <3>1. /\ At("waitPop")' \subseteq At("waitPop")
          /\ t \notin PopHelpers /\ PopHelpers' = PopHelpers \cup {t}
      BY <1>0, <2>2 DEF Go, At, PopHelpers
    <3> QED
      BY <1>11, <3>1, PopHarmless DEF Spurious
  <2> QED
    BY <1>11, <2>1, <2>2 DEF Spurious
<1>12. CASE UNCHANGED vars
  BY <1>12 DEF vars, NoLostPopWakeup, At
<1> QED
  BY <1>1, <1>2, <1>3, <1>4, <1>5, <1>6, <1>7, <1>8, <1>9, <1>10, <1>11,
     <1>12 DEF Next, Step

\* While a thread sleeps in pop and nothing has thrown, there is for every
\* queued element a thread about to notify or about to take.
THEOREM PopWakeupsKept == Spec => []NoLostPopWakeup
<1>1. Init => NoLostPopWakeup
  BY DEF Init, NoLostPopWakeup, At
<1> QED
  BY <1>1, PopWakeupStep, TypeCorrect, PTL DEF Spec
-----------------------------------------------------------------------------
(* No wakeup of a push is lost: the same argument with free slots in the      *)
(* place of elements.                                                         *)

PushHelpers == At("notifyPush") \cup At("push")

LEMMA PushHelpersFinite == PushHelpers \subseteq Threads /\ Cardinality(PushHelpers) \in Nat
BY ThreadSets DEF PushHelpers, At

\* A step that adds no sleeper and no free slot and loses no helper is harmless.
LEMMA PushHarmless ==
    ASSUME TypeOK, NoLostPushWakeup, thrown' = thrown, queue' = queue,
           At("waitPush")' \subseteq At("waitPush"),
           \/ PushHelpers' = PushHelpers
           \/ \E t \in Threads : t \notin PushHelpers /\ PushHelpers' = PushHelpers \cup {t}
    PROVE  NoLostPushWakeup'
<1>1. Cardinality(PushHelpers') >= Cardinality(PushHelpers)
  BY OneMore, PushHelpersFinite
<1>2. Len(queue) \in Nat /\ Cardinality(PushHelpers) \in Nat /\ MaxSize \in Nat
  BY PushHelpersFinite, MaxSizeAssumption DEF TypeOK
<1>3. Cardinality(PushHelpers') \in Nat
  BY OneMore, PushHelpersFinite
<1> QED
  BY <1>1, <1>2, <1>3 DEF NoLostPushWakeup, PushHelpers

LEMMA PushWakeupStep ==
    TypeOK /\ NoLostPushWakeup /\ [Next]_vars => NoLostPushWakeup'
<1> SUFFICES ASSUME TypeOK, NoLostPushWakeup, [Next]_vars PROVE NoLostPushWakeup'
  OBVIOUS
<1>0. /\ pc \in [Threads -> Locations]
      /\ Len(queue) \in Nat /\ MaxSize \in Nat
      /\ PushHelpers \subseteq Threads
      /\ Cardinality(PushHelpers) \in Nat
  BY PushHelpersFinite, MaxSizeAssumption DEF TypeOK
<1>1. ASSUME NEW t \in Threads,
             CallEnd(t) \/ CallPop(t) \/ EndSet(t) \/ PopWait(t) \/ PopEmpty(t) \/ Unwind(t)
      PROVE  NoLostPushWakeup'
  <2>1. At("waitPush")' = At("waitPush") /\ PushHelpers' = PushHelpers
    BY <1>0, <1>1 DEF CallEnd, CallPop, EndSet, PopWait, PopEmpty, Unwind, Go, At, PushHelpers
  <2> QED
    BY <1>1, <2>1, PushHarmless DEF CallEnd, CallPop, EndSet, PopWait, PopEmpty, Unwind
<1>2. ASSUME NEW t \in Threads, CallPush(t) PROVE NoLostPushWakeup'
  <2>1. /\ At("waitPush")' = At("waitPush")
        /\ t \notin PushHelpers /\ PushHelpers' = PushHelpers \cup {t}
    BY <1>0, <1>2 DEF CallPush, Go, At, PushHelpers
  <2> QED
    BY <1>2, <2>1, PushHarmless DEF CallPush
<1>3. ASSUME NEW t \in Threads, PushWait(t) PROVE NoLostPushWakeup'
  <2>1. MaxSize - Len(queue') <= 0
    BY <1>0, <1>3 DEF PushWait, HasSpace
  <2>2. t \in PushHelpers /\ PushHelpers' = PushHelpers \ {t}
    BY <1>0, <1>3 DEF PushWait, Go, At, PushHelpers
  <2>3. Cardinality(PushHelpers') \in Nat
    BY <1>0, <2>2, ThreadSets
  <2>4. Len(queue') \in Nat
    BY <1>0, <1>3 DEF PushWait
  <2> QED
    BY <1>0, <2>1, <2>3, <2>4 DEF NoLostPushWakeup, PushHelpers
<1>4. ASSUME NEW t \in Threads, PushStore(t) PROVE NoLostPushWakeup'
  <2>1. /\ At("waitPush")' = At("waitPush")
        /\ t \in PushHelpers /\ PushHelpers' = PushHelpers \ {t}
    BY <1>0, <1>4 DEF PushStore, Go, At, PushHelpers
  <2>2. Cardinality(PushHelpers') = Cardinality(PushHelpers) - 1
    BY <1>0, <2>1, OneLess
  <2>3. Len(queue') = Len(queue) + 1
    BY <1>4 DEF PushStore, TypeOK
  <2> QED
    BY <1>0, <1>4, <2>1, <2>2, <2>3 DEF NoLostPushWakeup, PushHelpers, PushStore
<1>5. ASSUME NEW t \in Threads, PushNotify(t) PROVE NoLostPushWakeup'
  <2>1. At("waitPush")' = At("waitPush") /\ PushHelpers' = PushHelpers
    BY <1>0, <1>5 DEF PushNotify, NotifyOne, At, PushHelpers
  <2> QED
    BY <1>5, <2>1, PushHarmless DEF PushNotify
<1>6. ASSUME NEW t \in Threads, EndNotify(t) PROVE NoLostPushWakeup'
  <2>1. At("waitPush")' = At("waitPush") /\ PushHelpers' = PushHelpers
    BY <1>0, <1>6, NotifyAllMoves DEF EndNotify, PushHelpers
  <2> QED
    BY <1>6, <2>1, PushHarmless DEF EndNotify
<1>7. ASSUME NEW t \in Threads, PopTake(t) PROVE NoLostPushWakeup'
  <2>1. /\ At("waitPush")' = At("waitPush")
        /\ t \notin PushHelpers /\ PushHelpers' = PushHelpers \cup {t}
    BY <1>0, <1>7 DEF PopTake, Go, At, PushHelpers
  <2>2. Cardinality(PushHelpers') = Cardinality(PushHelpers) + 1
    BY <1>0, <2>1, OneMore
  <2>3. Len(queue') = Len(queue) - 1
    BY <1>7 DEF PopTake, TypeOK
  <2> QED
    BY <1>0, <1>7, <2>1, <2>2, <2>3 DEF NoLostPushWakeup, PushHelpers, PopTake
<1>8. ASSUME NEW t \in Threads, PushThrow(t) \/ PopThrow(t) PROVE NoLostPushWakeup'
  BY <1>8 DEF PushThrow, PopThrow, NoLostPushWakeup
<1>9. ASSUME NEW t \in Threads, PopNotify(t) PROVE NoLostPushWakeup'
  <2>1. /\ pc[t] = "notifyPush" /\ NotifyOne(t, "waitPush", "push")
        /\ UNCHANGED <<queue, thrown>>
    BY <1>9 DEF PopNotify
  <2>2. CASE At("waitPush") = {} /\ Go(t, "notifyPush", "idle")
    <3>1. At("waitPush")' = {}
      BY <1>0, <2>2 DEF Go, At
    <3> QED
      BY <3>1 DEF NoLostPushWakeup
  <2>3. ASSUME NEW w \in At("waitPush"), w \in Threads,
               t \in At("notifyPush"), w \notin At("push"), w \notin At("notifyPush"),
               At("notifyPush")' = At("notifyPush") \ {t},
               At("waitPush")' = At("waitPush") \ {w},
               At("push")' = At("push") \cup {w}
        PROVE  NoLostPushWakeup'
    <3>1. t \in PushHelpers /\ w \notin PushHelpers /\ t \notin At("push")
      BY <2>1, <2>3 DEF PushHelpers, At
    <3>2. PushHelpers' = (PushHelpers \ {t}) \cup {w}
      BY <2>3, <3>1 DEF PushHelpers
    <3>3. Cardinality(PushHelpers') = Cardinality(PushHelpers)
      BY <1>0, <2>3, <3>1, <3>2, OneForOne
    <3> QED
      BY <2>1, <2>3, <3>3 DEF NoLostPushWakeup, PushHelpers
  <2> QED
    BY <1>0, <2>1, <2>2, <2>3, NotifyOneMoves DEF Locations
<1>10. ASSUME NEW t \in Threads, Spurious(t) PROVE NoLostPushWakeup'
  <2>1. CASE Go(t, "waitPop", "pop")
    <3>1. At("waitPush")' = At("waitPush") /\ PushHelpers' = PushHelpers
      BY <1>0, <2>1 DEF Go, At, PushHelpers
    <3> QED
      BY <1>10, <3>1, PushHarmless DEF Spurious
  <2>2. CASE Go(t, "waitPush", "push")
    <3>1. /\ At("waitPush")' \subseteq At("waitPush")
          /\ t \notin PushHelpers /\ PushHelpers' = PushHelpers \cup {t}
      BY <1>0, <2>2 DEF Go, At, PushHelpers
    <3> QED
      BY <1>10, <3>1, PushHarmless DEF Spurious
  <2> QED
    BY <1>10, <2>1, <2>2 DEF Spurious
<1>11. CASE UNCHANGED vars
  BY <1>11 DEF vars, NoLostPushWakeup, At
<1> QED
  BY <1>1, <1>2, <1>3, <1>4, <1>5, <1>6, <1>7, <1>8, <1>9, <1>10, <1>11
     DEF Next, Step

\* While a thread sleeps in push and nothing has thrown, there is for every
\* free slot a thread about to notify or about to store.
THEOREM PushWakeupsKept == Spec => []NoLostPushWakeup
<1>1. Init => NoLostPushWakeup
  BY DEF Init, NoLostPushWakeup, At
<1> QED
  BY <1>1, PushWakeupStep, TypeCorrect, PTL DEF Spec
-----------------------------------------------------------------------------
(* The two invariants together: who sleeps, and why.                          *)

\* Pushers and poppers never all sleep at once: an empty queue keeps no pusher
\* asleep and a full one no popper, and no helper is left to make a change.
THEOREM NeverMutuallyAsleep == Spec => []NoMutualSleep
<1>1. TypeOK /\ NoLostPopWakeup /\ NoLostPushWakeup => NoMutualSleep
  <2> SUFFICES ASSUME TypeOK, NoLostPopWakeup, NoLostPushWakeup,
                      ~thrown, MaxSize > 0,
                      \A t \in Threads : pc[t] \in {"waitPush", "waitPop"},
                      At("waitPop") # {}, At("waitPush") # {}
               PROVE  FALSE
    BY DEF NoMutualSleep
  <2>1. PopHelpers = {} /\ PushHelpers = {}
    BY DEF PopHelpers, PushHelpers, At
  <2>2. Cardinality(PopHelpers) = 0 /\ Cardinality(PushHelpers) = 0
    BY <2>1, FS_EmptySet
  <2>3. Len(queue) <= 0
    BY <2>2 DEF NoLostPopWakeup, PopHelpers
  <2>4. MaxSize - Len(queue) <= 0
    BY <2>2 DEF NoLostPushWakeup, PushHelpers
  <2> QED
    BY <2>3, <2>4, MaxSizeAssumption DEF TypeOK
<1> QED
  BY <1>1, TypeCorrect, PopWakeupsKept, PushWakeupsKept, PTL

\* After end() a sleeper in pop is one that end() has yet to notify, whatever
\* has thrown.
THEOREM EndWakesEveryPop == Spec => []EndWakesPop
<1>1. Init => EndWakesPop
  BY DEF Init, EndWakesPop, At
<1>2. TypeOK /\ EndWakesPop /\ [Next]_vars => EndWakesPop'
  <2> SUFFICES ASSUME TypeOK, EndWakesPop, [Next]_vars PROVE EndWakesPop'
    OBVIOUS
  <2>0. pc \in [Threads -> Locations]
    BY DEF TypeOK
  <2>1. ASSUME NEW t \in Threads, CallPush(t) \/ CallEnd(t) \/ CallPop(t) PROVE EndWakesPop'
    BY <2>0, <2>1 DEF CallPush, CallEnd, CallPop, Go, EndWakesPop, At
  <2>2. ASSUME NEW t \in Threads, PushWait(t) \/ PushStore(t) \/ PushThrow(t) PROVE EndWakesPop'
    BY <2>0, <2>2 DEF PushWait, PushStore, PushThrow, Go, EndWakesPop, At
  <2>3. ASSUME NEW t \in Threads, PushNotify(t) PROVE EndWakesPop'
    BY <2>0, <2>3 DEF PushNotify, NotifyOne, EndWakesPop, At
  <2>4. ASSUME NEW t \in Threads, EndSet(t) PROVE EndWakesPop'
    BY <2>0, <2>4 DEF EndSet, Go, EndWakesPop, At
  <2>5. ASSUME NEW t \in Threads, EndNotify(t) PROVE EndWakesPop'
    BY <2>0, <2>5, NotifyAllMoves DEF EndNotify, EndWakesPop
  <2>6. ASSUME NEW t \in Threads, PopWait(t) PROVE EndWakesPop'
    BY <2>0, <2>6 DEF PopWait, Available, Go, EndWakesPop, At
  <2>7. ASSUME NEW t \in Threads, PopEmpty(t) \/ PopTake(t) \/ PopThrow(t) PROVE EndWakesPop'
    BY <2>0, <2>7 DEF PopEmpty, PopTake, PopThrow, Go, EndWakesPop, At
  <2>8. ASSUME NEW t \in Threads, PopNotify(t) PROVE EndWakesPop'
    BY <2>0, <2>8 DEF PopNotify, NotifyOne, EndWakesPop, At
  <2>9. ASSUME NEW t \in Threads, Unwind(t) \/ Spurious(t) PROVE EndWakesPop'
    BY <2>0, <2>9 DEF Unwind, Spurious, Go, EndWakesPop, At
  <2>10. CASE UNCHANGED vars
    BY <2>10 DEF vars, EndWakesPop, At
  <2> QED
    BY <2>1, <2>2, <2>3, <2>4, <2>5, <2>6, <2>7, <2>8, <2>9, <2>10 DEF Next, Step
<1> QED
  BY <1>1, <1>2, TypeCorrect, PTL DEF Spec
-----------------------------------------------------------------------------
(* ConsumeQueue implements ClosableFifo: each step is a step of the abstract  *)
(* queue or leaves it unchanged.  Waiting, waking and evaluating a predicate  *)
(* again all happen within one pending call.                                  *)

Calls == [t \in Threads |-> CallOf(t)]

\* A thread whose place and value do not change is in the same call.
LEMMA SameCall ==
    ASSUME NEW u \in Threads, pc'[u] = pc[u], val'[u] = val[u]
    PROVE  CallOf(u)' = CallOf(u)
BY DEF CallOf

\* A sleeper that is woken is in the same call.
LEMMA WokenSameCall ==
    ASSUME NEW u \in Threads, val'[u] = val[u],
           \/ pc[u] = "waitPop" /\ pc'[u] = "pop"
           \/ pc[u] = "waitPush" /\ pc'[u] = "push"
    PROVE  CallOf(u)' = CallOf(u)
BY DEF CallOf

\* When only t changes its call, the abstract call of t changes alone.
LEMMA OneCallMoves ==
    ASSUME NEW t \in Threads, NEW from, NEW to,
           CallOf(t) = from, CallOf(t)' = to,
           \A u \in Threads \ {t} : CallOf(u)' = CallOf(u)
    PROVE  Fifo!Moves(t, from, to)
BY DEF Fifo!Moves

\* When nobody changes its call, the abstract calls stay.
LEMMA NoCallMoves ==
    ASSUME \A u \in Threads : CallOf(u)' = CallOf(u)
    PROVE  Calls' = Calls
BY DEF Calls

\* The other threads of a step that moves t alone.
LEMMA OthersStay ==
    ASSUME pc \in [Threads -> Locations], val \in [Threads -> Elements \cup {NoElement}],
           NEW t \in Threads, NEW l, pc' = [pc EXCEPT ![t] = l],
           val' = val \/ \E v : val' = [val EXCEPT ![t] = v]
    PROVE  \A u \in Threads \ {t} : CallOf(u)' = CallOf(u)
BY DEF CallOf

\* The other threads of a notify_one by t, the one it wakes included.
LEMMA OthersNotified ==
    ASSUME pc \in [Threads -> Locations], val \in [Threads -> Elements \cup {NoElement}],
           NEW t \in Threads,
           \/ pc[t] = "notifyPop" /\ NotifyOne(t, "waitPop", "pop")
           \/ pc[t] = "notifyPush" /\ NotifyOne(t, "waitPush", "push"),
           val' = val \/ \E v : val' = [val EXCEPT ![t] = v]
    PROVE  pc'[t] = "idle" /\ \A u \in Threads \ {t} : CallOf(u)' = CallOf(u)
<1>1. pc'[t] = "idle"
  BY DEF NotifyOne, At
<1>2. ASSUME NEW u \in Threads \ {t} PROVE CallOf(u)' = CallOf(u)
  <2>1. val'[u] = val[u]
    OBVIOUS
  <2>2. \/ pc'[u] = pc[u]
        \/ pc[u] = "waitPop" /\ pc'[u] = "pop"
        \/ pc[u] = "waitPush" /\ pc'[u] = "push"
    BY DEF NotifyOne, At
  <2> QED
    BY <2>1, <2>2, SameCall, WokenSameCall
<1> QED
  BY <1>1, <1>2

\* Every step is a step of ClosableFifo or leaves it unchanged.
LEMMA RefinementStep == TypeOK /\ [Next]_vars => [Fifo!Next]_(Fifo!vars)
<1> SUFFICES ASSUME TypeOK, [Next]_vars PROVE Fifo!Next \/ UNCHANGED Fifo!vars
  OBVIOUS
<1> DEFINE Same == UNCHANGED <<queue, ended, Calls>>
<1>0. /\ pc \in [Threads -> Locations]
      /\ val \in [Threads -> Elements \cup {NoElement}]
      /\ \A t \in Threads : pc[t] \in {"push", "waitPush", "notifyPush"} => val[t] \in Elements
  BY DEF TypeOK
<1>a. Same => UNCHANGED Fifo!vars
  BY DEF Calls, Fifo!vars
<1>1. ASSUME NEW t \in Threads, CallPush(t) PROVE Fifo!Start(t)
  <2>1. PICK e \in Elements : Go(t, "idle", "push") /\ Holds(t, e) /\ UNCHANGED <<queue, ended>>
    BY <1>1 DEF CallPush
  <2>2. CallOf(t) = Fifo!NoCall /\ CallOf(t)' = Fifo!Putting(e)
    BY <1>0, <2>1 DEF Go, Holds, CallOf, Fifo!NoCall, Fifo!Putting
  <2>3. Fifo!Moves(t, Fifo!NoCall, Fifo!Putting(e))
    BY <1>0, <2>1, <2>2, OthersStay, OneCallMoves DEF Go, Holds
  <2> QED
    BY <2>1, <2>3 DEF Fifo!Start
<1>2. ASSUME NEW t \in Threads, CallPop(t) \/ CallEnd(t) PROVE Fifo!Start(t)
  <2>1. CallOf(t) = Fifo!NoCall /\ CallOf(t)' \in {Fifo!Taking, Fifo!Closing}
    BY <1>0, <1>2 DEF CallPop, CallEnd, Go, CallOf, Fifo!NoCall, Fifo!Taking, Fifo!Closing
  <2>2. \A u \in Threads \ {t} : CallOf(u)' = CallOf(u)
    BY <1>0, <1>2, OthersStay DEF CallPop, CallEnd, Go
  <2>3. Fifo!Moves(t, Fifo!NoCall, Fifo!Taking) \/ Fifo!Moves(t, Fifo!NoCall, Fifo!Closing)
    BY <2>1, <2>2, OneCallMoves
  <2> QED
    BY <1>2, <2>3 DEF Fifo!Start, CallPop, CallEnd
<1>3. ASSUME NEW t \in Threads, PushWait(t) \/ PopWait(t) \/ Spurious(t) PROVE Same
  <2>1. CallOf(t)' = CallOf(t)
    BY <1>0, <1>3 DEF PushWait, PopWait, Spurious, Go, CallOf
  <2>2. \A u \in Threads \ {t} : CallOf(u)' = CallOf(u)
    BY <1>0, <1>3, OthersStay DEF PushWait, PopWait, Spurious, Go
  <2> QED
    BY <1>3, <2>1, <2>2, NoCallMoves DEF PushWait, PopWait, Spurious
<1>4. ASSUME NEW t \in Threads, PushStore(t) PROVE Fifo!Put(t)
  <2>1. val[t] \in Elements
    BY <1>0, <1>4 DEF PushStore, Go
  <2>2. CallOf(t) = Fifo!Putting(val[t]) /\ CallOf(t)' = Fifo!PutDone
    BY <1>0, <1>4 DEF PushStore, Go, Holds, CallOf, Fifo!Putting, Fifo!PutDone
  <2>3. Fifo!Moves(t, Fifo!Putting(val[t]), Fifo!PutDone)
    BY <1>0, <1>4, <2>2, OthersStay, OneCallMoves DEF PushStore, Go, Holds
  <2> QED
    BY <1>4, <2>1, <2>3 DEF Fifo!Put, PushStore, HasSpace
<1>5. ASSUME NEW t \in Threads, PushThrow(t) PROVE Fifo!Fail(t)
  <2>1. val[t] \in Elements
    BY <1>0, <1>5 DEF PushThrow, Go
  <2>2. CallOf(t) = Fifo!Putting(val[t]) /\ CallOf(t)' = Fifo!Failed
    BY <1>0, <1>5 DEF PushThrow, Go, Holds, CallOf, Fifo!Putting, Fifo!Failed
  <2>3. Fifo!Moves(t, Fifo!Putting(val[t]), Fifo!Failed)
    BY <1>0, <1>5, <2>2, OthersStay, OneCallMoves DEF PushThrow, Go, Holds
  <2> QED
    BY <1>5, <2>1, <2>3 DEF Fifo!Fail, PushThrow
<1>6. ASSUME NEW t \in Threads, PushNotify(t) PROVE Fifo!Return(t)
  <2>1. pc'[t] = "idle" /\ \A u \in Threads \ {t} : CallOf(u)' = CallOf(u)
    BY <1>0, <1>6, OthersNotified DEF PushNotify
  <2>2. CallOf(t) = Fifo!PutDone /\ CallOf(t)' = Fifo!NoCall
    BY <1>6, <2>1 DEF PushNotify, CallOf, Fifo!PutDone, Fifo!NoCall
  <2>3. Fifo!Moves(t, Fifo!PutDone, Fifo!NoCall)
    BY <2>1, <2>2, OneCallMoves
  <2> QED
    BY <1>6, <2>3 DEF Fifo!Return, PushNotify
<1>7. ASSUME NEW t \in Threads, EndSet(t) PROVE Fifo!Close(t)
  <2>1. CallOf(t) = Fifo!Closing /\ CallOf(t)' = Fifo!CloseDone
    BY <1>0, <1>7 DEF EndSet, Go, CallOf, Fifo!Closing, Fifo!CloseDone
  <2>2. Fifo!Moves(t, Fifo!Closing, Fifo!CloseDone)
    BY <1>0, <1>7, <2>1, OthersStay, OneCallMoves DEF EndSet, Go
  <2> QED
    BY <1>7, <2>2 DEF Fifo!Close, EndSet
<1>8. ASSUME NEW t \in Threads, EndNotify(t) PROVE Fifo!Return(t)
  <2>1. ASSUME NEW u \in Threads \ {t} PROVE CallOf(u)' = CallOf(u)
    <3>1. /\ val'[u] = val[u]
          /\ pc'[u] = pc[u] \/ (pc[u] = "waitPop" /\ pc'[u] = "pop")
      BY <1>8 DEF EndNotify, NotifyAll
    <3> QED
      BY <3>1, SameCall, WokenSameCall
  <2>2. CallOf(t) = Fifo!CloseDone /\ CallOf(t)' = Fifo!NoCall
    BY <1>8 DEF EndNotify, NotifyAll, CallOf, Fifo!CloseDone, Fifo!NoCall
  <2>3. Fifo!Moves(t, Fifo!CloseDone, Fifo!NoCall)
    BY <2>1, <2>2, OneCallMoves
  <2> QED
    BY <1>8, <2>3 DEF Fifo!Return, EndNotify
<1>9. ASSUME NEW t \in Threads, PopEmpty(t) PROVE Fifo!TakeNothing(t)
  <2>1. CallOf(t) = Fifo!Taking /\ CallOf(t)' = Fifo!NoCall
    BY <1>0, <1>9 DEF PopEmpty, Go, CallOf, Fifo!Taking, Fifo!NoCall
  <2>2. Fifo!Moves(t, Fifo!Taking, Fifo!NoCall)
    BY <1>0, <1>9, <2>1, OthersStay, OneCallMoves DEF PopEmpty, Go
  <2> QED
    BY <1>9, <2>2 DEF Fifo!TakeNothing, PopEmpty
<1>10. ASSUME NEW t \in Threads, PopTake(t) PROVE Fifo!Take(t)
  <2>1. CallOf(t) = Fifo!Taking /\ CallOf(t)' = Fifo!Taken(Head(queue))
    BY <1>0, <1>10 DEF PopTake, Go, Holds, CallOf, Fifo!Taking, Fifo!Taken
  <2>2. Fifo!Moves(t, Fifo!Taking, Fifo!Taken(Head(queue)))
    BY <1>0, <1>10, <2>1, OthersStay, OneCallMoves DEF PopTake, Go, Holds
  <2> QED
    BY <1>10, <2>2 DEF Fifo!Take, PopTake
<1>11. ASSUME NEW t \in Threads, PopThrow(t) PROVE Fifo!Fail(t)
  <2>1. CallOf(t) = Fifo!Taking /\ CallOf(t)' = Fifo!Failed
    BY <1>0, <1>11 DEF PopThrow, Go, CallOf, Fifo!Taking, Fifo!Failed
  <2>2. Fifo!Moves(t, Fifo!Taking, Fifo!Failed)
    BY <1>0, <1>11, <2>1, OthersStay, OneCallMoves DEF PopThrow, Go
  <2> QED
    BY <1>11, <2>2 DEF Fifo!Fail, PopThrow
<1>12. ASSUME NEW t \in Threads, PopNotify(t) PROVE Fifo!Return(t)
  <2>1. pc'[t] = "idle" /\ \A u \in Threads \ {t} : CallOf(u)' = CallOf(u)
    BY <1>0, <1>12, OthersNotified DEF PopNotify, Holds
  <2>2. CallOf(t) = Fifo!Taken(val[t]) /\ CallOf(t)' = Fifo!NoCall
    BY <1>12, <2>1 DEF PopNotify, CallOf, Fifo!Taken, Fifo!NoCall
  <2>3. Fifo!Moves(t, Fifo!Taken(val[t]), Fifo!NoCall)
    BY <2>1, <2>2, OneCallMoves
  <2>4. val[t] \in Elements
    BY <1>0, <1>12 DEF PopNotify
  <2> QED
    BY <1>12, <2>3, <2>4 DEF Fifo!Return, PopNotify
<1>13. ASSUME NEW t \in Threads, Unwind(t) PROVE Fifo!Return(t)
  <2>1. CallOf(t) = Fifo!Failed /\ CallOf(t)' = Fifo!NoCall
    BY <1>0, <1>13 DEF Unwind, Go, CallOf, Fifo!Failed, Fifo!NoCall
  <2>2. Fifo!Moves(t, Fifo!Failed, Fifo!NoCall)
    BY <1>0, <1>13, <2>1, OthersStay, OneCallMoves DEF Unwind, Go
  <2> QED
    BY <1>13, <2>2 DEF Fifo!Return, Unwind
<1>14. CASE UNCHANGED vars
  BY <1>14, NoCallMoves, <1>a DEF vars, CallOf
<1> QED
  BY <1>a, <1>1, <1>2, <1>3, <1>4, <1>5, <1>6, <1>7, <1>8, <1>9, <1>10, <1>11,
     <1>12, <1>13, <1>14 DEF Next, Step, Fifo!Next

\* The queue with its mutex, wait sets and notifications implements the
\* abstract bounded queue in which every call takes effect at one instant.
THEOREM ImplementsClosableFifo == Spec => Linearizable
<1>1. Init => Fifo!Init
  BY DEF Init, Fifo!Init, Fifo!NoCall, CallOf
<1> QED
  BY <1>1, RefinementStep, TypeCorrect, PTL DEF Spec, Linearizable, Fifo!Spec
=============================================================================
