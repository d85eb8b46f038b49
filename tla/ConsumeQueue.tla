---------------------------- MODULE ConsumeQueue ----------------------------
(* kae::ConsumeQueue (include/kae/consume_queue.h): a bounded blocking queue  *)
(* guarded by one mutex and two condition variables.                          *)
(*                                                                            *)
(* A critical section of mutex_ is one step: nothing it reads or writes is    *)
(* touched outside the mutex.  A thread in a wait set is one that             *)
(* condition_variable::wait has put to sleep; waking it sends it back to the  *)
(* evaluation of its predicate ("push" or "pop"), which is where a thread     *)
(* also stands when it is about to lock the mutex for the first time.  The    *)
(* notifications come after the unlock and are steps of their own.  Any       *)
(* thread may make any call, at any time, any number of times.                *)
EXTENDS Naturals, Sequences, FiniteSets

CONSTANTS
    Threads,    \* the threads that share the queue
    Elements,   \* what they push
    NoElement,  \* an empty std::optional
    MaxSize,    \* max_size_
    MayThrow    \* moving an element, or storing it, may throw

ASSUME ThreadsAssumption  == IsFiniteSet(Threads)
ASSUME ElementsAssumption == NoElement \notin Elements
ASSUME MaxSizeAssumption  == MaxSize \in Nat
ASSUME MayThrowAssumption == MayThrow \in BOOLEAN

VARIABLES
    queue,  \* queue_
    ended,  \* ended_
    pc,     \* where each thread is
    val,    \* push's argument, or the element pop is about to return
    thrown  \* history: some push or pop has thrown

vars == <<queue, ended, pc, val, thrown>>

Locations == {"idle", "push", "waitPush", "notifyPop", "pop", "waitPop",
              "notifyPush", "end", "notifyAll", "throw"}

At(l) == {t \in Threads : pc[t] = l}

Go(t, from, to)      == pc[t] = from /\ pc' = [pc EXCEPT ![t] = to]
Holds(t, v)          == val' = [val EXCEPT ![t] = v]

\* condition_variable::notify_one by t, which then returns: one sleeper, any
\* of them, evaluates its predicate again; without a sleeper nothing happens.
NotifyOne(t, waiting, awake) ==
    IF At(waiting) = {}
      THEN pc' = [pc EXCEPT ![t] = "idle"]
      ELSE \E w \in At(waiting) :
             pc' = [pc EXCEPT ![t] = "idle", ![w] = awake]

\* condition_variable::notify_all by t, which then returns.
NotifyAll(t, waiting, awake) ==
    pc' = [u \in Threads |-> IF u = t THEN "idle"
                             ELSE IF pc[u] = waiting THEN awake ELSE pc[u]]

\* Mutant of HasSpace: off by one.
HasSpaceOffByOne == Len(queue) <= MaxSize

\* Mutant of Available: end() is forgotten.
AvailableUnlessEnded == queue # <<>>

HasSpace   == Len(queue) < MaxSize
Available  == ended \/ queue # <<>>

Init == /\ queue = <<>>
        /\ ended = FALSE
        /\ pc  = [t \in Threads |-> "idle"]
        /\ val = [t \in Threads |-> NoElement]
        /\ thrown = FALSE
-----------------------------------------------------------------------------
(* Mutants: slips that the properties below must catch.                       *)

\* Notify only the push that makes the queue non-empty.
PushNotifyFirst(t) == /\ pc[t] = "notifyPop"
                      /\ IF Len(queue) <= 1 THEN NotifyOne(t, "waitPop", "pop")
                                            ELSE pc' = [pc EXCEPT ![t] = "idle"]
                      /\ UNCHANGED <<queue, ended, val, thrown>>

\* Notify the wrong condition variable.
PushNotifyPush(t) == /\ pc[t] = "notifyPop"
                     /\ NotifyOne(t, "waitPush", "push")
                     /\ UNCHANGED <<queue, ended, val, thrown>>

PushSilent(t) == Go(t, "notifyPop", "idle") /\ UNCHANGED <<queue, ended, val, thrown>>

\* notify_one where notify_all is needed.
EndNotifyOne(t) == /\ pc[t] = "notifyAll"
                   /\ NotifyOne(t, "waitPop", "pop")
                   /\ UNCHANGED <<queue, ended, val, thrown>>

\* An ended queue is taken for an empty one.
PopEmptyWhenEnded(t) == /\ ended
                        /\ Go(t, "pop", "idle")
                        /\ UNCHANGED <<queue, ended, val, thrown>>

\* Notify only the pop that makes a full queue not full.
PopNotifyFull(t) == /\ pc[t] = "notifyPush"
                    /\ IF Len(queue) >= MaxSize - 1
                         THEN NotifyOne(t, "waitPush", "push")
                         ELSE pc' = [pc EXCEPT ![t] = "idle"]
                    /\ Holds(t, NoElement)
                    /\ UNCHANGED <<queue, ended, thrown>>

PopSilent(t) == /\ Go(t, "notifyPush", "idle")
                /\ Holds(t, NoElement)
                /\ UNCHANGED <<queue, ended, thrown>>
-----------------------------------------------------------------------------
(* push(element)                                                              *)

CallPush(t) == \E e \in Elements :
    Go(t, "idle", "push") /\ Holds(t, e) /\ UNCHANGED <<queue, ended, thrown>>

PushWait(t) == /\ ~HasSpace
               /\ Go(t, "push", "waitPush")
               /\ UNCHANGED <<queue, ended, val, thrown>>

PushStore(t) == /\ HasSpace
                /\ Go(t, "push", "notifyPop")
                /\ queue' = Append(queue, val[t])
                /\ Holds(t, NoElement)
                /\ UNCHANGED <<ended, thrown>>

\* queue_.push throws: the lock is released and the notification skipped.
PushThrow(t) == /\ MayThrow /\ HasSpace
                /\ Go(t, "push", "throw")
                /\ Holds(t, NoElement)
                /\ thrown' = TRUE
                /\ UNCHANGED <<queue, ended>>

PushNotify(t) == /\ pc[t] = "notifyPop"
                 /\ NotifyOne(t, "waitPop", "pop")
                 /\ UNCHANGED <<queue, ended, val, thrown>>
-----------------------------------------------------------------------------
(* end()                                                                      *)

CallEnd(t) == Go(t, "idle", "end") /\ UNCHANGED <<queue, ended, val, thrown>>

EndSet(t) == /\ Go(t, "end", "notifyAll")
             /\ ended' = TRUE
             /\ UNCHANGED <<queue, val, thrown>>

EndNotify(t) == /\ pc[t] = "notifyAll"
                /\ NotifyAll(t, "waitPop", "pop")
                /\ UNCHANGED <<queue, ended, val, thrown>>
-----------------------------------------------------------------------------
(* pop()                                                                      *)

CallPop(t) == Go(t, "idle", "pop") /\ UNCHANGED <<queue, ended, val, thrown>>

PopWait(t) == /\ ~Available
              /\ Go(t, "pop", "waitPop")
              /\ UNCHANGED <<queue, ended, val, thrown>>

PopEmpty(t) == /\ ended /\ queue = <<>>
               /\ Go(t, "pop", "idle")
               /\ UNCHANGED <<queue, ended, val, thrown>>

PopTake(t) == /\ queue # <<>>
              /\ Go(t, "pop", "notifyPush")
              /\ Holds(t, Head(queue))
              /\ queue' = Tail(queue)
              /\ UNCHANGED <<ended, thrown>>

\* The move out of queue_.front() throws: the element stays where it is, the
\* lock is released and the notification skipped.
PopThrow(t) == /\ MayThrow /\ queue # <<>>
               /\ Go(t, "pop", "throw")
               /\ thrown' = TRUE
               /\ UNCHANGED <<queue, ended, val>>

PopNotify(t) == /\ pc[t] = "notifyPush"
                /\ NotifyOne(t, "waitPush", "push")
                /\ Holds(t, NoElement)
                /\ UNCHANGED <<queue, ended, thrown>>
-----------------------------------------------------------------------------
\* The caller receives the exception.
Unwind(t) == Go(t, "throw", "idle") /\ UNCHANGED <<queue, ended, val, thrown>>

\* condition_variable::wait may return without a notification.
Spurious(t) == /\ Go(t, "waitPush", "push") \/ Go(t, "waitPop", "pop")
               /\ UNCHANGED <<queue, ended, val, thrown>>

\* What t does by itself once it is inside a call.
Step(t) == \/ PushWait(t) \/ PushStore(t) \/ PushNotify(t)
           \/ EndSet(t) \/ EndNotify(t)
           \/ PopWait(t) \/ PopEmpty(t) \/ PopTake(t) \/ PopNotify(t)
           \/ Unwind(t)

Next == \E t \in Threads : \/ CallPush(t) \/ CallEnd(t) \/ CallPop(t)
                           \/ Step(t)
                           \/ PushThrow(t) \/ PopThrow(t) \/ Spurious(t)

Spec == Init /\ [][Next]_vars

\* A thread inside a call goes on; no thread has to make a call, to throw or
\* to wake up by itself.
Fairness == \A t \in Threads : WF_vars(Step(t))

FairSpec == Spec /\ Fairness
-----------------------------------------------------------------------------
(* Properties                                                                 *)

\* Every variable has its type, the queue never exceeds max_size_, and only a
\* push in progress or a finished pop carries an element.
TypeOK ==
    /\ queue \in Seq(Elements) /\ Len(queue) <= MaxSize
    /\ ended \in BOOLEAN
    /\ pc \in [Threads -> Locations]
    /\ val \in [Threads -> Elements \cup {NoElement}]
    /\ thrown \in BOOLEAN
    /\ \A t \in Threads :
         val[t] # NoElement <=> pc[t] \in {"push", "waitPush", "notifyPush"}

\* While a thread sleeps in pop, every queued element is accounted for: some
\* other thread is about to notify or about to take, one per element.  This
\* is what one notify_one per push must guarantee (lines 55 and 73).
NoLostPopWakeup ==
    ~thrown /\ At("waitPop") # {} =>
        Cardinality(At("notifyPop") \cup At("pop")) >= Len(queue)

\* "Blocks until an element is available" (line 25): no thread sleeps in pop
\* beside an available element that nobody is about to offer or to take.
PopBlocksOnlyUntilAvailable ==
    At("waitPop") # {} /\ queue # <<>> =>
        At("notifyPop") \cup At("pop") \cup At("notifyAll") # {}

\* While a thread sleeps in push, every free slot is accounted for: one other
\* thread per slot is about to notify or about to store (lines 50 and 83).
NoLostPushWakeup ==
    ~thrown /\ At("waitPush") # {} =>
        Cardinality(At("notifyPush") \cup At("push")) >= MaxSize - Len(queue)

\* After end() no thread sleeps in pop, unless the thread that ended the queue
\* has yet to notify (lines 60 to 65).
EndWakesPop == ended /\ At("waitPop") # {} => At("notifyAll") # {}

\* The two sides never put each other to sleep: when everyone sleeps, everyone
\* waits for the same thing.  max_size_ = 0 leaves pushers nothing to hope for.
NoMutualSleep ==
    /\ ~thrown /\ MaxSize > 0
    /\ (\A t \in Threads : pc[t] \in {"waitPush", "waitPop"})
    => At("waitPush") = {} \/ At("waitPop") = {}

\* Every call takes effect at one instant, in first-in first-out order.
CallOf(t) ==
    CASE pc[t] = "idle"                  -> [op |-> "none"]
      [] pc[t] \in {"push", "waitPush"}  -> [op |-> "put", element |-> val[t]]
      [] pc[t] = "notifyPop"             -> [op |-> "putDone"]
      [] pc[t] \in {"pop", "waitPop"}    -> [op |-> "take"]
      [] pc[t] = "notifyPush"            -> [op |-> "taken", element |-> val[t]]
      [] pc[t] = "end"                   -> [op |-> "close"]
      [] pc[t] = "notifyAll"             -> [op |-> "closeDone"]
      [] pc[t] = "throw"                 -> [op |-> "failed"]

Fifo == INSTANCE ClosableFifo
            WITH fifo <- queue, closed <- ended, MayFail <- MayThrow,
                 call <- [t \in Threads |-> CallOf(t)]

\* The queue with its locks, waits and notifications implements ClosableFifo.
Linearizable == Fifo!Spec

Popping(t) == pc[t] \in {"pop", "waitPop"}
Pushing(t) == pc[t] \in {"push", "waitPush"}

\* "Blocks until an element is available": elements and threads that want
\* them do not stay side by side for ever without one being taken.
PopProgress ==
    <>[](~thrown /\ queue # <<>> /\ \E t \in Threads : Popping(t))
        => []<><<\E t \in Threads : PopTake(t)>>_vars

\* "Blocks until there is space": free slots and threads that want them do
\* not stay side by side for ever without one being used.
PushProgress ==
    <>[](~thrown /\ HasSpace /\ \E t \in Threads : Pushing(t))
        => []<><<\E t \in Threads : PushStore(t)>>_vars

\* "Make pop() non-blocking": after end() every pop returns.
EndUnblocksPop ==
    \A t \in Threads : (ended /\ Popping(t)) ~> ~Popping(t)
=============================================================================
