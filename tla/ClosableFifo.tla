---------------------------- MODULE ClosableFifo ----------------------------
(* What kae::ConsumeQueue promises its callers: a first-in first-out queue    *)
(* of at most MaxSize elements whose calls each take effect at one instant    *)
(* between their start and their return, and which, once closed, answers a    *)
(* taker with "nothing" exactly when there is nothing left.  No locks, no     *)
(* waiting and no notifications appear here.                                  *)
EXTENDS Naturals, Sequences

CONSTANTS Threads, Elements, MaxSize,
          MayFail   \* a put or a take may fail

VARIABLES fifo,    \* the elements put and not yet taken, oldest first
          closed,  \* a close has taken effect
          call     \* what each thread is in the middle of

vars == <<fifo, closed, call>>

NoCall     == [op |-> "none"]
Putting(e) == [op |-> "put", element |-> e]
PutDone    == [op |-> "putDone"]
Taking     == [op |-> "take"]
Taken(e)   == [op |-> "taken", element |-> e]
Closing    == [op |-> "close"]
CloseDone  == [op |-> "closeDone"]
Failed     == [op |-> "failed"]

Moves(t, from, to) == call[t] = from /\ call' = [call EXCEPT ![t] = to]

Init == fifo = <<>> /\ closed = FALSE /\ call = [t \in Threads |-> NoCall]

Start(t) == /\ \/ \E e \in Elements : Moves(t, NoCall, Putting(e))
               \/ Moves(t, NoCall, Taking)
               \/ Moves(t, NoCall, Closing)
            /\ UNCHANGED <<fifo, closed>>

Put(t) == \E e \in Elements :
    /\ Len(fifo) < MaxSize
    /\ Moves(t, Putting(e), PutDone)
    /\ fifo' = Append(fifo, e)
    /\ UNCHANGED closed

Take(t) == /\ fifo # <<>>
           /\ Moves(t, Taking, Taken(Head(fifo)))
           /\ fifo' = Tail(fifo)
           /\ UNCHANGED closed

\* The taker leaves with nothing: only a closed and empty queue answers so.
TakeNothing(t) == /\ closed /\ fifo = <<>>
                  /\ Moves(t, Taking, NoCall)
                  /\ UNCHANGED <<fifo, closed>>

Close(t) == /\ Moves(t, Closing, CloseDone)
            /\ closed' = TRUE
            /\ UNCHANGED fifo

Return(t) == /\ \/ Moves(t, PutDone, NoCall)
                \/ Moves(t, CloseDone, NoCall)
                \/ Moves(t, Failed, NoCall)
                \/ \E e \in Elements : Moves(t, Taken(e), NoCall)
             /\ UNCHANGED <<fifo, closed>>

\* A put or a take that fails has no effect on the queue.
Fail(t) == /\ MayFail
           /\ \/ \E e \in Elements : Moves(t, Putting(e), Failed)
              \/ Moves(t, Taking, Failed)
           /\ UNCHANGED <<fifo, closed>>

Next == \E t \in Threads : \/ Start(t) \/ Put(t) \/ Take(t) \/ TakeNothing(t)
                           \/ Close(t) \/ Return(t) \/ Fail(t)

Spec == Init /\ [][Next]_vars
=============================================================================
