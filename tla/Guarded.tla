-------------------------------- MODULE Guarded --------------------------------
(* kae::Guarded (include/kae/guarded.h): a value that is reached through handles, *)
(* which own the lock of its mutex.  Threads keep handles in variables, move them *)
(* between these, assign over them and drop them.  An update through a handle is  *)
(* a read and a write, as ++*handle is.                                           *)
EXTENDS Integers, LockingThreads

CONSTANTS
    Cells,      \* the Guarded objects, numbered in the order in which threads lock
    Variables,  \* the handle variables of a thread
    Modulus     \* bound: values are counted modulo Modulus

ASSUME CellsAssumption   == Cells \subseteq Nat /\ IsFiniteSet(Variables)
ASSUME NobodyAssumption  == Nobody \notin Cells \cup Variables
ASSUME ModulusAssumption == Modulus \in Nat \ {0, 1}

VARIABLES
    owner,   \* of the mutex of each object
    handle,  \* native_ and lock_ of the handle variables of each thread
    good,    \* history: the variables whose handle a lock or try_lock made, wherever it was moved
    want,    \* the object whose lock() a thread is in, and the variable it is for
    value,   \* native_ of each object
    update,  \* the variable and the value read by a thread between its read and its write
    done     \* history: the updates of each object

guardedVars == <<owner, handle, good, want, value, update, done>>

NoHandle   == [native |-> Nobody, lock |-> Nobody]
NotLocking == [cell |-> Nobody, to |-> Nobody]
NoUpdate   == [through |-> Nobody, seen |-> 0]

GuardedInit ==
    /\ owner = [c \in Cells |-> Nobody]
    /\ handle = [t \in Threads |-> [v \in Variables |-> NoHandle]]
    /\ good = [t \in Threads |-> {}]
    /\ want = [t \in Threads |-> NotLocking]
    /\ value = [c \in Cells |-> 0]
    /\ update = [t \in Threads |-> NoUpdate]
    /\ done = [c \in Cells |-> 0]

\* A thread that is in no lock() and between no read and write.
Free(t) == want[t] = NotLocking /\ update[t] = NoUpdate

Holding(t) == {handle[t][v].lock : v \in Variables} \ {Nobody}

\* The owners after t has unlocked what the variable v held.
Unlocked(t, v) == [c \in Cells |-> IF c = handle[t][v].lock THEN Nobody ELSE owner[c]]

Becomes(t, v, h) == handle' = [handle EXCEPT ![t][v] = h]
-----------------------------------------------------------------------------
\* The program calls lock() in the order of Cells: in another order its threads
\* could wait for each other, and no Guarded would be to blame.
CallLock(t, v, c) == /\ Free(t) /\ \A d \in Holding(t) : d < c
                     /\ want' = [want EXCEPT ![t] = [cell |-> c, to |-> v]]
                     /\ UNCHANGED <<owner, handle, good, value, update, done>>

\* Mutant of AssignLocked: what the variable held stays locked.
AssignLockedOver(t, v, c) == /\ owner' = [owner EXCEPT ![c] = t]
                             /\ Becomes(t, v, [native |-> c, lock |-> c])
                             /\ good' = [good EXCEPT ![t] = @ \cup {v}]

\* The handle with the lock of c is moved into v: the handle that was there is
\* unlocked after the new one was locked.
AssignLocked(t, v, c) == /\ owner' = [Unlocked(t, v) EXCEPT ![c] = t]
                         /\ Becomes(t, v, [native |-> c, lock |-> c])
                         /\ good' = [good EXCEPT ![t] = @ \cup {v}]

LockReturns(t) == /\ want[t] # NotLocking /\ owner[want[t].cell] = Nobody
                  /\ AssignLocked(t, want[t].to, want[t].cell)
                  /\ want' = [want EXCEPT ![t] = NotLocking]
                  /\ UNCHANGED <<value, update, done>>

\* Mutant of TryLock: the handle is returned whether the mutex was locked or not.
TryLockAlways(t, v, c) ==
    /\ Free(t)
    /\ IF owner[c] = Nobody THEN AssignLocked(t, v, c)
       ELSE /\ Becomes(t, v, [native |-> c, lock |-> Nobody])
            /\ good' = [good EXCEPT ![t] = @ \cup {v}]
            /\ owner' = Unlocked(t, v)
    /\ UNCHANGED <<want, value, update, done>>

\* try_lock() that succeeds; it may fail at any time, which changes nothing.
TryLock(t, v, c) == /\ Free(t) /\ owner[c] = Nobody
                    /\ AssignLocked(t, v, c)
                    /\ UNCHANGED <<want, value, update, done>>

\* A moved-from handle keeps its pointer and has no lock.
MovedFrom(h) == [h EXCEPT !.lock = Nobody]

\* The implicit move assignment, between two variables.
MoveHandle(t, v, w) ==
    /\ Free(t) /\ v # w
    /\ owner' = Unlocked(t, v)
    /\ handle' = [handle EXCEPT ![t][v] = handle[t][w], ![t][w] = MovedFrom(@)]
    /\ good' = [good EXCEPT ![t] = (@ \ {v, w}) \cup (IF w \in @ THEN {v} ELSE {})]
    /\ UNCHANGED <<want, value, update, done>>

DropHandle(t, v) ==
    /\ Free(t) /\ handle[t][v] # NoHandle
    /\ owner' = Unlocked(t, v)
    /\ Becomes(t, v, NoHandle)
    /\ good' = [good EXCEPT ![t] = @ \ {v}]
    /\ UNCHANGED <<want, value, update, done>>

\* operator* does not look at the lock: the program uses the handles it was given
\* and not those it has moved from.
Read(t, v) == /\ Free(t) /\ v \in good[t]
              /\ update' = [update EXCEPT ![t] =
                                [through |-> v, seen |-> value[handle[t][v].native]]]
              /\ UNCHANGED <<owner, handle, good, want, value, done>>

Write(t) ==
    /\ update[t] # NoUpdate
    /\ LET c == handle[t][update[t].through].native
       IN /\ value' = [value EXCEPT ![c] = (update[t].seen + 1) % Modulus]
          /\ done' = [done EXCEPT ![c] = (@ + 1) % Modulus]
    /\ update' = [update EXCEPT ![t] = NoUpdate]
    /\ UNCHANGED <<owner, handle, good, want>>

GuardedStep(t) == \/ LockReturns(t) \/ Write(t)
                  \/ \E v \in Variables : \/ DropHandle(t, v) \/ Read(t, v)
                                          \/ \E w \in Variables : MoveHandle(t, v, w)
                  \/ \E v \in Variables, c \in Cells : CallLock(t, v, c) \/ TryLock(t, v, c)
-----------------------------------------------------------------------------
(* Properties                                                                   *)

\* Every variable has its type.
GuardedTypeOK ==
    /\ owner \in [Cells -> Threads \cup {Nobody}]
    /\ handle \in [Threads -> [Variables -> [native : Cells \cup {Nobody},
                                             lock : Cells \cup {Nobody}]]]
    /\ good \in [Threads -> SUBSET Variables]
    /\ want \in [Threads -> [cell : Cells \cup {Nobody}, to : Variables \cup {Nobody}]]
    /\ value \in [Cells -> 0 .. Modulus - 1] /\ done \in [Cells -> 0 .. Modulus - 1]
    /\ update \in [Threads -> [through : Variables \cup {Nobody}, seen : 0 .. Modulus - 1]]

\* With the types: a mutex is locked exactly while one handle owns it, so that no move, assignment
\* over a handle or failed try_lock leaves it locked for ever or unlocked under a
\* handle; and a handle that was not moved from has the lock of what it points to.
LockedByOneHandle ==
    /\ GuardedTypeOK
    /\ \A c \in Cells, t \in Threads :
          Cardinality({v \in Variables : handle[t][v].lock = c})
              = IF owner[c] = t THEN 1 ELSE 0
    /\ \A t \in Threads, v \in Variables :
          v \in good[t] => handle[t][v].native = handle[t][v].lock

\* No update through a handle is lost, whatever other threads and other handles do
\* between its read and its write.
NoLostUpdate == value = done
=============================================================================
