------------------------------ MODULE LocksProofs ------------------------------
(* Theorems about Locks, for any finite set of threads, any objects, variables,  *)
(* tags and levels: a mutex is locked exactly while one handle owns it, no       *)
(* update through a handle is lost, and the levels are read consistently.        *)
EXTENDS Locks, FiniteSetTheorems, TLAPS

-------------------------------------------------------------------------------
(* Handles.  LockedByOneHandle counts handles; Owned says the same without       *)
(* counting, and more: the lock of a handle is that of its own thread, and a     *)
(* handle that was not moved from points to an object.                           *)

Owned ==
    /\ \A t \in Threads, v \in Variables :
          handle[t][v].lock # Nobody => owner[handle[t][v].lock] = t
    /\ \A t \in Threads, c \in Cells :
          owner[c] = t => \E v \in Variables : handle[t][v].lock = c
    /\ \A t \in Threads : \A v, w \in Variables :
          handle[t][v].lock = handle[t][w].lock /\ handle[t][v].lock # Nobody => v = w
    /\ \A t \in Threads : \A v \in good[t] :
          handle[t][v].native = handle[t][v].lock /\ handle[t][v].lock # Nobody

\* A thread is in lock() for some object and variable, or in an update through a
\* handle that was not moved from, or in neither; never in both.
OneAtATime ==
    \A t \in Threads :
        /\ want[t] = NotLocking \/ (want[t].cell \in Cells /\ want[t].to \in Variables)
        /\ update[t] = NoUpdate \/ (want[t] = NotLocking /\ update[t].through \in good[t])

HandlesInv == GuardedTypeOK /\ Owned /\ OneAtATime

\* What a thread has read through a handle is still the value.
UpdatesFresh ==
    \A t \in Threads : update[t] # NoUpdate =>
        value[handle[t][update[t].through].native] = update[t].seen

\* Readers and the writer exclude each other, and the step of each thread tells
\* which it is; what a call is about stays in what it has seen.
Reads(t)  == step[t] \in {"find", "global"} \/ (step[t] = "unlock" /\ Asks(call[t]))
Writes(t) == step[t] = "set" \/ (step[t] = "unlock" /\ ~Asks(call[t]))

Excluded ==
    /\ \A t \in Threads : (t \in readers <=> Reads(t)) /\ (t \in writer <=> Writes(t))
    /\ readers # {} => writer = {}
    /\ \A s, t \in writer : s = t

StepsFit ==
    \A t \in Threads :
        /\ step[t] = "idle" <=> call[t] = NoCall
        /\ step[t] = "set" => call[t] \in Sets
        /\ step[t] \in {"find", "global"} => Asks(call[t])
        /\ step[t] = "find" => call[t].op # "global_log_level"

Seen ==
    \A t \in Threads : Asks(call[t]) =>
        /\ LevelFor(call[t], global, tags) \in seen[t]
        /\ step[t] = "global" => LevelFor(call[t], global, tags) = global
        /\ step[t] \in {"unlock", "return"} => got[t] \in seen[t]

LevelsInv == LoggingTypeOK /\ Excluded /\ StepsFit /\ Seen
-------------------------------------------------------------------------------
Handles == [native : Cells \cup {Nobody}, lock : Cells \cup {Nobody}]

\* The handle of one variable of one thread becomes another.
LEMMA BecomesPoint ==
    ASSUME GuardedTypeOK, NEW t \in Threads, NEW v \in Variables, NEW h \in Handles,
           Becomes(t, v, h)
    PROVE  /\ handle' \in [Threads -> [Variables -> Handles]]
           /\ \A u \in Threads, w \in Variables :
                 handle'[u][w] = IF u = t /\ w = v THEN h ELSE handle[u][w]
BY DEF GuardedTypeOK, Becomes, Handles

\* The owners after an unlock.
LEMMA UnlockedPoint ==
    ASSUME GuardedTypeOK, NEW t \in Threads, NEW v \in Variables
    PROVE  /\ Unlocked(t, v) \in [Cells -> Threads \cup {Nobody}]
           /\ \A d \in Cells :
                 Unlocked(t, v)[d] = IF d = handle[t][v].lock THEN Nobody ELSE owner[d]
BY DEF GuardedTypeOK, Unlocked

\* A lock that was free becomes that of the variable, and what the variable held
\* is unlocked: every other handle keeps its own.
LEMMA AssignLockedOwned ==
    ASSUME GuardedTypeOK, Owned, NEW t \in Threads, NEW v \in Variables, NEW c \in Cells,
           owner[c] = Nobody, AssignLocked(t, v, c)
    PROVE  /\ Owned'
           /\ owner' \in [Cells -> Threads \cup {Nobody}]
           /\ handle' \in [Threads -> [Variables -> Handles]]
           /\ good' \in [Threads -> SUBSET Variables]
           /\ \A u \in Threads \ {t} : good'[u] = good[u] /\ handle'[u] = handle[u]
<1> DEFINE h == [native |-> c, lock |-> c]
<1> USE ThreadsAssumption, NobodyAssumption
<1>1. h \in Handles /\ h.native = c /\ h.lock = c /\ c # Nobody
  BY DEF Handles
<1>2. /\ handle' \in [Threads -> [Variables -> Handles]]
      /\ \A u \in Threads, w \in Variables :
            handle'[u][w] = IF u = t /\ w = v THEN h ELSE handle[u][w]
  BY <1>1, BecomesPoint DEF AssignLocked
<1>3. /\ owner' \in [Cells -> Threads \cup {Nobody}]
      /\ \A d \in Cells : owner'[d] = IF d = c THEN t
                                      ELSE IF d = handle[t][v].lock THEN Nobody ELSE owner[d]
  BY UnlockedPoint DEF AssignLocked
<1>4. /\ good' \in [Threads -> SUBSET Variables]
      /\ \A u \in Threads : good'[u] = IF u = t THEN good[t] \cup {v} ELSE good[u]
  BY DEF AssignLocked, GuardedTypeOK
<1>5. \A u \in Threads, w \in Variables : handle[u][w].lock \in Cells \cup {Nobody}
  BY DEF GuardedTypeOK
<1>6. \A u \in Threads, w \in Variables : handle[u][w].lock # c
  BY <1>1, <1>5 DEF Owned
<1> HIDE DEF h
<1>7. ASSUME NEW u \in Threads, NEW w \in Variables, handle'[u][w].lock # Nobody
      PROVE  owner'[handle'[u][w].lock] = u
  <2>1. CASE u = t /\ w = v
    BY <1>1, <1>2, <1>3, <2>1
  <2>2. CASE ~(u = t /\ w = v)
    <3>1. handle'[u][w] = handle[u][w] /\ handle[u][w].lock \in Cells
      BY <1>2, <1>5, <1>7, <2>2
    <3>2. owner[handle[u][w].lock] = u
      BY <1>7, <3>1 DEF Owned
    <3>3. handle[u][w].lock # handle[t][v].lock
      <4> SUFFICES ASSUME handle[u][w].lock = handle[t][v].lock PROVE FALSE
        OBVIOUS
      <4>1. u = t
        BY <3>1, <3>2 DEF Owned
      <4> QED
        BY <2>2, <3>1, <4>1 DEF Owned
    <3> QED
      BY <1>3, <1>6, <3>1, <3>2, <3>3
  <2> QED
    BY <2>1, <2>2
<1>8. ASSUME NEW u \in Threads, NEW d \in Cells, owner'[d] = u
      PROVE  \E w \in Variables : handle'[u][w].lock = d
  <2>1. CASE d = c
    BY <1>1, <1>2, <1>3, <1>8, <2>1
  <2>2. CASE d # c
    <3>1. d # handle[t][v].lock /\ owner[d] = u
      BY <1>3, <1>8, <2>2
    <3>2. PICK w \in Variables : handle[u][w].lock = d
      BY <3>1 DEF Owned
    <3> QED
      BY <1>2, <3>1, <3>2
  <2> QED
    BY <2>1, <2>2
<1>9. ASSUME NEW u \in Threads, NEW w \in Variables, NEW x \in Variables,
             handle'[u][w].lock = handle'[u][x].lock, handle'[u][w].lock # Nobody
      PROVE  w = x
  BY <1>1, <1>2, <1>6, <1>9 DEF Owned
<1>10. ASSUME NEW u \in Threads, NEW w \in good'[u]
       PROVE  handle'[u][w].native = handle'[u][w].lock /\ handle'[u][w].lock # Nobody
  <2>1. w \in Variables
    BY <1>4, <1>10
  <2>2. CASE u = t /\ w = v
    BY <1>1, <1>2, <2>2
  <2>3. CASE ~(u = t /\ w = v)
    <3>1. w \in good[u] /\ handle'[u][w] = handle[u][w]
      BY <1>2, <1>4, <1>10, <2>1, <2>3
    <3> QED
      BY <3>1 DEF Owned
  <2> QED
    BY <2>2, <2>3
<1>11. Owned'
  BY <1>7, <1>8, <1>9, <1>10 DEF Owned
<1>12. \A u \in Threads \ {t} : good'[u] = good[u] /\ handle'[u] = handle[u]
  BY <1>4 DEF AssignLocked, Becomes, GuardedTypeOK
<1> QED
  BY <1>2, <1>3, <1>4, <1>11, <1>12

\* A handle moves between two variables: what the target held is unlocked, and the
\* lock of the source changes its place.
LEMMA MoveOwned ==
    ASSUME GuardedTypeOK, Owned, NEW t \in Threads, NEW v \in Variables, NEW w \in Variables,
           MoveHandle(t, v, w)
    PROVE  /\ Owned'
           /\ owner' \in [Cells -> Threads \cup {Nobody}]
           /\ handle' \in [Threads -> [Variables -> Handles]]
           /\ good' \in [Threads -> SUBSET Variables]
           /\ \A u \in Threads \ {t} : good'[u] = good[u] /\ handle'[u] = handle[u]
<1> USE ThreadsAssumption, NobodyAssumption
<1> DEFINE m == MovedFrom(handle[t][w])
<1>0. v # w
  BY DEF MoveHandle
<1>1. \A u \in Threads, x \in Variables : handle[u][x] \in Handles
                                          /\ handle[u][x].lock \in Cells \cup {Nobody}
  BY DEF GuardedTypeOK, Handles
<1>2. m \in Handles /\ m.lock = Nobody
  BY <1>1 DEF MovedFrom, Handles
<1>3. handle' = [handle EXCEPT ![t][v] = handle[t][w], ![t][w] = m]
  BY <1>0 DEF MoveHandle, GuardedTypeOK
<1> HIDE DEF m
<1>4. /\ handle' \in [Threads -> [Variables -> Handles]]
      /\ \A u \in Threads, x \in Variables :
            handle'[u][x] = IF u # t THEN handle[u][x]
                            ELSE IF x = w THEN m
                            ELSE IF x = v THEN handle[t][w] ELSE handle[t][x]
      /\ \A u \in Threads \ {t} : handle'[u] = handle[u]
  BY <1>1, <1>2, <1>3 DEF GuardedTypeOK, Handles
<1>5. /\ owner' \in [Cells -> Threads \cup {Nobody}]
      /\ \A d \in Cells : owner'[d] = IF d = handle[t][v].lock THEN Nobody ELSE owner[d]
  BY UnlockedPoint DEF MoveHandle
<1>6. /\ good' \in [Threads -> SUBSET Variables]
      /\ \A u \in Threads : good'[u] = IF u = t THEN (good[t] \ {v, w}) \cup
                                                     (IF w \in good[t] THEN {v} ELSE {})
                                       ELSE good[u]
  BY DEF MoveHandle, GuardedTypeOK
<1>7. ASSUME NEW u \in Threads, NEW x \in Variables, handle'[u][x].lock # Nobody
      PROVE  owner'[handle'[u][x].lock] = u
  <2>1. PICK y \in Variables : /\ handle'[u][x] = handle[u][y]
                               /\ u = t => y # v
    BY <1>0, <1>2, <1>4, <1>7
  <2>2. handle[u][y].lock \in Cells /\ owner[handle[u][y].lock] = u
    BY <1>1, <1>7, <2>1 DEF Owned
  <2>3. handle[u][y].lock # handle[t][v].lock
    BY <2>1, <2>2 DEF Owned
  <2> QED
    BY <1>5, <2>1, <2>2, <2>3
<1>8. ASSUME NEW u \in Threads, NEW d \in Cells, owner'[d] = u
      PROVE  \E x \in Variables : handle'[u][x].lock = d
  <2>1. d # handle[t][v].lock /\ owner[d] = u
    BY <1>5, <1>8
  <2>2. PICK y \in Variables : handle[u][y].lock = d
    BY <2>1 DEF Owned
  <2>3. u = t => y # v
    BY <2>1, <2>2
  <2> QED
    BY <1>0, <1>4, <2>2, <2>3
<1>9. ASSUME NEW u \in Threads, NEW x \in Variables, NEW y \in Variables,
             handle'[u][x].lock = handle'[u][y].lock, handle'[u][x].lock # Nobody
      PROVE  x = y
  BY <1>2, <1>4, <1>9 DEF Owned
<1>10. ASSUME NEW u \in Threads, NEW x \in good'[u]
       PROVE  handle'[u][x].native = handle'[u][x].lock /\ handle'[u][x].lock # Nobody
  BY <1>0, <1>4, <1>6, <1>10 DEF Owned, GuardedTypeOK
<1> QED
  BY <1>4, <1>5, <1>6, <1>7, <1>8, <1>9, <1>10 DEF Owned

\* A handle is destroyed: its lock, if it has one, is unlocked.
LEMMA DropOwned ==
    ASSUME GuardedTypeOK, Owned, NEW t \in Threads, NEW v \in Variables, DropHandle(t, v)
    PROVE  /\ Owned'
           /\ owner' \in [Cells -> Threads \cup {Nobody}]
           /\ handle' \in [Threads -> [Variables -> Handles]]
           /\ good' \in [Threads -> SUBSET Variables]
           /\ \A u \in Threads \ {t} : good'[u] = good[u] /\ handle'[u] = handle[u]
<1> USE ThreadsAssumption, NobodyAssumption
<1>1. NoHandle \in Handles /\ NoHandle.lock = Nobody
  BY DEF NoHandle, Handles
<1>2. /\ handle' \in [Threads -> [Variables -> Handles]]
      /\ \A u \in Threads, w \in Variables :
            handle'[u][w] = IF u = t /\ w = v THEN NoHandle ELSE handle[u][w]
  BY <1>1, BecomesPoint DEF DropHandle
<1>3. /\ owner' \in [Cells -> Threads \cup {Nobody}]
      /\ \A d \in Cells : owner'[d] = IF d = handle[t][v].lock THEN Nobody ELSE owner[d]
  BY UnlockedPoint DEF DropHandle
<1>4. /\ good' \in [Threads -> SUBSET Variables]
      /\ \A u \in Threads : good'[u] = IF u = t THEN good[t] \ {v} ELSE good[u]
  BY DEF DropHandle, GuardedTypeOK
<1>5. \A u \in Threads, w \in Variables : handle[u][w].lock \in Cells \cup {Nobody}
  BY DEF GuardedTypeOK
<1>6. ASSUME NEW u \in Threads, NEW w \in Variables, handle'[u][w].lock # Nobody
      PROVE  owner'[handle'[u][w].lock] = u
  <2>1. handle'[u][w] = handle[u][w] /\ ~(u = t /\ w = v) /\ handle[u][w].lock \in Cells
    BY <1>1, <1>2, <1>5, <1>6
  <2>2. owner[handle[u][w].lock] = u
    BY <1>6, <2>1 DEF Owned
  <2>3. handle[u][w].lock # handle[t][v].lock
    BY <1>6, <2>1, <2>2 DEF Owned
  <2> QED
    BY <1>3, <2>1, <2>2, <2>3
<1>7. ASSUME NEW u \in Threads, NEW d \in Cells, owner'[d] = u
      PROVE  \E w \in Variables : handle'[u][w].lock = d
  <2>1. d # handle[t][v].lock /\ owner[d] = u
    BY <1>3, <1>7
  <2>2. PICK w \in Variables : handle[u][w].lock = d
    BY <2>1 DEF Owned
  <2> QED
    BY <1>2, <2>1, <2>2
<1>8. ASSUME NEW u \in Threads, NEW w \in Variables, NEW x \in Variables,
             handle'[u][w].lock = handle'[u][x].lock, handle'[u][w].lock # Nobody
      PROVE  w = x
  BY <1>1, <1>2, <1>8 DEF Owned
<1>9. ASSUME NEW u \in Threads, NEW w \in good'[u]
      PROVE  handle'[u][w].native = handle'[u][w].lock /\ handle'[u][w].lock # Nobody
  <2>1. w \in Variables /\ w \in good[u] /\ ~(u = t /\ w = v)
    BY <1>4, <1>9
  <2>2. handle'[u][w] = handle[u][w]
    BY <1>2, <2>1
  <2> QED
    BY <2>1, <2>2 DEF Owned
<1>10. \A u \in Threads \ {t} : handle'[u] = handle[u]
  BY DEF DropHandle, Becomes, GuardedTypeOK
<1> QED
  BY <1>2, <1>3, <1>4, <1>6, <1>7, <1>8, <1>9, <1>10 DEF Owned

\* The three that assign a handle leave the other threads' handles alone, and the
\* thread that takes the step is in no update.
LEMMA HandleSteps ==
    ASSUME HandlesInv, NEW t \in Threads,
           \/ LockReturns(t)
           \/ \E v \in Variables, c \in Cells : TryLock(t, v, c)
           \/ \E v \in Variables : DropHandle(t, v) \/ \E w \in Variables : MoveHandle(t, v, w)
    PROVE  /\ HandlesInv'
           /\ update[t] = NoUpdate /\ UNCHANGED <<value, update, done>>
           /\ \A u \in Threads \ {t} : handle'[u] = handle[u]
<1> USE DEF HandlesInv
<1> DEFINE Kept == /\ Owned'
                   /\ owner' \in [Cells -> Threads \cup {Nobody}]
                   /\ handle' \in [Threads -> [Variables -> Handles]]
                   /\ good' \in [Threads -> SUBSET Variables]
                   /\ \A u \in Threads \ {t} : good'[u] = good[u] /\ handle'[u] = handle[u]
<1>1. ASSUME LockReturns(t)
      PROVE  /\ Kept /\ update[t] = NoUpdate
             /\ want' = [want EXCEPT ![t] = NotLocking] /\ UNCHANGED <<value, update, done>>
  <2>1. /\ want[t] # NotLocking /\ owner[want[t].cell] = Nobody
        /\ AssignLocked(t, want[t].to, want[t].cell)
        /\ want' = [want EXCEPT ![t] = NotLocking] /\ UNCHANGED <<value, update, done>>
    BY <1>1 DEF LockReturns
  <2>2. want[t].cell \in Cells /\ want[t].to \in Variables /\ update[t] = NoUpdate
    BY <2>1 DEF OneAtATime
  <2>3. PICK c \in Cells, v \in Variables : c = want[t].cell /\ v = want[t].to
    BY <2>2
  <2>4. owner[c] = Nobody /\ AssignLocked(t, v, c)
    BY <2>1, <2>3
  <2>5. Kept
    BY <2>4, AssignLockedOwned
  <2> QED
    BY <2>1, <2>2, <2>5
<1>2. ASSUME NEW v \in Variables, NEW c \in Cells, TryLock(t, v, c)
      PROVE  Kept /\ update[t] = NoUpdate /\ UNCHANGED <<want, value, update, done>>
  BY <1>2, AssignLockedOwned DEF TryLock, Free
<1>3. ASSUME NEW v \in Variables, DropHandle(t, v)
      PROVE  Kept /\ update[t] = NoUpdate /\ UNCHANGED <<want, value, update, done>>
  BY <1>3, DropOwned DEF DropHandle, Free
<1>4. ASSUME NEW v \in Variables, NEW w \in Variables, MoveHandle(t, v, w)
      PROVE  Kept /\ update[t] = NoUpdate /\ UNCHANGED <<want, value, update, done>>
  BY <1>4, MoveOwned DEF MoveHandle, Free
<1>5. /\ Kept /\ update[t] = NoUpdate /\ UNCHANGED <<value, update, done>>
      /\ want' = want \/ want' = [want EXCEPT ![t] = NotLocking]
  BY <1>1, <1>2, <1>3, <1>4
<1>6. /\ want' \in [Threads -> [cell : Cells \cup {Nobody}, to : Variables \cup {Nobody}]]
      /\ \A u \in Threads : want'[u] \in {want[u], NotLocking}
  <2>1. NotLocking \in [cell : Cells \cup {Nobody}, to : Variables \cup {Nobody}]
    BY DEF NotLocking
  <2>2. want \in [Threads -> [cell : Cells \cup {Nobody}, to : Variables \cup {Nobody}]]
    BY DEF GuardedTypeOK
  <2> QED
    BY <1>5, <2>1, <2>2
<1>7. GuardedTypeOK'
  BY <1>5, <1>6 DEF GuardedTypeOK, Handles
<1>8. OneAtATime'
  BY <1>5, <1>6 DEF OneAtATime
<1> QED
  BY <1>5, <1>7, <1>8

\* lock() is called.
LEMMA CallLockStep ==
    ASSUME HandlesInv, NEW t \in Threads, NEW v \in Variables, NEW c \in Cells,
           CallLock(t, v, c)
    PROVE  HandlesInv' /\ UNCHANGED <<handle, value, update, done>>
<1>1. /\ want' = [want EXCEPT ![t] = [cell |-> c, to |-> v]]
      /\ UNCHANGED <<owner, handle, good, value, update, done>>
      /\ update[t] = NoUpdate
  BY DEF CallLock, Free
<1>2. want' \in [Threads -> [cell : Cells \cup {Nobody}, to : Variables \cup {Nobody}]]
  BY <1>1 DEF HandlesInv, GuardedTypeOK
<1>3. GuardedTypeOK' /\ Owned'
  BY <1>1, <1>2 DEF HandlesInv, GuardedTypeOK, Owned
<1>4. \A u \in Threads : want'[u] = IF u = t THEN [cell |-> c, to |-> v] ELSE want[u]
  BY <1>1 DEF HandlesInv, GuardedTypeOK
<1>5. OneAtATime'
  BY <1>1, <1>4 DEF HandlesInv, OneAtATime
<1> QED
  BY <1>1, <1>3, <1>5 DEF HandlesInv

\* A thread that is in an update holds the lock of what it updates.
LEMMA UpdaterOwns ==
    ASSUME HandlesInv, NEW t \in Threads, NEW v \in good[t]
    PROVE  /\ v \in Variables /\ handle[t][v].native \in Cells
           /\ owner[handle[t][v].native] = t
<1>1. v \in Variables /\ handle[t][v].lock \in Cells \cup {Nobody}
  BY DEF HandlesInv, GuardedTypeOK
<1>2. handle[t][v].native = handle[t][v].lock /\ handle[t][v].lock # Nobody
  BY DEF HandlesInv, Owned
<1> QED
  BY <1>1, <1>2 DEF HandlesInv, Owned

LEMMA ReadStep ==
    ASSUME HandlesInv, UpdatesFresh, NEW t \in Threads, NEW v \in Variables, Read(t, v)
    PROVE  HandlesInv' /\ UpdatesFresh' /\ UNCHANGED <<value, done>>
<1> DEFINE c == handle[t][v].native
           r == [through |-> v, seen |-> value[c]]
<1>1. /\ v \in good[t] /\ want[t] = NotLocking
      /\ update' = [update EXCEPT ![t] = r]
      /\ UNCHANGED <<owner, handle, good, want, value, done>>
  BY DEF Read, Free
<1>2. c \in Cells
  BY <1>1, UpdaterOwns
<1>3. value[c] \in 0 .. Modulus - 1
  BY <1>2 DEF HandlesInv, GuardedTypeOK
<1>4. r.through = v /\ r.seen = value[c]
      /\ r \in [through : Variables \cup {Nobody}, seen : 0 .. Modulus - 1]
  BY <1>3
<1> HIDE DEF r
<1>5. /\ update' \in [Threads -> [through : Variables \cup {Nobody}, seen : 0 .. Modulus - 1]]
      /\ \A u \in Threads : update'[u] = IF u = t THEN r ELSE update[u]
  BY <1>1, <1>4 DEF HandlesInv, GuardedTypeOK
<1>6. GuardedTypeOK'
  BY <1>1, <1>5 DEF HandlesInv, GuardedTypeOK
<1>7. Owned'
  BY <1>1 DEF HandlesInv, Owned
<1>8. OneAtATime'
  BY <1>1, <1>4, <1>5 DEF HandlesInv, OneAtATime
<1>9. UpdatesFresh'
  BY <1>1, <1>4, <1>5 DEF UpdatesFresh
<1> QED
  BY <1>1, <1>6, <1>7, <1>8, <1>9 DEF HandlesInv

\* Counting stays below the modulus.
LEMMA Counted ==
    ASSUME NEW n \in 0 .. Modulus - 1
    PROVE  (n + 1) % Modulus \in 0 .. Modulus - 1
BY ModulusAssumption

LEMMA WriteStep ==
    ASSUME HandlesInv, UpdatesFresh, NoLostUpdate, NEW t \in Threads, Write(t)
    PROVE  HandlesInv' /\ UpdatesFresh' /\ NoLostUpdate'
<1> DEFINE v == update[t].through
           c == handle[t][v].native
           n == (update[t].seen + 1) % Modulus
<1>1. v \in good[t] /\ update[t].seen = value[c]
  BY DEF HandlesInv, OneAtATime, UpdatesFresh, Write
<1>2. v \in Variables /\ c \in Cells /\ owner[c] = t
  <2>1. \A w \in good[t] : w \in Variables /\ handle[t][w].native \in Cells
                           /\ owner[handle[t][w].native] = t
    BY UpdaterOwns
  <2> QED
    BY <1>1, <2>1
<1>3. /\ value' = [value EXCEPT ![c] = n]
      /\ done' = [done EXCEPT ![c] = (@ + 1) % Modulus]
      /\ update' = [update EXCEPT ![t] = NoUpdate]
      /\ UNCHANGED <<owner, handle, good, want>>
  BY DEF Write
<1>4. /\ value \in [Cells -> 0 .. Modulus - 1] /\ done \in [Cells -> 0 .. Modulus - 1]
      /\ value = done
  BY DEF HandlesInv, GuardedTypeOK, NoLostUpdate
<1>5. n \in 0 .. Modulus - 1 /\ n = (done[c] + 1) % Modulus
  BY <1>1, <1>2, <1>4, Counted
<1> HIDE DEF n
<1>6. value' = done' /\ value' \in [Cells -> 0 .. Modulus - 1]
  BY <1>2, <1>3, <1>4, <1>5
<1>7. /\ \A u \in Threads : update'[u] = IF u = t THEN NoUpdate ELSE update[u]
      /\ update' \in [Threads -> [through : Variables \cup {Nobody}, seen : 0 .. Modulus - 1]]
  BY <1>3, ModulusAssumption DEF HandlesInv, GuardedTypeOK, NoUpdate
<1>8. GuardedTypeOK'
  BY <1>3, <1>6, <1>7 DEF HandlesInv, GuardedTypeOK
<1>9. Owned'
  BY <1>3 DEF HandlesInv, Owned
<1>10. OneAtATime'
  BY <1>3, <1>7 DEF HandlesInv, OneAtATime
<1>11. ASSUME NEW u \in Threads, update'[u] # NoUpdate
       PROVE  value'[handle'[u][update'[u].through].native] = update'[u].seen
  <2>1. u # t /\ update'[u] = update[u] /\ update[u].through \in good[u]
    BY <1>7, <1>11 DEF HandlesInv, OneAtATime
  <2>2. PICK w \in good[u] : w = update[u].through
    BY <2>1
  <2>3. handle[u][w].native \in Cells /\ owner[handle[u][w].native] = u
    BY UpdaterOwns
  <2>4. value'[handle[u][w].native] = value[handle[u][w].native]
    BY <1>2, <1>3, <1>4, <2>1, <2>3
  <2> QED
    BY <1>3, <1>7, <1>11, <2>1, <2>2, <2>4 DEF UpdatesFresh
<1> QED
  BY <1>6, <1>8, <1>9, <1>10, <1>11 DEF HandlesInv, UpdatesFresh, NoLostUpdate

UpdatesInv == HandlesInv /\ UpdatesFresh /\ NoLostUpdate

LEMMA UpdatesStep == UpdatesInv /\ [Next]_vars => UpdatesInv'
<1> SUFFICES ASSUME UpdatesInv, [Next]_vars PROVE UpdatesInv'
  OBVIOUS
<1>0. HandlesInv /\ UpdatesFresh /\ NoLostUpdate
  BY DEF UpdatesInv
<1>1. CASE UNCHANGED guardedVars
  <2>1. HandlesInv'
    BY <1>0, <1>1 DEF guardedVars, HandlesInv, GuardedTypeOK, Owned, OneAtATime
  <2>2. UpdatesFresh' /\ NoLostUpdate'
    BY <1>0, <1>1 DEF guardedVars, UpdatesFresh, NoLostUpdate
  <2> QED
    BY <2>1, <2>2 DEF UpdatesInv
<1>2. ASSUME NEW t \in Threads,
             \/ LockReturns(t)
             \/ \E v \in Variables, c \in Cells : TryLock(t, v, c)
             \/ \E v \in Variables : DropHandle(t, v) \/ \E w \in Variables : MoveHandle(t, v, w)
      PROVE  UpdatesInv'
  <2>1. /\ HandlesInv' /\ update[t] = NoUpdate /\ UNCHANGED <<value, update, done>>
        /\ \A u \in Threads \ {t} : handle'[u] = handle[u]
    BY <1>0, <1>2, HandleSteps
  <2>2. UpdatesFresh'
    BY <1>0, <2>1 DEF UpdatesFresh
  <2> QED
    BY <1>0, <2>1, <2>2 DEF UpdatesInv, NoLostUpdate
<1>3. ASSUME NEW t \in Threads, NEW v \in Variables, NEW c \in Cells, CallLock(t, v, c)
      PROVE  UpdatesInv'
  <2>1. HandlesInv' /\ UNCHANGED <<handle, value, update, done>>
    BY <1>0, <1>3, CallLockStep
  <2> QED
    BY <1>0, <2>1 DEF UpdatesInv, UpdatesFresh, NoLostUpdate
<1>4. ASSUME NEW t \in Threads, NEW v \in Variables, Read(t, v) PROVE UpdatesInv'
  BY <1>0, <1>4, ReadStep DEF UpdatesInv, NoLostUpdate
<1>5. ASSUME NEW t \in Threads, Write(t) PROVE UpdatesInv'
  BY <1>0, <1>5, WriteStep DEF UpdatesInv
<1>6. ASSUME NEW t \in Threads, HandleStep(t) PROVE UpdatesInv'
  BY <1>2, <1>3, <1>4, <1>5, <1>6 DEF HandleStep, GuardedStep
<1> QED
  BY <1>1, <1>6 DEF Next, LogStep, vars

LEMMA UpdatesInvariant == Spec => []UpdatesInv
<1>1. Init => UpdatesInv
  <2> SUFFICES ASSUME GuardedInit PROVE UpdatesInv
    BY DEF Init
  <2> USE ThreadsAssumption, NobodyAssumption, ModulusAssumption
  <2>1. GuardedTypeOK
    BY DEF GuardedInit, GuardedTypeOK, NoHandle, NotLocking, NoUpdate
  <2>2. Owned
    BY DEF GuardedInit, Owned, NoHandle
  <2>3. OneAtATime /\ UpdatesFresh /\ NoLostUpdate
    BY DEF GuardedInit, OneAtATime, UpdatesFresh, NoLostUpdate
  <2> QED
    BY <2>1, <2>2, <2>3 DEF UpdatesInv, HandlesInv
<1> QED
  BY <1>1, UpdatesStep, PTL DEF Spec

\* A mutex is locked exactly while one handle owns it, and a handle that was not
\* moved from has the lock of what it points to.
THEOREM LockHasOneHandle == Spec => []LockedByOneHandle
<1>1. HandlesInv => LockedByOneHandle
  <2> SUFFICES ASSUME HandlesInv PROVE LockedByOneHandle
    OBVIOUS
  <2>1. ASSUME NEW c \in Cells, NEW t \in Threads
        PROVE  Cardinality({v \in Variables : handle[t][v].lock = c})
                   = IF owner[c] = t THEN 1 ELSE 0
    <3> DEFINE V == {v \in Variables : handle[t][v].lock = c}
    <3>0. c # Nobody
      BY NobodyAssumption
    <3>1. CASE owner[c] = t
      <4>1. PICK v \in Variables : handle[t][v].lock = c
        BY <3>1 DEF HandlesInv, Owned
      <4>2. V = {v}
        BY <3>0, <4>1 DEF HandlesInv, Owned
      <4> QED
        BY <3>1, <4>2, FS_Singleton
    <3>2. CASE owner[c] # t
      <4>1. V = {}
        BY <3>0, <3>2 DEF HandlesInv, Owned
      <4> QED
        BY <3>2, <4>1, FS_EmptySet
    <3> QED
      BY <3>1, <3>2
  <2>2. \A t \in Threads, v \in Variables :
            v \in good[t] => handle[t][v].native = handle[t][v].lock
    BY DEF HandlesInv, Owned
  <2> QED
    BY <2>1, <2>2 DEF LockedByOneHandle, HandlesInv
<1> QED
  BY <1>1, UpdatesInvariant, PTL DEF UpdatesInv

\* The value counts the updates through handles.
THEOREM UpdatesKept == Spec => []NoLostUpdate
BY UpdatesInvariant, PTL DEF UpdatesInv
-------------------------------------------------------------------------------
(* Levels.  Nobody writes while somebody reads, so that what a reader has found  *)
(* about its tag still holds when it reads the global level.                     *)

AllCalls == {NoCall} \cup Queries \cup Logs \cup Sets

\* What the kinds of calls have.
LEMMA CallKinds ==
    ASSUME NEW c \in AllCalls
    PROVE  /\ Asks(c) => c \notin Sets /\ c # NoCall
           /\ Asks(c) /\ c.op # "global_log_level" => c.tag \in Tags
           /\ ~Asks(c) => c = NoCall \/ c \in Sets
           /\ c \in Sets => c # NoCall
BY DEF AllCalls, NoCall, Queries, Logs, Sets, Asks

\* The level a call is about is a level.
LEMMA LevelForType ==
    ASSUME NEW c \in AllCalls, Asks(c), NEW g \in Levels,
           NEW m \in [Tags -> Levels \cup {Absent}]
    PROVE  LevelFor(c, g, m) \in Levels
BY CallKinds DEF LevelFor

\* The steps of a thread that leave the levels, the calls and what they have seen
\* alone keep what has been seen, when the thread finds what it is to find.
LEMMA SeenKept ==
    ASSUME LevelsInv, NEW t \in Threads, NEW s, Goto(t, s),
           UNCHANGED <<global, tags, call, seen>>,
           \A u \in Threads \ {t} : got'[u] = got[u],
           Asks(call[t]) /\ s = "global" => LevelFor(call[t], global, tags) = global,
           Asks(call[t]) /\ s \in {"unlock", "return"} => got'[t] \in seen[t]
    PROVE  Seen'
BY DEF LevelsInv, LoggingTypeOK, Seen, Goto

LEMMA CallLoggingStep ==
    ASSUME LevelsInv, NEW t \in Threads, NEW c \in Queries \cup Logs \cup Sets,
           CallLogging(t, c)
    PROVE  LevelsInv'
<1> DEFINE L == IF Asks(c) THEN {LevelFor(c, global, tags)} ELSE {}
<1>0. LoggingTypeOK /\ Excluded /\ StepsFit /\ Seen
  BY DEF LevelsInv
<1>1. /\ step[t] = "idle" /\ c \in AllCalls /\ c # NoCall
      /\ UNCHANGED <<global, tags, readers, writer, got>>
  BY DEF CallLogging, AllCalls, NoCall, Queries, Logs, Sets
<1>2. L \subseteq Levels
  BY <1>0, <1>1, LevelForType DEF LoggingTypeOK
<1>3. /\ call' \in [Threads -> AllCalls]
      /\ \A u \in Threads : call'[u] = IF u = t THEN c ELSE call[u]
  BY <1>0, <1>1 DEF LoggingTypeOK, CallLogging, AllCalls
<1>4. /\ seen' \in [Threads -> SUBSET Levels]
      /\ \A u \in Threads : seen'[u] = IF u = t THEN L ELSE seen[u]
  BY <1>0, <1>2 DEF LoggingTypeOK, CallLogging
<1>5. /\ step' \in [Threads -> {"idle", "call", "find", "global", "set", "unlock", "return"}]
      /\ \A u \in Threads : step'[u] = IF u = t THEN "call" ELSE step[u]
  BY <1>0 DEF LoggingTypeOK, CallLogging, Goto
<1>6. LoggingTypeOK'
  BY <1>0, <1>1, <1>3, <1>4, <1>5 DEF LoggingTypeOK, AllCalls
<1>7. Excluded'
  BY <1>0, <1>1, <1>3, <1>5 DEF Excluded, Reads, Writes
<1>8. StepsFit'
  BY <1>0, <1>1, <1>3, <1>5 DEF StepsFit
<1>9. Seen'
  BY <1>0, <1>1, <1>3, <1>4, <1>5 DEF Seen
<1> QED
  BY <1>6, <1>7, <1>8, <1>9 DEF LevelsInv

\* A thread takes or leaves the mutex, or reads under it.
LEMMA ReaderStep ==
    ASSUME LevelsInv, NEW t \in Threads,
           LockShared(t) \/ FindTag(t) \/ ReadGlobal(t) \/ UnlockShared(t)
    PROVE  LevelsInv'
<1>0. LoggingTypeOK /\ Excluded /\ StepsFit /\ Seen
  BY DEF LevelsInv
<1>1. /\ call[t] \in AllCalls /\ Asks(call[t])
      /\ UNCHANGED <<global, tags, writer, call, seen>>
  BY <1>0 DEF LockShared, FindTag, ReadGlobal, UnlockShared, StepsFit, LoggingTypeOK, AllCalls
<1>2. PICK s \in {"find", "global", "unlock", "return"} : Goto(t, s)
  BY DEF LockShared, FindTag, ReadGlobal, UnlockShared
<1>3. /\ step' \in [Threads -> {"idle", "call", "find", "global", "set", "unlock", "return"}]
      /\ \A u \in Threads : step'[u] = IF u = t THEN s ELSE step[u]
  BY <1>0, <1>2 DEF LoggingTypeOK, Goto
<1>4. call[t].op # "global_log_level" => call[t].tag \in Tags
  BY <1>1, CallKinds
<1>5. /\ got' \in [Threads -> Levels]
      /\ \A u \in Threads \ {t} : got'[u] = got[u]
      /\ s \in {"unlock", "return"} => got'[t] \in seen[t]
  <2>1. CASE LockShared(t)
    BY <1>0, <1>3, <2>1 DEF LockShared, Goto, LoggingTypeOK
  <2>2. CASE FindTag(t)
    <3>1. call[t].tag \in Tags /\ call[t].op # "global_log_level"
      BY <1>0, <1>4, <2>2 DEF FindTag, StepsFit
    <3>2. CASE tags[call[t].tag] = Absent
      BY <1>0, <1>3, <2>2, <3>2 DEF FindTag, Goto, LoggingTypeOK
    <3>3. CASE tags[call[t].tag] # Absent
      <4>1. /\ tags[call[t].tag] \in Levels
            /\ got' = [got EXCEPT ![t] = tags[call[t].tag]]
        BY <1>0, <2>2, <3>1, <3>3 DEF FindTag, LoggingTypeOK
      <4>2. LevelFor(call[t], global, tags) = tags[call[t].tag]
        BY <3>1, <3>3 DEF LevelFor
      <4> QED
        BY <1>0, <1>1, <4>1, <4>2 DEF LoggingTypeOK, Seen
    <3> QED
      BY <3>2, <3>3
  <2>3. CASE ReadGlobal(t)
    BY <1>0, <1>1, <2>3 DEF ReadGlobal, LoggingTypeOK, Seen
  <2>4. CASE UnlockShared(t)
    BY <1>0, <1>1, <2>4 DEF UnlockShared, LoggingTypeOK, Seen
  <2> QED
    BY <2>1, <2>2, <2>3, <2>4
<1>6. s = "global" => LevelFor(call[t], global, tags) = global
  BY <1>0, <1>3 DEF LockShared, FindTag, ReadGlobal, UnlockShared, Goto, LevelFor, LoggingTypeOK
<1>7. Seen'
  BY <1>1, <1>2, <1>5, <1>6, SeenKept
<1>8. readers' \subseteq Threads
  BY <1>0 DEF LockShared, FindTag, ReadGlobal, UnlockShared, LoggingTypeOK
<1>9. LoggingTypeOK'
  BY <1>0, <1>1, <1>3, <1>5, <1>8 DEF LoggingTypeOK
<1>10. Excluded'
  <2>1. CASE LockShared(t)
    <3>1. readers' = readers \cup {t} /\ writer = {} /\ s \in {"find", "global"}
      BY <1>0, <1>3, <2>1 DEF LockShared, Goto, LoggingTypeOK
    <3> QED
      BY <1>0, <1>1, <1>3, <3>1 DEF Excluded, Reads, Writes
  <2>2. CASE FindTag(t) \/ ReadGlobal(t)
    <3>1. readers' = readers /\ t \in readers /\ s \in {"global", "unlock"}
      BY <1>0, <1>3, <2>2 DEF FindTag, ReadGlobal, Goto, LoggingTypeOK, Excluded, Reads
    <3> QED
      BY <1>0, <1>1, <1>3, <3>1 DEF Excluded, Reads, Writes
  <2>3. CASE UnlockShared(t)
    <3>1. readers' = readers \ {t} /\ t \in readers /\ s = "return"
      BY <1>0, <1>3, <2>3 DEF UnlockShared, Goto, LoggingTypeOK, Excluded, Reads
    <3> QED
      BY <1>0, <1>1, <1>3, <3>1 DEF Excluded, Reads, Writes
  <2> QED
    BY <2>1, <2>2, <2>3
<1>11. s = "find" => call[t].op # "global_log_level"
  BY <1>0, <1>3 DEF LockShared, FindTag, ReadGlobal, UnlockShared, Goto, LoggingTypeOK
<1>12. call[t] # NoCall
  BY <1>1, CallKinds
<1>13. StepsFit'
  BY <1>0, <1>1, <1>3, <1>11, <1>12 DEF StepsFit
<1> QED
  BY <1>7, <1>9, <1>10, <1>13 DEF LevelsInv

\* A thread writes alone: those in a call see the new level, and nobody is between
\* the tag and the global level.
LEMMA SetStep ==
    ASSUME LevelsInv, NEW t \in Threads, Set(t)
    PROVE  LevelsInv'
<1>0. LoggingTypeOK /\ Excluded /\ StepsFit /\ Seen
  BY DEF LevelsInv
<1>1. /\ step[t] = "set" /\ call[t] \in Sets /\ call[t] \in AllCalls /\ ~Asks(call[t])
      /\ UNCHANGED <<readers, writer, call, got>>
  BY <1>0, CallKinds DEF Set, StepsFit, AllCalls
<1>2. global' \in Levels /\ tags' \in [Tags -> Levels \cup {Absent}]
  <2>1. CASE call[t].op = "set_global_log_level"
    BY <1>0, <1>1, <2>1 DEF Set, Sets, LoggingTypeOK
  <2>2. CASE call[t].op = "set_tag_log_level"
    BY <1>0, <1>1, <2>2 DEF Set, Sets, LoggingTypeOK
  <2>3. CASE call[t].op = "reset_tag_log_level"
    BY <1>0, <1>1, <2>3 DEF Set, Sets, LoggingTypeOK
  <2> QED
    BY <1>1, <2>1, <2>2, <2>3 DEF Sets
<1>3. /\ step' \in [Threads -> {"idle", "call", "find", "global", "set", "unlock", "return"}]
      /\ \A u \in Threads : step'[u] = IF u = t THEN "unlock" ELSE step[u]
  BY <1>0 DEF LoggingTypeOK, Set, Goto
<1>4. \A u \in Threads : seen'[u] = IF Asks(call[u])
                                    THEN seen[u] \cup {LevelFor(call[u], global', tags')}
                                    ELSE {}
  BY DEF Set, Seeing
<1>5. seen' \in [Threads -> SUBSET Levels]
  <2>1. \A u \in Threads : seen[u] \subseteq Levels /\ call[u] \in AllCalls
    BY <1>0 DEF LoggingTypeOK, AllCalls
  <2>2. \A u \in Threads : Asks(call[u]) => LevelFor(call[u], global', tags') \in Levels
    BY <1>2, <2>1, LevelForType
  <2>3. \A u \in Threads : seen'[u] \subseteq Levels
    BY <1>4, <2>1, <2>2
  <2> QED
    BY <2>3 DEF Set, Seeing
<1>6. LoggingTypeOK'
  BY <1>0, <1>1, <1>2, <1>3, <1>5 DEF LoggingTypeOK
<1>7. Excluded' /\ readers = {}
  BY <1>0, <1>1, <1>3 DEF Excluded, Reads, Writes
<1>8. StepsFit'
  BY <1>0, <1>1, <1>3, CallKinds DEF StepsFit
<1>9. ASSUME NEW u \in Threads, Asks(call[u])
      PROVE  /\ LevelFor(call[u], global', tags') \in seen'[u]
             /\ step'[u] # "global"
             /\ step'[u] \in {"unlock", "return"} => got[u] \in seen'[u]
  <2>1. u # t /\ step'[u] = step[u] /\ step[u] # "global"
    BY <1>0, <1>1, <1>3, <1>7, <1>9 DEF Excluded, Reads
  <2> QED
    BY <1>0, <1>4, <1>9, <2>1 DEF Seen
<1>10. Seen'
  BY <1>1, <1>9 DEF Seen
<1> QED
  BY <1>6, <1>7, <1>8, <1>10 DEF LevelsInv

LEMMA WriterStep ==
    ASSUME LevelsInv, NEW t \in Threads, LockAlone(t) \/ UnlockAlone(t)
    PROVE  LevelsInv'
<1>0. LoggingTypeOK /\ Excluded /\ StepsFit /\ Seen
  BY DEF LevelsInv
<1>1. UNCHANGED <<global, tags, readers, call, got, seen>> /\ call[t] \in AllCalls
  BY <1>0 DEF LockAlone, UnlockAlone, LoggingTypeOK, AllCalls
<1>2. PICK s \in {"set", "return"} : Goto(t, s)
  BY DEF LockAlone, UnlockAlone
<1>3. /\ step' \in [Threads -> {"idle", "call", "find", "global", "set", "unlock", "return"}]
      /\ \A u \in Threads : step'[u] = IF u = t THEN s ELSE step[u]
  BY <1>0, <1>2 DEF LoggingTypeOK, Goto
<1>4. ~Asks(call[t]) /\ call[t] # NoCall
  BY <1>0, <1>1, CallKinds DEF LockAlone, UnlockAlone, StepsFit
<1>5. LoggingTypeOK'
  BY <1>0, <1>1, <1>3 DEF LockAlone, UnlockAlone, LoggingTypeOK
<1>6. StepsFit'
  BY <1>0, <1>1, <1>3, <1>4 DEF LockAlone, UnlockAlone, Goto, StepsFit
<1>7. Excluded'
  <2>1. CASE LockAlone(t)
    <3>1. readers = {} /\ writer = {} /\ writer' = {t} /\ s = "set"
      BY <1>0, <1>3, <2>1 DEF LockAlone, Goto, LoggingTypeOK
    <3> QED
      BY <1>0, <1>1, <1>3, <3>1 DEF Excluded, Reads, Writes
  <2>2. CASE UnlockAlone(t)
    <3>1. t \in writer /\ writer' = {} /\ s = "return"
      BY <1>0, <1>3, <2>2 DEF UnlockAlone, Goto, LoggingTypeOK, Excluded, Writes
    <3> QED
      BY <1>0, <1>1, <1>3, <1>4, <3>1 DEF Excluded, Reads, Writes
  <2> QED
    BY <2>1, <2>2
<1>8. Seen'
  BY <1>1, <1>2, <1>4, SeenKept
<1> QED
  BY <1>5, <1>6, <1>7, <1>8 DEF LevelsInv

LEMMA ReturnStep ==
    ASSUME LevelsInv, NEW t \in Threads, ReturnLogging(t)
    PROVE  LevelsInv'
<1>0. LoggingTypeOK /\ Excluded /\ StepsFit /\ Seen
  BY DEF LevelsInv
<1>1. step[t] = "return" /\ UNCHANGED <<global, tags, readers, writer>> /\ ~Asks(NoCall)
  BY DEF ReturnLogging, NoCall, Asks
<1>2. /\ step' \in [Threads -> {"idle", "call", "find", "global", "set", "unlock", "return"}]
      /\ \A u \in Threads : step'[u] = IF u = t THEN "idle" ELSE step[u]
  BY <1>0 DEF LoggingTypeOK, ReturnLogging, Goto
<1>3. /\ call' \in [Threads -> AllCalls]
      /\ \A u \in Threads : call'[u] = IF u = t THEN NoCall ELSE call[u]
  BY <1>0 DEF LoggingTypeOK, ReturnLogging, AllCalls
<1>4. /\ seen' \in [Threads -> SUBSET Levels] /\ got' \in [Threads -> Levels]
      /\ \A u \in Threads \ {t} : seen'[u] = seen[u] /\ got'[u] = got[u]
  BY <1>0, LevelsAssumption DEF LoggingTypeOK, ReturnLogging
<1>5. LoggingTypeOK'
  BY <1>0, <1>1, <1>2, <1>3, <1>4 DEF LoggingTypeOK, AllCalls
<1>6. Excluded'
  BY <1>0, <1>1, <1>2, <1>3 DEF Excluded, Reads, Writes
<1>7. StepsFit'
  BY <1>0, <1>2, <1>3 DEF StepsFit
<1>8. Seen'
  BY <1>0, <1>1, <1>2, <1>3, <1>4 DEF Seen
<1> QED
  BY <1>5, <1>6, <1>7, <1>8 DEF LevelsInv

LEMMA LevelsStep == LevelsInv /\ [Next]_vars => LevelsInv'
<1> SUFFICES ASSUME LevelsInv, [Next]_vars PROVE LevelsInv'
  OBVIOUS
<1>1. CASE UNCHANGED loggingVars
  <2>1. LoggingTypeOK' /\ Excluded'
    BY <1>1 DEF loggingVars, LevelsInv, LoggingTypeOK, Excluded, Reads, Writes
  <2>2. StepsFit' /\ Seen'
    BY <1>1 DEF loggingVars, LevelsInv, StepsFit, Seen
  <2> QED
    BY <2>1, <2>2 DEF LevelsInv
<1>2. ASSUME NEW t \in Threads, LoggingStep(t) PROVE LevelsInv'
  BY <1>2, ReaderStep, SetStep, WriterStep, ReturnStep DEF LoggingStep
<1>3. ASSUME NEW t \in Threads, NEW c \in Calls(t), CallLogging(t, c) PROVE LevelsInv'
  <2>1. c \in Queries \cup Logs \cup Sets
    BY LogsAssumption DEF Calls
  <2> QED
    BY <1>3, <2>1, CallLoggingStep
<1> QED
  BY <1>1, <1>2, <1>3 DEF Next, LogStep, HandleStep, vars

\* A query answers with a level of some instant of its call, and a message is
\* written exactly if it passed at such an instant.
THEOREM AnswersAreOfTheCall == Spec => []AnswersOfSomeInstant
<1>1. Init => LevelsInv
  <2> SUFFICES ASSUME LoggingInit PROVE LevelsInv
    BY DEF Init
  <2>1. LoggingTypeOK
    BY LevelsAssumption DEF LoggingInit, LoggingTypeOK
  <2>2. Excluded /\ StepsFit
    BY DEF LoggingInit, Excluded, StepsFit, Reads, Writes
  <2>3. Seen
    BY DEF LoggingInit, Seen, NoCall, Asks
  <2> QED
    BY <2>1, <2>2, <2>3 DEF LevelsInv
<1>2. LevelsInv => AnswersOfSomeInstant
  BY DEF LevelsInv, Seen, AnswersOfSomeInstant
<1> QED
  BY <1>1, <1>2, LevelsStep, PTL DEF Spec
=============================================================================
