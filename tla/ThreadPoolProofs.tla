-------------------------- MODULE ThreadPoolProofs --------------------------
(* Theorems about ThreadPool, for any finite sets of clients and workers and  *)
(* any tasks: its types, where every task is, the wakeups, what join and the  *)
(* destructor leave behind, and that the pool implements TaskService.         *)
EXTENDS ThreadPool, FiniteSetTheorems, TLAPS

-----------------------------------------------------------------------------
(* Types                                                                      *)

Places == {"idle", "none", "lock", "wait", "run", "notify", "rest", "exited"}

\* A set of threads is finite, and its cardinality is a natural number.
LEMMA ThreadSets ==
    ASSUME NEW S, S \subseteq Threads
    PROVE  IsFiniteSet(S) /\ Cardinality(S) \in Nat
<1>1. IsFiniteSet(Threads)
  BY ActorsAssumption, FS_Union DEF Threads
<1> QED
  BY <1>1, FS_Subset, FS_CardinalityType

\* No more workers can be started than there are.
LEMMA FreshBounded == Cardinality(Fresh) \in Nat /\ Cardinality(Workers) \in Nat
                      /\ Cardinality(Fresh) <= Cardinality(Workers)
<1>1. Fresh \subseteq Workers /\ IsFiniteSet(Workers)
  BY ActorsAssumption DEF Fresh
<1> QED
  BY <1>1, FS_Subset, FS_CardinalityType

\* A client is no worker, and only workers run, wait or exit.
LEMMA WhoIsWhere ==
    ASSUME TypeOK
    PROVE  /\ pc \in [Threads -> Places]
           /\ At("wait") \cup At("lock") \cup At("exited") \subseteq Workers
           /\ \A x \in Threads : x \notin Clients => x \in Workers
           /\ \A c \in Clients : c \notin Workers /\ c \in Threads
           /\ Workers \subseteq Threads
BY ActorsAssumption DEF TypeOK, At, Threads, Places

\* submit keeps the types, whoever calls it.
LEMMA EnqueueTypes ==
    ASSUME TypeOK, NEW x \in Threads, NEW k \in Tasks, NEW from,
           \/ x \in Clients /\ from = "idle"
           \/ x \in Workers /\ from = "run",
           Enqueue(x, k, from)
    PROVE  TypeOK'
<1>1. tasks' \in Seq(Tasks)
  BY DEF TypeOK, Enqueue
<1>2. future' \in [Tasks -> Settled \cup {"none", "pending"}]
  BY DEF TypeOK, Enqueue
<1>3. pc' = [pc EXCEPT ![x] = "notify"] /\ pc[x] = from
  BY DEF Enqueue, Go
<1>4. /\ pc' \in [Threads -> Places]
      /\ \A c \in Clients : pc'[c] \in {"idle", "notify"}
      /\ \A w \in Workers : pc'[w] # "idle"
  BY <1>3, WhoIsWhere DEF TypeOK, Places
<1>5. \A w \in Workers : Holds(w)' <=> Holds(w)
  BY <1>3, WhoIsWhere DEF Holds
<1> QED
  BY <1>1, <1>2, <1>4, <1>5 DEF TypeOK, Enqueue, ownerVars, Places

LEMMA RefuseTypes ==
    ASSUME TypeOK, NEW x \in Threads, NEW k \in Tasks, NEW from, NEW to,
           \/ x \in Clients /\ from = "idle" /\ to = "idle"
           \/ x \in Workers /\ from = "run" /\ to = "rest",
           Refuse(x, k, from, to)
    PROVE  TypeOK'
<1>1. future' \in [Tasks -> Settled \cup {"none", "pending"}]
  BY DEF TypeOK, Refuse, Settled
<1>2. pc' = [pc EXCEPT ![x] = to] /\ pc[x] = from
  BY DEF Refuse, Go
<1>3. /\ pc' \in [Threads -> Places]
      /\ \A c \in Clients : pc'[c] \in {"idle", "notify"}
      /\ \A w \in Workers : pc'[w] # "idle"
  BY <1>2, WhoIsWhere DEF TypeOK, Places
<1>4. \A w \in Workers : Holds(w)' <=> Holds(w)
  BY <1>2, WhoIsWhere DEF Holds
<1> QED
  BY <1>1, <1>3, <1>4 DEF TypeOK, Refuse, poolVars, ownerVars, Places

\* The task that a worker's callable submits is a task.
LEMMA ChildIsTask ==
    ASSUME TypeOK, NEW w \in Workers, pc[w] = "run", ChildOf(w) # NoTask
    PROVE  job[w] \in Tasks /\ ChildOf(w) \in Tasks
BY TasksAssumption DEF TypeOK, Holds, ChildOf

\* notify_one sends the notifier on, and one sleeper to the mutex if there is
\* one.
LEMMA NotifyMoves ==
    ASSUME TypeOK, NEW x \in Threads, Notify(x)
    PROVE  LET next == IF x \in Clients THEN "idle" ELSE "rest"
           IN  \/ At("wait") = {} /\ pc' = [pc EXCEPT ![x] = next]
               \/ \E w \in At("wait") :
                    /\ w \in Workers /\ w # x
                    /\ \A u \in Threads : pc'[u] = IF u = x THEN next
                                                   ELSE IF u = w THEN "lock" ELSE pc[u]
<1> DEFINE next == IF x \in Clients THEN "idle" ELSE "rest"
<1>1. pc[x] = "notify"
  BY DEF Notify
<1>2. CASE At("wait") = {}
  BY <1>2 DEF Notify
<1>3. CASE At("wait") # {}
  <2>1. PICK w \in At("wait") : pc' = [pc EXCEPT ![x] = next, ![w] = "lock"]
    BY <1>3 DEF Notify
  <2>2. w \in Workers /\ w # x
    BY <1>1, WhoIsWhere DEF At
  <2>3. \A u \in Threads : pc'[u] = IF u = x THEN next
                                    ELSE IF u = w THEN "lock" ELSE pc[u]
    BY <2>1, <2>2, WhoIsWhere DEF At
  <2> QED
    BY <2>1, <2>2, <2>3
<1> QED
  BY <1>2, <1>3

LEMMA NotifyTypes ==
    ASSUME TypeOK, NEW x \in Threads, Notify(x)
    PROVE  TypeOK' /\ \A w \in Workers : Holds(w)' <=> Holds(w)
<1>1. pc[x] = "notify" /\ UNCHANGED <<poolVars, job, future, ownerVars>>
  BY DEF Notify
<1>2. pc' \in [Threads -> Places]
  BY WhoIsWhere DEF Notify, Places
<1>3. \A u \in Threads : \/ pc'[u] = pc[u]
                         \/ u = x /\ pc'[u] = IF x \in Clients THEN "idle" ELSE "rest"
                         \/ u \in Workers /\ pc[u] = "wait" /\ pc'[u] = "lock"
  BY NotifyMoves, WhoIsWhere DEF At
<1>4. \A c \in Clients : pc'[c] \in {"idle", "notify"}
  BY <1>3, WhoIsWhere DEF TypeOK
<1>5. \A w \in Workers : pc'[w] # "idle"
  BY <1>3, WhoIsWhere DEF TypeOK
<1>6. \A w \in Workers : Holds(w)' <=> Holds(w)
  BY <1>1, <1>3, WhoIsWhere DEF Holds
<1> QED
  BY <1>1, <1>2, <1>4, <1>5, <1>6 DEF TypeOK, poolVars, ownerVars, Places

\* One step of the pool keeps the types, and the tie of job to pc.
LEMMA TypeStep == TypeOK /\ [Next]_vars => TypeOK'
<1> SUFFICES ASSUME TypeOK, [Next]_vars PROVE TypeOK'
  OBVIOUS
<1> USE WhoIsWhere, TasksAssumption
<1>1. ASSUME NEW c \in Clients, ClientSubmit(c) \/ ClientRefused(c) PROVE TypeOK'
  BY <1>1, EnqueueTypes, RefuseTypes DEF ClientSubmit, ClientRefused
<1>2. ASSUME NEW x \in Threads, Notify(x) PROVE TypeOK'
  BY <1>2, NotifyTypes
<1>3. ASSUME NEW w \in Workers, WorkerSubmit(w) \/ WorkerRefused(w) PROVE TypeOK'
  BY <1>3, ChildIsTask, EnqueueTypes, RefuseTypes DEF WorkerSubmit, WorkerRefused
<1>4. ASSUME NEW w \in Workers, WorkerWait(w) \/ WorkerExit(w) \/ Spurious(w) PROVE TypeOK'
  <2>1. \/ pc[w] = "lock" /\ pc' = [pc EXCEPT ![w] = "wait"]
        \/ pc[w] = "lock" /\ pc' = [pc EXCEPT ![w] = "exited"]
        \/ pc[w] = "wait" /\ pc' = [pc EXCEPT ![w] = "lock"]
    BY <1>4 DEF WorkerWait, WorkerExit, Spurious, Go
  <2>2. UNCHANGED <<poolVars, job, future, ownerVars>>
    BY <1>4 DEF WorkerWait, WorkerExit, Spurious
  <2> QED
    BY <2>1, <2>2 DEF TypeOK, Holds, poolVars, ownerVars, Places
<1>5. ASSUME NEW w \in Workers, WorkerTake(w) PROVE TypeOK'
  <2>1. Head(tasks) \in Tasks /\ Tail(tasks) \in Seq(Tasks)
    BY <1>5 DEF WorkerTake, TypeOK
  <2>2. pc[w] = "lock" /\ pc' = [pc EXCEPT ![w] = "run"] /\ job' = [job EXCEPT ![w] = Head(tasks)]
    BY <1>5 DEF WorkerTake, Go
  <2>3. \A v \in Workers : job'[v] # NoTask <=> Holds(v)'
    BY <2>1, <2>2 DEF TypeOK, Holds
  <2> QED
    BY <1>5, <2>1, <2>2, <2>3 DEF WorkerTake, TypeOK, ownerVars, Places
<1>6. ASSUME NEW w \in Workers, WorkerFinish(w) PROVE TypeOK'
  <2>1. Holds(w) /\ job[w] \in Tasks
    BY <1>6 DEF WorkerFinish, TypeOK, Holds
  <2>2. future' \in [Tasks -> Settled \cup {"none", "pending"}]
    BY <1>6, <2>1 DEF WorkerFinish, TypeOK, Result, Settled
  <2>3. pc' = [pc EXCEPT ![w] = "lock"] /\ job' = [job EXCEPT ![w] = NoTask]
    BY <1>6 DEF WorkerFinish
  <2>4. \A v \in Workers : job'[v] # NoTask <=> Holds(v)'
    BY <2>3 DEF TypeOK, Holds
  <2> QED
    BY <1>6, <2>2, <2>3, <2>4 DEF WorkerFinish, TypeOK, poolVars, ownerVars, Places
<1>7. ASSUME CallExtend \/ SpawnFail \/ ExtendDone PROVE TypeOK'
  <2>1. toSpawn' \in 0 .. Cardinality(Workers)
    BY <1>7, FreshBounded DEF CallExtend, SpawnFail, ExtendDone, TypeOK
  <2>2. /\ life' \in {"constructing", "alive", "destroying", "gone", "terminated"}
        /\ owner' \in {"idle", "extend"}
        /\ UNCHANGED <<poolVars, workers, pc, job, future>>
    BY <1>7 DEF CallExtend, SpawnFail, ExtendDone, TypeOK
  <2> QED
    BY <2>1, <2>2 DEF TypeOK, Holds, poolVars
<1>8. ASSUME Spawn PROVE TypeOK'
  <2>1. PICK w \in Fresh : workers' = workers \cup {w} /\ pc' = [pc EXCEPT ![w] = "lock"]
    BY <1>8 DEF Spawn
  <2>2. w \in Workers /\ pc[w] = "none"
    BY <2>1 DEF Fresh
  <2>3. toSpawn' \in 0 .. Cardinality(Workers)
    BY <1>8, FreshBounded DEF Spawn, TypeOK
  <2> QED
    BY <1>8, <2>1, <2>2, <2>3 DEF Spawn, TypeOK, Holds, poolVars, Places
<1>9. ASSUME JoinStop PROVE TypeOK'
  BY <1>9 DEF JoinStop, TypeOK, Holds
<1>10. ASSUME JoinNotify PROVE TypeOK'
  <2>1. pc' = [x \in Threads |-> IF pc[x] = "wait" THEN "lock" ELSE pc[x]]
    BY <1>10 DEF JoinNotify
  <2>2. /\ pc' \in [Threads -> Places]
        /\ \A c \in Clients : pc'[c] \in {"idle", "notify"}
        /\ \A w \in Workers : pc'[w] # "idle" /\ (Holds(w)' <=> Holds(w))
    BY <2>1 DEF TypeOK, Holds, Places
  <2> QED
    BY <1>10, <2>2 DEF JoinNotify, TypeOK, poolVars, Places
<1>11. ASSUME JoinDone PROVE TypeOK'
  <2>1. /\ tasks' \in Seq(Tasks)
        /\ future' \in [Tasks -> Settled \cup {"none", "pending"}]
        /\ life' \in {"alive", "gone"}
    <3>1. CASE UNCHANGED <<life, tasks, future>> /\ life = "alive"
      BY <3>1 DEF TypeOK
    <3>2. CASE /\ life' = "gone" /\ tasks' = <<>>
               /\ future' = [k \in Tasks |-> IF \E i \in DOMAIN tasks : tasks[i] = k
                                             THEN "broken" ELSE future[k]]
      BY <3>2 DEF TypeOK, Settled
    <3> QED
      BY <1>11, <3>1, <3>2 DEF JoinDone
  <2> QED
    BY <1>11, <2>1 DEF JoinDone, TypeOK, Holds
<1>12. CASE UNCHANGED vars
  BY <1>12 DEF TypeOK, Holds, vars
<1> QED
  BY <1>1, <1>2, <1>3, <1>4, <1>5, <1>6, <1>7, <1>8, <1>9, <1>10, <1>11,
     <1>12 DEF Next, WorkerStep, OwnerStep

\* The types hold at first, when no worker has been started.
LEMMA TypeInit == Init => TypeOK
<1> SUFFICES ASSUME Init PROVE TypeOK
  OBVIOUS
<1>1. \A x \in Threads : pc[x] = IF x \in Clients THEN "idle" ELSE "none"
  BY DEF Init
<1>2. /\ pc \in [Threads -> Places]
      /\ \A c \in Clients : pc[c] = "idle"
      /\ \A w \in Workers : pc[w] = "none"
  BY <1>1, ActorsAssumption DEF Init, Threads, Places
<1>3. \A w \in Workers : job[w] # NoTask <=> Holds(w)
  BY <1>2 DEF Init, Holds
<1>4. future \in [Tasks -> Settled \cup {"none", "pending"}] /\ tasks \in Seq(Tasks)
  BY DEF Init
<1>5. job \in [Workers -> Tasks \cup {NoTask}] /\ toSpawn \in 0 .. Cardinality(Workers)
  BY DEF Init
<1> QED
  BY <1>2, <1>3, <1>4, <1>5 DEF Init, TypeOK, Places

\* The types always hold, and a worker has a task exactly while it runs one.
THEOREM TypeCorrect == Spec => []TypeOK
BY TypeInit, TypeStep, PTL DEF Spec
-----------------------------------------------------------------------------
(* Where every task is.  HeldOnce counts places; the inductive invariant says *)
(* the same without counting (Placed), and that a task whose turn to be       *)
(* submitted by another has not come was submitted by nobody (ChildrenWait):  *)
(* without it a callable could submit a task a second time.                   *)

Queued(k) == \E i \in DOMAIN tasks : tasks[i] = k
HeldBy(w, k) == job[w] = k

Placed ==
    /\ \A i, j \in DOMAIN tasks : tasks[i] = tasks[j] => i = j
    /\ \A v, w \in Workers : job[v] = job[w] /\ job[v] # NoTask => v = w
    /\ \A w \in Workers : ~Queued(job[w])
    /\ \A k \in Tasks : future[k] = "pending" <=>
                            Queued(k) \/ \E w \in Workers : HeldBy(w, k)

\* k has not reached the submit in its callable.
BeforeSubmit(k) == \/ future[k] = "none" \/ Queued(k)
                   \/ \E w \in Workers : HeldBy(w, k) /\ pc[w] = "run"

ChildrenWait ==
    \A k \in Tasks : Child[k] # NoTask /\ BeforeSubmit(k) => future[Child[k]] = "none"

TasksInv == TypeOK /\ Placed /\ ChildrenWait

\* What is in a queue after an Append, and after a Tail.
LEMMA AppendedQueue ==
    ASSUME TypeOK, NEW k \in Tasks, tasks' = Append(tasks, k)
    PROVE  /\ DOMAIN tasks' = DOMAIN tasks \cup {Len(tasks) + 1}
           /\ Len(tasks) + 1 \notin DOMAIN tasks
           /\ tasks'[Len(tasks) + 1] = k
           /\ \A i \in DOMAIN tasks : tasks'[i] = tasks[i]
           /\ \A j : Queued(j)' <=> Queued(j) \/ j = k
<1>1. tasks \in Seq(Tasks)
  BY DEF TypeOK
<1>2. /\ DOMAIN tasks' = DOMAIN tasks \cup {Len(tasks) + 1}
      /\ Len(tasks) + 1 \notin DOMAIN tasks
      /\ tasks'[Len(tasks) + 1] = k
      /\ \A i \in DOMAIN tasks : tasks'[i] = tasks[i]
  BY <1>1
<1> QED
  BY <1>2 DEF Queued

LEMMA TakenQueue ==
    ASSUME TypeOK, Placed, tasks # <<>>, tasks' = Tail(tasks)
    PROVE  /\ Head(tasks) \in Tasks /\ Queued(Head(tasks))
           /\ \A i, j \in DOMAIN tasks' : tasks'[i] = tasks'[j] => i = j
           /\ \A j : Queued(j)' <=> Queued(j) /\ j # Head(tasks)
<1>1. /\ tasks \in Seq(Tasks) /\ Len(tasks) \in Nat \ {0}
      /\ Head(tasks) = tasks[1] /\ 1 \in DOMAIN tasks
  BY DEF TypeOK
<1>2. DOMAIN tasks = 1 .. Len(tasks) /\ DOMAIN tasks' = 1 .. (Len(tasks) - 1)
  BY <1>1
<1>3. \A i \in DOMAIN tasks' : i + 1 \in DOMAIN tasks /\ tasks'[i] = tasks[i + 1]
  BY <1>1, <1>2
<1>4. \A i \in DOMAIN tasks : i # 1 => i - 1 \in DOMAIN tasks'
  BY <1>1, <1>2
<1>5. \A i, j \in DOMAIN tasks' : tasks'[i] = tasks'[j] => i = j
  <2> SUFFICES ASSUME NEW i \in DOMAIN tasks', NEW j \in DOMAIN tasks', tasks'[i] = tasks'[j]
               PROVE  i = j
    OBVIOUS
  <2>1. i + 1 = j + 1
    BY <1>3 DEF Placed
  <2> QED
    BY <1>2, <2>1
<1>6. ASSUME NEW j PROVE Queued(j)' <=> Queued(j) /\ j # Head(tasks)
  <2>1. ASSUME NEW i \in DOMAIN tasks', tasks'[i] = j PROVE Queued(j) /\ j # Head(tasks)
    <3>1. i + 1 \in DOMAIN tasks /\ tasks[i + 1] = j /\ i + 1 # 1
      BY <1>2, <1>3, <2>1
    <3> QED
      BY <1>1, <3>1 DEF Queued, Placed
  <2>2. ASSUME NEW i \in DOMAIN tasks, tasks[i] = j, j # Head(tasks) PROVE Queued(j)'
    <3>1. i # 1
      BY <1>1, <2>2
    <3>2. i - 1 \in DOMAIN tasks' /\ tasks'[i - 1] = tasks[(i - 1) + 1]
      BY <1>3, <1>4, <3>1
    <3>3. (i - 1) + 1 = i
      BY <1>2
    <3> QED
      BY <2>2, <3>2, <3>3 DEF Queued
  <2> QED
    BY <2>1, <2>2 DEF Queued
<1> QED
  BY <1>1, <1>5, <1>6 DEF Queued

\* A task that was not submitted is nowhere.
LEMMA NowhereYet ==
    ASSUME TypeOK, Placed, NEW k \in Tasks, future[k] # "pending"
    PROVE  ~Queued(k) /\ \A w \in Workers : job[w] # k
BY DEF Placed, HeldBy

\* submit keeps each task in one place, when nobody has submitted it before.
LEMMA EnqueuePlaces ==
    ASSUME TypeOK, Placed, NEW x \in Threads, NEW k \in Tasks, NEW from,
           future[k] = "none", Enqueue(x, k, from)
    PROVE  Placed'
<1>1. /\ tasks' = Append(tasks, k) /\ job' = job
      /\ future' = [future EXCEPT ![k] = "pending"]
  BY DEF Enqueue
<1>2. ~Queued(k) /\ \A w \in Workers : job[w] # k
  BY NowhereYet
<1>3. \A i, j \in DOMAIN tasks' : tasks'[i] = tasks'[j] => i = j
  BY <1>1, <1>2, AppendedQueue DEF Placed, Queued
<1>4. \A w \in Workers : ~Queued(job[w])'
  BY <1>1, <1>2, AppendedQueue DEF Placed
<1>5. \A j \in Tasks : future'[j] = "pending" <=> Queued(j)' \/ \E w \in Workers : HeldBy(w, j)'
  BY <1>1, <1>2, AppendedQueue DEF Placed, TypeOK, HeldBy
<1> QED
  BY <1>1, <1>3, <1>4, <1>5 DEF Placed, HeldBy, Queued

\* submit, accepted or refused, keeps the children waiting, when the task whose
\* child it submits is past its submit.
LEMMA SubmitWaits ==
    ASSUME TypeOK, Placed, ChildrenWait, NEW x \in Threads, NEW k \in Tasks,
           NEW from, NEW to, future[k] = "none", from # to,
           Enqueue(x, k, from) \/ (to # "run" /\ Refuse(x, k, from, to)),
           \A j \in Tasks : Child[j] = k => ~BeforeSubmit(j)'
    PROVE  ChildrenWait'
<1> SUFFICES ASSUME NEW j \in Tasks, Child[j] # NoTask, BeforeSubmit(j)'
             PROVE  future'[Child[j]] = "none"
  BY DEF ChildrenWait
<1>1. Child[j] \in Tasks \ {k}
  BY TasksAssumption
<1>2. \A i \in Tasks \ {k} : future'[i] = future[i]
  BY DEF Enqueue, Refuse, TypeOK
<1>3. job' = job /\ \A w \in Workers : pc'[w] = "run" => pc[w] = "run"
  BY WhoIsWhere DEF Enqueue, Refuse, Go
<1>4. j # k => (Queued(j)' => Queued(j))
  BY AppendedQueue DEF Enqueue, Refuse, poolVars, Queued
<1>5. BeforeSubmit(j)
  BY <1>2, <1>3, <1>4 DEF BeforeSubmit, HeldBy
<1> QED
  BY <1>1, <1>2, <1>5 DEF ChildrenWait

\* The callable that w runs submits a task that nobody has submitted, and is
\* past its submit then.
LEMMA OwnChild ==
    ASSUME TasksInv, NEW w \in Workers, pc[w] = "run", ChildOf(w) # NoTask
    PROVE  /\ job[w] \in Tasks /\ ChildOf(w) \in Tasks \ {job[w]}
           /\ future[job[w]] = "pending" /\ ~Queued(job[w])
           /\ future[ChildOf(w)] = "none"
           /\ \A v \in Workers : job[v] = job[w] => v = w
           /\ \A j \in Tasks : Child[j] = ChildOf(w) => j = job[w]
<1>1. job[w] \in Tasks /\ ChildOf(w) \in Tasks
  BY ChildIsTask DEF TasksInv
<1>2. future[job[w]] = "pending" /\ ~Queued(job[w])
  BY <1>1 DEF TasksInv, Placed, HeldBy
<1>3. BeforeSubmit(job[w])
  BY DEF BeforeSubmit, HeldBy
<1>4. future[ChildOf(w)] = "none"
  BY <1>1, <1>3 DEF TasksInv, ChildrenWait, ChildOf
<1>5. \A v \in Workers : job[v] = job[w] => v = w
  BY <1>1, TasksAssumption DEF TasksInv, Placed
<1>6. \A j \in Tasks : Child[j] = ChildOf(w) => j = job[w]
  BY <1>1, ChildAssumption DEF ChildOf
<1> QED
  BY <1>1, <1>2, <1>4, <1>5, <1>6

\* A step that leaves the queue, the jobs and the futures alone, and after which
\* nobody else runs a callable, moves no task.
LEMMA TasksStay ==
    ASSUME TasksInv, UNCHANGED <<tasks, job, future>>,
           \A w \in Workers : pc'[w] = "run" => pc[w] = "run"
    PROVE  Placed' /\ ChildrenWait'
<1>1. \A k : Queued(k)' <=> Queued(k)
  BY DEF Queued
<1>2. Placed'
  BY <1>1 DEF TasksInv, Placed, HeldBy
<1>3. \A k \in Tasks : BeforeSubmit(k)' => BeforeSubmit(k)
  BY <1>1 DEF BeforeSubmit, HeldBy
<1> QED
  BY <1>2, <1>3 DEF TasksInv, ChildrenWait

\* A refused task was nowhere, and is nowhere.
LEMMA RefusePlaces ==
    ASSUME TypeOK, Placed, NEW x \in Threads, NEW k \in Tasks, NEW from, NEW to,
           future[k] = "none", Refuse(x, k, from, to)
    PROVE  Placed'
<1>1. tasks' = tasks /\ job' = job /\ future' = [future EXCEPT ![k] = "rejected"]
  BY DEF Refuse, poolVars
<1>2. \A j : Queued(j)' <=> Queued(j)
  BY <1>1 DEF Queued
<1>3. \A j \in Tasks : future'[j] = "pending" <=> future[j] = "pending"
  BY <1>1 DEF TypeOK
<1> QED
  BY <1>1, <1>2, <1>3 DEF Placed, HeldBy

LEMMA TakePlaces ==
    ASSUME TasksInv, NEW w \in Workers, WorkerTake(w)
    PROVE  Placed' /\ ChildrenWait'
<1> DEFINE k == Head(tasks)
<1>0. TypeOK /\ Placed /\ ChildrenWait
  BY DEF TasksInv
<1>1. /\ tasks # <<>> /\ tasks' = Tail(tasks) /\ future' = future
      /\ job' = [job EXCEPT ![w] = k]
      /\ pc[w] = "lock" /\ pc' = [pc EXCEPT ![w] = "run"]
  BY DEF WorkerTake, Go
<1>2. /\ k \in Tasks /\ Queued(k)
      /\ \A i, j \in DOMAIN tasks' : tasks'[i] = tasks'[j] => i = j
      /\ \A j : Queued(j)' <=> Queued(j) /\ j # k
  BY <1>0, <1>1, TakenQueue
<1>3. job[w] = NoTask /\ \A v \in Workers : job[v] # k
  BY <1>0, <1>1, <1>2 DEF TypeOK, Placed, Holds
<1>4. \A v \in Workers : job'[v] = IF v = w THEN k ELSE job[v]
  BY <1>0, <1>1 DEF TypeOK
<1>5. \A u, v \in Workers : job'[u] = job'[v] /\ job'[u] # NoTask => u = v
  BY <1>0, <1>3, <1>4 DEF Placed
<1>6. \A v \in Workers : ~Queued(job[v])'
  BY <1>0, <1>2, <1>4 DEF Placed
<1>7. \A j \in Tasks : Queued(j)' \/ (\E v \in Workers : HeldBy(v, j)')
                       <=> Queued(j) \/ (\E v \in Workers : HeldBy(v, j))
  BY <1>2, <1>3, <1>4, TasksAssumption DEF HeldBy
<1>8. Placed'
  BY <1>0, <1>1, <1>2, <1>5, <1>6, <1>7 DEF Placed
<1>9. \A j \in Tasks : BeforeSubmit(j)' => BeforeSubmit(j)
  BY <1>0, <1>1, <1>2, <1>4, WhoIsWhere DEF BeforeSubmit, HeldBy
<1> QED
  BY <1>0, <1>1, <1>8, <1>9 DEF ChildrenWait

\* What a worker whose callable ends has held, and what becomes of it.
LEMMA Finished ==
    ASSUME TasksInv, NEW w \in Workers, WorkerFinish(w)
    PROVE  /\ job[w] \in Tasks /\ future[job[w]] = "pending" /\ Holds(w)
           /\ ~Queued(job[w])
           /\ \A v \in Workers : job[v] = job[w] => v = w
           /\ \E r \in {"value", "exception"} : future' = [future EXCEPT ![job[w]] = r]
           /\ \A v \in Workers : job'[v] = IF v = w THEN NoTask ELSE job[v]
           /\ \A v \in Workers : pc'[v] = IF v = w THEN "lock" ELSE pc[v]
           /\ tasks' = tasks
<1>0. TypeOK /\ Placed
  BY DEF TasksInv
<1>1. Holds(w) /\ job[w] \in Tasks
  BY <1>0 DEF WorkerFinish, TypeOK, Holds
<1>2. future[job[w]] = "pending" /\ ~Queued(job[w])
  BY <1>0, <1>1 DEF Placed, HeldBy
<1>3. \A v \in Workers : job[v] = job[w] => v = w
  BY <1>0, <1>1, TasksAssumption DEF Placed
<1>4. \E r \in {"value", "exception"} : future' = [future EXCEPT ![job[w]] = r]
  BY DEF WorkerFinish, Result
<1>5. /\ \A v \in Workers : job'[v] = IF v = w THEN NoTask ELSE job[v]
      /\ \A v \in Workers : pc'[v] = IF v = w THEN "lock" ELSE pc[v]
      /\ tasks' = tasks
  BY <1>0, WhoIsWhere DEF WorkerFinish, TypeOK, poolVars
<1> QED
  BY <1>1, <1>2, <1>3, <1>4, <1>5

LEMMA FinishPlaces ==
    ASSUME TasksInv, NEW w \in Workers, WorkerFinish(w)
    PROVE  Placed' /\ ChildrenWait'
<1>0. TypeOK /\ Placed /\ ChildrenWait
  BY DEF TasksInv
<1>1. PICK r \in {"value", "exception"} : future' = [future EXCEPT ![job[w]] = r]
  BY Finished
<1>2. \A j \in Tasks : future'[j] = IF j = job[w] THEN r ELSE future[j]
  BY <1>0, <1>1 DEF TypeOK
<1>3. \A j : Queued(j)' <=> Queued(j)
  BY Finished DEF Queued
<1>4. \A v \in Workers : ~Queued(job[v])'
  <2>1. ~Queued(NoTask)
    BY <1>0, TasksAssumption DEF TypeOK, Queued
  <2> QED
    BY <1>0, <1>3, <2>1, Finished DEF Placed
<1>5. \A u, v \in Workers : job'[u] = job'[v] /\ job'[u] # NoTask => u = v
  BY <1>0, Finished DEF Placed
<1>6. \A j \in Tasks : future'[j] = "pending" <=>
                           Queued(j)' \/ \E v \in Workers : HeldBy(v, j)'
  BY <1>0, <1>2, <1>3, Finished, TasksAssumption DEF Placed, HeldBy
<1>7. Placed'
  BY <1>0, <1>4, <1>5, <1>6, Finished DEF Placed
<1>8. \A j \in Tasks : BeforeSubmit(j)' => BeforeSubmit(j)
  BY <1>2, <1>3, Finished, TasksAssumption DEF BeforeSubmit, HeldBy
<1>9. ASSUME NEW j \in Tasks, Child[j] # NoTask, BeforeSubmit(j)'
      PROVE  future'[Child[j]] = "none"
  <2>1. Child[j] \in Tasks /\ future[Child[j]] = "none"
    BY <1>0, <1>8, <1>9, TasksAssumption DEF ChildrenWait
  <2> QED
    BY <1>2, <2>1, Finished
<1> QED
  BY <1>7, <1>9 DEF ChildrenWait

\* The destructor breaks the promises of the queued tasks, and of no other.
LEMMA DestroyPlaces ==
    ASSUME TasksInv, JoinDone
    PROVE  Placed' /\ ChildrenWait'
<1>0. TypeOK /\ Placed /\ ChildrenWait /\ job' = job /\ pc' = pc
  BY DEF TasksInv, JoinDone
<1>1. CASE UNCHANGED <<tasks, future>>
  BY <1>0, <1>1, TasksStay
<1>2. CASE /\ tasks' = <<>>
           /\ future' = [k \in Tasks |-> IF \E i \in DOMAIN tasks : tasks[i] = k
                                         THEN "broken" ELSE future[k]]
  <2>1. \A k \in Tasks : future'[k] = IF Queued(k) THEN "broken" ELSE future[k]
    BY <1>2 DEF Queued
  <2>2. \A k : ~Queued(k)'
    BY <1>2 DEF Queued
  <2>3. \A k \in Tasks : future'[k] = "pending" <=> \E w \in Workers : HeldBy(w, k)'
    BY <1>0, <2>1 DEF Placed, HeldBy
  <2>4. Placed'
    BY <1>0, <1>2, <2>2, <2>3 DEF Placed
  <2>5. ASSUME NEW k \in Tasks, Child[k] # NoTask, BeforeSubmit(k)'
        PROVE  future'[Child[k]] = "none"
    <3>1. BeforeSubmit(k)
      BY <1>0, <2>1, <2>2, <2>5 DEF BeforeSubmit, HeldBy
    <3>2. Child[k] \in Tasks /\ future[Child[k]] = "none"
      BY <1>0, <2>5, <3>1, TasksAssumption DEF ChildrenWait
    <3>3. ~Queued(Child[k])
      BY <1>0, <3>2, NowhereYet
    <3> QED
      BY <2>1, <3>2, <3>3
  <2> QED
    BY <2>4, <2>5 DEF ChildrenWait
<1> QED
  BY <1>1, <1>2 DEF JoinDone

\* One step of the pool keeps every task in its place.
LEMMA TasksStep == TasksInv /\ [Next]_vars => TasksInv'
<1> SUFFICES ASSUME TasksInv, [Next]_vars PROVE Placed' /\ ChildrenWait'
  BY TypeStep DEF TasksInv
<1>0. TypeOK /\ Placed /\ ChildrenWait
  BY DEF TasksInv
<1> DEFINE Goal == Placed' /\ ChildrenWait'
<1>1. ASSUME NEW c \in Clients, ClientSubmit(c) \/ ClientRefused(c) PROVE Goal
  <2>1. PICK k \in Tasks : MaySubmit(k) /\ (Enqueue(c, k, "idle") \/ Refuse(c, k, "idle", "idle"))
    BY <1>1 DEF ClientSubmit, ClientRefused
  <2>2. future[k] = "none" /\ \A j \in Tasks : Child[j] # k
    BY <2>1 DEF MaySubmit, Roots
  <2>3. c \in Threads
    BY DEF Threads
  <2>4. Placed'
    BY <1>0, <2>1, <2>2, <2>3, EnqueuePlaces, RefusePlaces
  <2>5. ChildrenWait'
    <3>1. CASE Enqueue(c, k, "idle")
      BY <1>0, <2>2, <2>3, <3>1, SubmitWaits
    <3>2. CASE Refuse(c, k, "idle", "idle")
      <4>1. \A j : Queued(j)' <=> Queued(j)
        BY <3>2 DEF Refuse, poolVars, Queued
      <4>2. \A j \in Tasks : BeforeSubmit(j)' => BeforeSubmit(j)
        BY <1>0, <3>2, <4>1 DEF Refuse, Go, BeforeSubmit, HeldBy, TypeOK
      <4> QED
        BY <1>0, <2>2, <3>2, <4>2, TasksAssumption DEF Refuse, ChildrenWait, TypeOK
    <3> QED
      BY <2>1, <3>1, <3>2
  <2> QED
    BY <2>4, <2>5
<1>2. ASSUME NEW x \in Threads, Notify(x) PROVE Goal
  <2>1. \A w \in Workers : pc'[w] = "run" => pc[w] = "run"
    BY <1>0, <1>2, NotifyMoves, WhoIsWhere
  <2> QED
    BY <1>2, <2>1, TasksStay DEF Notify, poolVars
<1>3. ASSUME NEW w \in Workers, WorkerSubmit(w) \/ WorkerRefused(w) PROVE Goal
  <2>1. /\ pc[w] = "run" /\ ChildOf(w) # NoTask /\ w \in Threads
        /\ Enqueue(w, ChildOf(w), "run") \/ Refuse(w, ChildOf(w), "run", "rest")
    BY <1>3 DEF WorkerSubmit, WorkerRefused, Threads
  <2>2. Placed'
    BY <1>0, <2>1, OwnChild, EnqueuePlaces, RefusePlaces
  <2>3. ~BeforeSubmit(job[w])'
    <3>1. future'[job[w]] = "pending"
      BY <1>0, <2>1, OwnChild DEF Enqueue, Refuse, TypeOK
    <3>2. ~(\E i \in DOMAIN tasks' : tasks'[i] = job[w])
      BY <1>0, <2>1, OwnChild, AppendedQueue DEF Enqueue, Refuse, poolVars, Queued
    <3>3. \A v \in Workers : job'[v] = job[w] => pc'[v] # "run"
      BY <1>0, <2>1, OwnChild, WhoIsWhere DEF Enqueue, Refuse, Go
    <3>4. job' = job
      BY <2>1 DEF Enqueue, Refuse
    <3> QED
      BY <3>1, <3>2, <3>3, <3>4 DEF BeforeSubmit, HeldBy, Queued
  <2>4. \A j \in Tasks : Child[j] = ChildOf(w) => ~BeforeSubmit(j)'
    <3>1. job' = job
      BY <2>1 DEF Enqueue, Refuse
    <3>2. \A j : j = job[w] => (BeforeSubmit(j)' <=> BeforeSubmit(job[w])')
      BY <3>1 DEF BeforeSubmit, HeldBy, Queued
    <3> QED
      BY <2>1, <2>3, <3>2, OwnChild
  <2>5. ChildrenWait'
    BY <1>0, <2>1, <2>4, OwnChild, SubmitWaits
  <2> QED
    BY <2>2, <2>5
<1>4. ASSUME NEW w \in Workers, WorkerWait(w) \/ WorkerExit(w) \/ Spurious(w) PROVE Goal
  <2>1. \A v \in Workers : pc'[v] = "run" => pc[v] = "run"
    BY <1>0, <1>4, WhoIsWhere DEF WorkerWait, WorkerExit, Spurious, Go
  <2> QED
    BY <1>4, <2>1, TasksStay DEF WorkerWait, WorkerExit, Spurious, poolVars
<1>5. ASSUME NEW w \in Workers, WorkerTake(w) PROVE Goal
  BY <1>5, TakePlaces
<1>6. ASSUME NEW w \in Workers, WorkerFinish(w) PROVE Goal
  BY <1>6, FinishPlaces
<1>7. ASSUME CallExtend \/ SpawnFail \/ ExtendDone \/ JoinStop PROVE Goal
  BY <1>7, TasksStay DEF CallExtend, SpawnFail, ExtendDone, JoinStop, poolVars
<1>8. ASSUME Spawn \/ JoinNotify PROVE Goal
  <2>1. \A w \in Workers : pc'[w] = "run" => pc[w] = "run"
    BY <1>0, <1>8, WhoIsWhere DEF Spawn, JoinNotify
  <2> QED
    BY <1>8, <2>1, TasksStay DEF Spawn, JoinNotify, poolVars
<1>9. ASSUME JoinDone PROVE Goal
  BY <1>9, DestroyPlaces
<1>10. CASE UNCHANGED vars
  BY <1>10, TasksStay DEF vars
<1> QED
  BY <1>1, <1>2, <1>3, <1>4, <1>5, <1>6, <1>7, <1>8, <1>9, <1>10
     DEF Next, WorkerStep, OwnerStep, Threads

\* TasksInv is an invariant.
LEMMA TasksInvariant == Spec => []TasksInv
<1>1. Init => TasksInv
  <2> SUFFICES ASSUME Init PROVE TasksInv
    OBVIOUS
  <2>1. TypeOK
    BY TypeInit
  <2>2. \A k : ~Queued(k)
    BY DEF Init, Queued
  <2>3. \A w \in Workers : job[w] = NoTask
    BY DEF Init
  <2>4. \A k \in Tasks : future[k] = "none"
    BY DEF Init
  <2>5. Placed
    BY <2>2, <2>3, <2>4, TasksAssumption DEF Init, Placed, HeldBy
  <2>6. ChildrenWait
    BY <2>4, TasksAssumption DEF ChildrenWait
  <2> QED
    BY <2>1, <2>5, <2>6 DEF TasksInv
<1> QED
  BY <1>1, TasksStep, PTL DEF Spec

\* Counting again: the places of a pending task, in the queue and at workers,
\* are one; no other task has any.
LEMMA PlacedOnce == TasksInv => HeldOnce
<1> SUFFICES ASSUME TasksInv, NEW k \in Tasks
             PROVE  Cardinality({i \in DOMAIN tasks : tasks[i] = k})
                      + Cardinality({w \in Workers : job[w] = k})
                    = IF future[k] = "pending" THEN 1 ELSE 0
  BY DEF HeldOnce
<1> DEFINE I == {i \in DOMAIN tasks : tasks[i] = k}
           W == {w \in Workers : job[w] = k}
<1>0. TypeOK /\ Placed /\ k # NoTask
  BY TasksAssumption DEF TasksInv
<1>1. CASE future[k] # "pending"
  <2>1. I = {} /\ W = {}
    BY <1>0, <1>1, NowhereYet DEF Queued
  <2> QED
    BY <1>1, <2>1, FS_EmptySet
<1>2. CASE Queued(k)
  <2>1. PICK i \in DOMAIN tasks : tasks[i] = k
    BY <1>2 DEF Queued
  <2>2. I = {i} /\ W = {}
    BY <1>0, <1>2, <2>1 DEF Placed
  <2>3. Cardinality(I) = 1 /\ Cardinality(W) = 0 /\ future[k] = "pending"
    BY <1>0, <1>2, <2>2, FS_EmptySet, FS_Singleton DEF Placed
  <2> QED
    BY <2>3
<1>3. ASSUME NEW w \in Workers, job[w] = k
      PROVE  Cardinality(I) + Cardinality(W) = 1 /\ future[k] = "pending"
  <2>1. I = {} /\ W = {w}
    BY <1>0, <1>3 DEF Placed, Queued
  <2>2. Cardinality(I) = 0 /\ Cardinality(W) = 1
    BY <2>1, FS_EmptySet, FS_Singleton
  <2> QED
    BY <1>0, <1>3, <2>2 DEF Placed, HeldBy
<1> QED
  BY <1>0, <1>1, <1>2, <1>3 DEF Placed, HeldBy

\* A pending task is in the queue once or at one worker, and no other task is
\* anywhere: the pool drops no task and runs none twice.
THEOREM TasksHeldOnce == Spec => []HeldOnce
BY TasksInvariant, PlacedOnce, PTL
-----------------------------------------------------------------------------
(* No wakeup is lost.  Each step that queues a task makes its thread a        *)
(* helper; a helper leaves by taking a task, by sending a sleeper in its      *)
(* place, or when there is no task or no sleeper.                             *)

Helpers == At("notify") \cup At("lock")

LEMMA HelpersCounted == Helpers \subseteq Threads /\ Cardinality(Helpers) \in Nat
BY ThreadSets DEF Helpers, At

\* A step after which nobody new sleeps, no task is new and no helper is gone.
LEMMA WakeupKept ==
    ASSUME TypeOK, NoLostWakeup, tasks' = tasks, At("wait")' \subseteq At("wait"),
           Helpers \subseteq Helpers'
    PROVE  NoLostWakeup'
<1>1. Helpers' \subseteq Threads
  BY DEF Helpers, At
<1>2. IsFiniteSet(Helpers') /\ Cardinality(Helpers') \in Nat
  BY <1>1, ThreadSets
<1>3. Cardinality(Helpers) <= Cardinality(Helpers')
  BY <1>2, FS_Subset
<1>4. Len(tasks) \in Nat /\ Cardinality(Helpers) \in Nat
  BY HelpersCounted DEF TypeOK
<1> QED
  BY <1>2, <1>3, <1>4 DEF NoLostWakeup, Helpers

\* submit: one task more, and one helper more.
LEMMA WakeupEnqueued ==
    ASSUME TypeOK, NoLostWakeup, NEW x \in Threads, NEW k \in Tasks,
           NEW from \in {"idle", "run"}, Enqueue(x, k, from)
    PROVE  NoLostWakeup'
<1>1. /\ x \notin Helpers /\ Helpers' = Helpers \cup {x}
      /\ At("wait")' = At("wait")
  BY WhoIsWhere DEF Enqueue, Go, Helpers, At
<1>2. Cardinality(Helpers') = Cardinality(Helpers) + 1
  BY <1>1, HelpersCounted, ThreadSets, FS_AddElement
<1>3. Len(tasks') = Len(tasks) + 1 /\ Len(tasks) \in Nat
  BY DEF Enqueue, TypeOK
<1> QED
  BY <1>1, <1>2, <1>3, HelpersCounted DEF NoLostWakeup, Helpers

\* notify_one: a sleeper takes the place of the helper, or nobody sleeps.
LEMMA WakeupNotified ==
    ASSUME TypeOK, NoLostWakeup, NEW x \in Threads, Notify(x)
    PROVE  NoLostWakeup'
<1>0. pc[x] = "notify" /\ tasks' = tasks
  BY DEF Notify, poolVars
<1>1. CASE At("wait") = {} /\ pc' = [pc EXCEPT ![x] = IF x \in Clients THEN "idle" ELSE "rest"]
  <2>1. At("wait")' = {}
    BY <1>1, WhoIsWhere DEF At
  <2> QED
    BY <2>1 DEF NoLostWakeup
<1>2. ASSUME NEW w \in At("wait"), w \in Workers, w # x,
             \A u \in Threads : pc'[u] = IF u = x THEN IF x \in Clients THEN "idle" ELSE "rest"
                                         ELSE IF u = w THEN "lock" ELSE pc[u]
      PROVE  NoLostWakeup'
  <2>1. x \in Helpers /\ w \in Threads /\ w \notin Helpers
    BY <1>0, <1>2 DEF Helpers, At
  <2>2. Helpers' = (Helpers \ {x}) \cup {w} /\ At("wait")' \subseteq At("wait")
    BY <1>0, <1>2, <2>1 DEF Helpers, At
  <2>3. Cardinality(Helpers \ {x}) = Cardinality(Helpers) - 1 /\ IsFiniteSet(Helpers \ {x})
    BY <2>1, HelpersCounted, ThreadSets, FS_RemoveElement
  <2>4. Cardinality((Helpers \ {x}) \cup {w}) = Cardinality(Helpers \ {x}) + 1
    BY <2>1, <2>3, FS_AddElement
  <2>5. Cardinality(Helpers') = Cardinality(Helpers)
    BY <2>2, <2>3, <2>4, HelpersCounted
  <2> QED
    BY <1>0, <1>2, <2>2, <2>5 DEF NoLostWakeup, Helpers
<1> QED
  BY <1>1, <1>2, NotifyMoves

LEMMA WakeupStep == TypeOK /\ NoLostWakeup /\ [Next]_vars => NoLostWakeup'
<1> SUFFICES ASSUME TypeOK, NoLostWakeup, [Next]_vars PROVE NoLostWakeup'
  OBVIOUS
<1>1. ASSUME NEW c \in Clients, ClientSubmit(c) PROVE NoLostWakeup'
  BY <1>1, WakeupEnqueued DEF ClientSubmit, Threads
<1>2. ASSUME NEW c \in Clients, ClientRefused(c) PROVE NoLostWakeup'
  <2>1. Helpers' = Helpers /\ At("wait")' = At("wait") /\ tasks' = tasks
    BY <1>2, WhoIsWhere DEF ClientRefused, Refuse, Go, poolVars, Helpers, At
  <2> QED
    BY <2>1, WakeupKept
<1>3. ASSUME NEW x \in Threads, Notify(x) PROVE NoLostWakeup'
  BY <1>3, WakeupNotified
<1>4. ASSUME NEW w \in Workers, WorkerSubmit(w) PROVE NoLostWakeup'
  BY <1>4, ChildIsTask, WakeupEnqueued DEF WorkerSubmit, Threads
<1>5. ASSUME NEW w \in Workers, WorkerRefused(w) \/ WorkerFinish(w) \/ Spurious(w)
      PROVE  NoLostWakeup'
  <2>1. /\ pc[w] \in {"run", "rest", "wait"} /\ tasks' = tasks
        /\ \E l \in {"rest", "lock"} : pc' = [pc EXCEPT ![w] = l]
    BY <1>5 DEF WorkerRefused, Refuse, WorkerFinish, Spurious, Go, poolVars
  <2>2. Helpers \subseteq Helpers' /\ At("wait")' \subseteq At("wait")
    BY <2>1, WhoIsWhere DEF Helpers, At
  <2> QED
    BY <2>1, <2>2, WakeupKept
<1>6. ASSUME NEW w \in Workers, WorkerWait(w) \/ WorkerExit(w) PROVE NoLostWakeup'
  <2>1. Len(tasks') = 0
    BY <1>6 DEF WorkerWait, WorkerExit, poolVars
  <2>2. Helpers' \subseteq Threads
    BY DEF Helpers, At
  <2> QED
    BY <2>1, <2>2, ThreadSets DEF NoLostWakeup, Helpers
<1>7. ASSUME NEW w \in Workers, WorkerTake(w) PROVE NoLostWakeup'
  <2>1. /\ w \in Helpers /\ Helpers' = Helpers \ {w}
        /\ At("wait")' = At("wait")
    BY <1>7, WhoIsWhere DEF WorkerTake, Go, Helpers, At
  <2>2. Cardinality(Helpers') = Cardinality(Helpers) - 1
    BY <2>1, HelpersCounted, ThreadSets, FS_RemoveElement
  <2>3. Len(tasks') = Len(tasks) - 1 /\ Len(tasks) \in Nat
    BY <1>7 DEF WorkerTake, TypeOK
  <2> QED
    BY <2>1, <2>2, <2>3, HelpersCounted DEF NoLostWakeup, Helpers
<1>8. ASSUME Spawn PROVE NoLostWakeup'
  <2>1. Helpers \subseteq Helpers' /\ At("wait")' = At("wait") /\ tasks' = tasks
    BY <1>8, WhoIsWhere DEF Spawn, Fresh, Helpers, At, poolVars
  <2> QED
    BY <2>1, WakeupKept
<1>9. ASSUME JoinNotify PROVE NoLostWakeup'
  <2>1. At("wait")' = {}
    BY <1>9 DEF JoinNotify, At
  <2> QED
    BY <2>1 DEF NoLostWakeup
<1>10. ASSUME CallExtend \/ SpawnFail \/ ExtendDone \/ JoinStop \/ UNCHANGED vars
       PROVE  NoLostWakeup'
  <2>1. pc' = pc /\ tasks' = tasks
    BY <1>10 DEF CallExtend, SpawnFail, ExtendDone, JoinStop, vars, poolVars
  <2> QED
    BY <2>1, WakeupKept DEF Helpers, At
<1>11. ASSUME JoinDone PROVE NoLostWakeup'
  <2>1. pc' = pc /\ (tasks' = tasks \/ tasks' = <<>>)
    BY <1>11 DEF JoinDone
  <2>2. tasks' = <<>> => Len(tasks') = 0
    OBVIOUS
  <2> QED
    BY <2>1, <2>2, WakeupKept, HelpersCounted DEF NoLostWakeup, Helpers, At
<1> QED
  BY <1>1, <1>2, <1>3, <1>4, <1>5, <1>6, <1>7, <1>8, <1>9, <1>10, <1>11
     DEF Next, WorkerStep, OwnerStep, Threads

\* While a worker sleeps, there is for every queued task a thread about to
\* notify or a worker about to look at the queue.
THEOREM WakeupsKept == Spec => []NoLostWakeup
<1>1. Init => NoLostWakeup
  BY DEF Init, NoLostWakeup, At
<1> QED
  BY <1>1, WakeupStep, TypeCorrect, PTL DEF Spec
-----------------------------------------------------------------------------
(* The owner: what join wakes, what it leaves, what the destructor breaks.    *)

\* Once the pool is stopping a worker sleeps only until join notifies.
LEMMA StopStep == TypeOK /\ StopWakesWorkers /\ [Next]_vars => StopWakesWorkers'
<1> SUFFICES ASSUME TypeOK, StopWakesWorkers, [Next]_vars PROVE StopWakesWorkers'
  OBVIOUS
<1>1. ASSUME NEW x \in Threads, Notify(x) PROVE StopWakesWorkers'
  <2>1. At("wait")' \subseteq At("wait")
    BY <1>1, NotifyMoves, WhoIsWhere DEF Notify, At
  <2> QED
    BY <1>1, <2>1 DEF Notify, poolVars, ownerVars, StopWakesWorkers
<1>2. ASSUME NEW c \in Clients, ClientSubmit(c) \/ ClientRefused(c) PROVE StopWakesWorkers'
  <2>1. At("wait")' \subseteq At("wait")
    BY <1>2, WhoIsWhere DEF ClientSubmit, ClientRefused, Enqueue, Refuse, Go, At
  <2> QED
    BY <1>2, <2>1 DEF ClientSubmit, ClientRefused, Enqueue, Refuse, poolVars, ownerVars,
                      StopWakesWorkers
<1>3. ASSUME NEW w \in Workers, WorkerSubmit(w) \/ WorkerRefused(w) \/ WorkerExit(w)
                                \/ WorkerTake(w) \/ WorkerFinish(w) \/ Spurious(w)
      PROVE  StopWakesWorkers'
  <2>1. At("wait")' \subseteq At("wait")
    BY <1>3, WhoIsWhere DEF WorkerSubmit, WorkerRefused, Enqueue, Refuse, WorkerExit, WorkerTake,
                            WorkerFinish, Spurious, Go, At
  <2>2. stopping' = stopping /\ owner' = owner
    BY <1>3 DEF WorkerSubmit, WorkerRefused, Enqueue, Refuse, WorkerExit, WorkerTake,
                WorkerFinish, Spurious, poolVars, ownerVars
  <2> QED
    BY <2>1, <2>2 DEF StopWakesWorkers
<1>4. ASSUME NEW w \in Workers, WorkerWait(w) PROVE StopWakesWorkers'
  BY <1>4 DEF WorkerWait, poolVars, StopWakesWorkers
<1>5. ASSUME Spawn PROVE StopWakesWorkers'
  <2>1. At("wait")' = At("wait")
    BY <1>5, WhoIsWhere DEF Spawn, Fresh, At
  <2> QED
    BY <1>5, <2>1 DEF Spawn, poolVars, StopWakesWorkers
<1>6. ASSUME CallExtend \/ SpawnFail \/ ExtendDone \/ JoinStop \/ JoinDone PROVE StopWakesWorkers'
  BY <1>6 DEF CallExtend, SpawnFail, ExtendDone, JoinStop, JoinDone, poolVars, StopWakesWorkers, At
<1>7. ASSUME JoinNotify PROVE StopWakesWorkers'
  <2>1. At("wait")' = {}
    BY <1>7 DEF JoinNotify, At
  <2> QED
    BY <2>1 DEF StopWakesWorkers
<1>8. CASE UNCHANGED vars
  BY <1>8 DEF vars, StopWakesWorkers, At
<1> QED
  BY <1>1, <1>2, <1>3, <1>4, <1>5, <1>6, <1>7, <1>8 DEF Next, WorkerStep, OwnerStep, Threads

\* join and the destructor leave no worker asleep for ever.
THEOREM StopWakesEveryWorker == Spec => []StopWakesWorkers
<1>1. Init => StopWakesWorkers
  BY DEF Init, StopWakesWorkers
<1> QED
  BY <1>1, StopStep, TypeCorrect, PTL DEF Spec

\* What the owner can rely on: every thread that runs is in workers_, a join in
\* progress has raised stopping_, and a pool that is gone is at rest.
OwnerKnows ==
    /\ Live \subseteq workers
    /\ owner \in {"joinNotify", "joinWait"} => stopping
    /\ life = "destroying" => owner \in {"joinNotify", "joinWait"}
    /\ life \in {"gone", "terminated"} => owner = "idle"

\* A worker leaves only a pool that is stopping and has no task, and such a pool
\* gets none.
ExitedLast == At("exited") # {} => stopping /\ tasks = <<>>

BrokenAtEnd == (\E k \in Tasks : future[k] = "broken") => life = "gone" /\ Workers = Fresh

OwnerInv == OwnerKnows /\ ExitedLast /\ BrokenAtEnd

\* A step of a client or a worker, as the owner sees it.
ThreadStep ==
    /\ UNCHANGED <<stopping, ownerVars>>
    /\ \A w \in Workers : /\ pc'[w] = "none" <=> pc[w] = "none"
                          /\ pc[w] = "exited" => pc'[w] = "exited"
                          /\ pc'[w] = "exited" => \/ pc[w] = "exited"
                                                  \/ stopping /\ tasks = <<>>
    /\ stopping /\ tasks = <<>> => tasks' = <<>>
    /\ \A k \in Tasks : future'[k] = "broken" => future[k] = "broken"

LEMMA ThreadSteps ==
    ASSUME TypeOK,
           \/ \E c \in Clients : ClientSubmit(c) \/ ClientRefused(c)
           \/ \E x \in Threads : Notify(x)
           \/ \E w \in Workers : WorkerStep(w) \/ Spurious(w)
    PROVE  ThreadStep
<1>1. ASSUME NEW x \in Threads, Notify(x) PROVE ThreadStep
  <2>1. \A w \in Workers : /\ pc'[w] = "none" <=> pc[w] = "none"
                           /\ pc[w] = "exited" <=> pc'[w] = "exited"
    BY <1>1, NotifyMoves, WhoIsWhere DEF Notify, At
  <2> QED
    BY <1>1, <2>1 DEF Notify, poolVars, ThreadStep
<1>2. ASSUME NEW c \in Clients, ClientSubmit(c) \/ ClientRefused(c) PROVE ThreadStep
  <2>1. PICK k \in Tasks : Enqueue(c, k, "idle") \/ Refuse(c, k, "idle", "idle")
    BY <1>2 DEF ClientSubmit, ClientRefused
  <2>2. \A w \in Workers : pc'[w] = pc[w]
    BY <2>1, WhoIsWhere DEF Enqueue, Refuse, Go
  <2>3. \A j \in Tasks : future'[j] = "broken" => future[j] = "broken"
    BY <2>1 DEF Enqueue, Refuse, TypeOK
  <2> QED
    BY <2>1, <2>2, <2>3 DEF Enqueue, Refuse, poolVars, ThreadStep
<1>3. ASSUME NEW w \in Workers, WorkerSubmit(w) \/ WorkerRefused(w) PROVE ThreadStep
  <2>1. /\ pc[w] = "run" /\ ChildOf(w) \in Tasks
        /\ Enqueue(w, ChildOf(w), "run") \/ Refuse(w, ChildOf(w), "run", "rest")
    BY <1>3, ChildIsTask DEF WorkerSubmit, WorkerRefused
  <2>2. \A v \in Workers : \/ pc'[v] = pc[v]
                           \/ pc[v] = "run" /\ pc'[v] \in {"notify", "rest"}
    <3>1. \E l \in {"notify", "rest"} : pc' = [pc EXCEPT ![w] = l]
      BY <2>1 DEF Enqueue, Refuse, Go
    <3> QED
      BY <2>1, <3>1, WhoIsWhere
  <2>3. \A j \in Tasks : future'[j] = "broken" => future[j] = "broken"
    BY <2>1 DEF Enqueue, Refuse, TypeOK
  <2> QED
    BY <2>1, <2>2, <2>3 DEF Enqueue, Refuse, poolVars, ThreadStep
<1>4. ASSUME NEW w \in Workers, WorkerWait(w) \/ WorkerExit(w) \/ Spurious(w) PROVE ThreadStep
  BY <1>4, WhoIsWhere DEF WorkerWait, WorkerExit, Spurious, Go, poolVars, ThreadStep
<1>5. ASSUME NEW w \in Workers, WorkerTake(w) PROVE ThreadStep
  BY <1>5, WhoIsWhere DEF WorkerTake, Go, ThreadStep
<1>6. ASSUME NEW w \in Workers, WorkerFinish(w) PROVE ThreadStep
  <2>1. \A j \in Tasks : future'[j] = "broken" => future[j] = "broken"
    BY <1>6 DEF WorkerFinish, Result, TypeOK
  <2> QED
    BY <1>6, <2>1, WhoIsWhere DEF WorkerFinish, poolVars, ThreadStep
<1> QED
  BY <1>1, <1>2, <1>3, <1>4, <1>5, <1>6 DEF WorkerStep, Threads

LEMMA OwnerInvStep == TypeOK /\ OwnerInv /\ [Next]_vars => OwnerInv'
<1> SUFFICES ASSUME TypeOK, OwnerInv, [Next]_vars PROVE OwnerInv'
  OBVIOUS
<1> USE WhoIsWhere
<1>0. OwnerKnows /\ ExitedLast /\ BrokenAtEnd
  BY DEF OwnerInv
<1>1. CASE ThreadStep
  <2>1. OwnerKnows'
    BY <1>0, <1>1 DEF ThreadStep, OwnerKnows, Live, ownerVars
  <2>2. ExitedLast'
    <3>1. \A x \in Threads : pc'[x] = "exited" => x \in Workers
      BY TypeStep DEF TypeOK
    <3> QED
      BY <1>0, <1>1, <3>1 DEF ThreadStep, ExitedLast, At
  <2>3. BrokenAtEnd'
    BY <1>0, <1>1 DEF ThreadStep, BrokenAtEnd, Fresh, ownerVars
  <2> QED
    BY <2>1, <2>2, <2>3 DEF OwnerInv
<1>2. CASE CallExtend \/ ExtendDone \/ JoinStop
  <2>1. OwnerKnows'
    BY <1>0, <1>2 DEF CallExtend, ExtendDone, JoinStop, poolVars, OwnerKnows, Live, TypeOK
  <2>2. ExitedLast'
    BY <1>0, <1>2 DEF CallExtend, ExtendDone, JoinStop, poolVars, ExitedLast, At
  <2>3. BrokenAtEnd'
    BY <1>0, <1>2 DEF CallExtend, ExtendDone, JoinStop, OwnerKnows, BrokenAtEnd, Fresh
  <2> QED
    BY <2>1, <2>2, <2>3 DEF OwnerInv
<1>3. CASE SpawnFail
  <2>1. OwnerKnows'
    BY <1>0, <1>3 DEF SpawnFail, poolVars, OwnerKnows, Live
  <2>2. ExitedLast'
    BY <1>0, <1>3 DEF SpawnFail, poolVars, ExitedLast, At
  <2>3. BrokenAtEnd'
    BY <1>0, <1>3 DEF SpawnFail, OwnerKnows, BrokenAtEnd, Fresh
  <2> QED
    BY <2>1, <2>2, <2>3 DEF OwnerInv
<1>4. CASE Spawn
  <2>1. PICK w \in Fresh : workers' = workers \cup {w} /\ pc' = [pc EXCEPT ![w] = "lock"]
    BY <1>4 DEF Spawn
  <2>2. UNCHANGED <<poolVars, future, owner, life>> /\ owner = "extend"
    BY <1>4 DEF Spawn
  <2>3. OwnerKnows'
    BY <1>0, <2>1, <2>2 DEF poolVars, OwnerKnows, Live, Fresh
  <2>4. ExitedLast'
    BY <1>0, <2>1, <2>2 DEF poolVars, ExitedLast, At, Fresh
  <2>5. BrokenAtEnd'
    BY <1>0, <2>2 DEF OwnerKnows, BrokenAtEnd
  <2> QED
    BY <2>3, <2>4, <2>5 DEF OwnerInv
<1>5. CASE JoinNotify
  <2>1. /\ \A x \in Threads : pc'[x] = IF pc[x] = "wait" THEN "lock" ELSE pc[x]
        /\ UNCHANGED <<poolVars, workers, future, life>>
        /\ owner = "joinNotify" /\ owner' = "joinWait"
    BY <1>5 DEF JoinNotify
  <2>2. OwnerKnows'
    BY <1>0, <2>1 DEF poolVars, OwnerKnows, Live
  <2>3. ExitedLast'
    BY <1>0, <2>1 DEF poolVars, ExitedLast, At
  <2>4. BrokenAtEnd'
    BY <1>0, <2>1 DEF OwnerKnows, BrokenAtEnd
  <2> QED
    BY <2>2, <2>3, <2>4 DEF OwnerInv
<1>6. CASE JoinDone
  <2>1. Live = {} /\ Live' = {}
    BY <1>0, <1>6 DEF JoinDone, JoinedAll, OwnerKnows, Live
  <2>2. OwnerKnows'
    BY <1>0, <1>6, <2>1 DEF JoinDone, OwnerKnows
  <2>3. ExitedLast'
    BY <1>0, <1>6 DEF JoinDone, ExitedLast, At
  <2>4. BrokenAtEnd'
    <3>1. CASE UNCHANGED <<life, tasks, future>>
      BY <1>0, <1>6, <3>1 DEF JoinDone, BrokenAtEnd, Fresh
    <3>2. CASE /\ life' = "gone" /\ life = "destroying"
               /\ future' = [k \in Tasks |-> IF \E i \in DOMAIN tasks : tasks[i] = k
                                             THEN "broken" ELSE future[k]]
      <4>1. \A k \in Tasks : future[k] # "broken"
        BY <1>0, <3>2 DEF BrokenAtEnd
      <4>2. ASSUME NEW k \in Tasks, future'[k] = "broken" PROVE tasks # <<>>
        BY <3>2, <4>1, <4>2
      <4>3. tasks # <<>> => At("exited") = {}
        BY <1>0 DEF ExitedLast
      <4>4. At("exited") = {} => Workers = Fresh'
        BY <1>6, <2>1 DEF At, Live, Fresh, JoinDone
      <4> QED
        BY <3>2, <4>2, <4>3, <4>4 DEF BrokenAtEnd
    <3> QED
      BY <1>6, <3>1, <3>2 DEF JoinDone
  <2> QED
    BY <2>2, <2>3, <2>4 DEF OwnerInv
<1>7. CASE UNCHANGED vars
  BY <1>0, <1>7 DEF vars, OwnerInv, OwnerKnows, ExitedLast, BrokenAtEnd, Live, At, Fresh
<1> QED
  BY <1>1, <1>2, <1>3, <1>4, <1>5, <1>6, <1>7, ThreadSteps DEF Next, OwnerStep, Threads

LEMMA OwnerInvariant == Spec => []OwnerInv
<1>1. Init => OwnerInv
  <2> SUFFICES ASSUME Init PROVE OwnerInv
    OBVIOUS
  <2>1. \A w \in Workers : pc[w] = "none"
    BY ActorsAssumption DEF Init, Threads
  <2>2. At("exited") = {}
    BY DEF Init, At
  <2>3. \A k \in Tasks : future[k] # "broken"
    BY DEF Init
  <2> QED
    BY <2>1, <2>2, <2>3 DEF Init, OwnerInv, OwnerKnows, ExitedLast, BrokenAtEnd, Live
<1> QED
  BY <1>1, OwnerInvStep, TypeCorrect, PTL DEF Spec

\* No worker leaves tasks behind, and when join has returned from joining
\* workers every future is decided.
THEOREM JoinLeavesNothing == Spec => []JoinDrains
<1>1. TasksInv /\ OwnerInv => JoinDrains
  <2> SUFFICES ASSUME TasksInv, OwnerInv, workers = {}, At("exited") # {},
                      NEW k \in Tasks, future[k] = "pending"
               PROVE  FALSE
    BY DEF JoinDrains, OwnerInv, ExitedLast
  <2>1. ~Queued(k)
    BY DEF OwnerInv, ExitedLast, Queued
  <2>2. PICK w \in Workers : job[w] = k
    BY <2>1 DEF TasksInv, Placed, HeldBy
  <2>3. Holds(w)
    BY <2>2, TasksAssumption DEF TasksInv, TypeOK
  <2>4. w \in Live
    BY <2>3 DEF Holds, Live
  <2> QED
    BY <2>4 DEF OwnerInv, OwnerKnows
<1> QED
  BY <1>1, TasksInvariant, OwnerInvariant, PTL

\* The destructor breaks a promise only when the pool never had a worker.
THEOREM BrokenUnserved == Spec => []BrokenOnlyUnserved
<1>1. OwnerInv => BrokenOnlyUnserved
  BY DEF OwnerInv, BrokenAtEnd, BrokenOnlyUnserved
<1> QED
  BY <1>1, OwnerInvariant, PTL
-----------------------------------------------------------------------------
(* The pool implements TaskService: taking a task from the queue starts it,   *)
(* the end of its callable ends it, raising stopping_ closes the service, and *)
(* the destructor abandons what was never started.  Waiting, waking and       *)
(* starting threads are invisible.                                            *)

RunningTasks == {job[w] : w \in {v \in Workers : Holds(v)}}

\* The tasks that run are those that are held.
LEMMA RunningIsHeld ==
    ASSUME TypeOK, NEW k \in Tasks
    PROVE  k \in RunningTasks <=> \E w \in Workers : job[w] = k
BY TasksAssumption DEF RunningTasks, TypeOK

\* A step that neither takes nor ends a task leaves the same ones running.
LEMMA RunningStays ==
    ASSUME job' = job, \A w \in Workers : Holds(w)' <=> Holds(w)
    PROVE  RunningTasks' = RunningTasks
BY DEF RunningTasks

LEMMA EnqueueAccepts ==
    ASSUME TypeOK, NEW x \in Threads, NEW k \in Tasks, NEW from,
           \/ x \in Clients /\ from = "idle"
           \/ x \in Workers /\ from = "run",
           future[k] = "none", Enqueue(x, k, from)
    PROVE  Service!Accept(k)
<1>1. \A w \in Workers : Holds(w)' <=> Holds(w)
  BY WhoIsWhere DEF Enqueue, Go, Holds
<1>2. RunningTasks' = RunningTasks
  BY <1>1, RunningStays DEF Enqueue
<1> QED
  BY <1>2 DEF Enqueue, Service!Accept, Service!Decide, RunningTasks

LEMMA RefuseRefuses ==
    ASSUME TypeOK, NEW x \in Threads, NEW k \in Tasks, NEW from, NEW to,
           \/ x \in Clients /\ from = "idle" /\ to = "idle"
           \/ x \in Workers /\ from = "run" /\ to = "rest",
           future[k] = "none", Refuse(x, k, from, to)
    PROVE  Service!Refuse(k)
<1>1. \A w \in Workers : Holds(w)' <=> Holds(w)
  BY WhoIsWhere DEF Refuse, Go, Holds
<1>2. RunningTasks' = RunningTasks
  BY <1>1, RunningStays DEF Refuse
<1> QED
  BY <1>2 DEF Refuse, poolVars, Service!Refuse, Service!Decide, RunningTasks

LEMMA TakeBegins ==
    ASSUME TasksInv, NEW w \in Workers, WorkerTake(w)
    PROVE  Service!Begin
<1>1. /\ tasks # <<>> /\ tasks' = Tail(tasks) /\ ~Holds(w)
      /\ \A v \in Workers : job'[v] = IF v = w THEN Head(tasks) ELSE job[v]
      /\ \A v \in Workers : pc'[v] = IF v = w THEN "run" ELSE pc[v]
  BY WhoIsWhere DEF TasksInv, TypeOK, WorkerTake, Go, Holds
<1>2. \A v \in Workers : Holds(v)' <=> v = w \/ Holds(v)
  BY <1>1 DEF Holds
<1>3. RunningTasks' = RunningTasks \cup {Head(tasks)}
  BY <1>1, <1>2 DEF RunningTasks
<1> QED
  BY <1>1, <1>3 DEF WorkerTake, Service!Begin, RunningTasks

LEMMA FinishFinishes ==
    ASSUME TasksInv, NEW w \in Workers, WorkerFinish(w), NEW k \in Tasks, k = job[w]
    PROVE  Service!Finish(k)
<1>1. \A v \in Workers : Holds(v)' <=> v # w /\ Holds(v)
  BY Finished DEF Holds
<1>2. RunningTasks' = RunningTasks \ {k}
  BY <1>1, Finished DEF RunningTasks
<1>3. k \in RunningTasks
  BY Finished DEF RunningTasks
<1>4. \E r \in {"value", "exception"} : Service!Decide(k, "pending", r)
  BY Finished DEF Service!Decide
<1>5. UNCHANGED <<tasks, stopping>>
  BY DEF WorkerFinish, poolVars
<1> QED
  BY <1>2, <1>3, <1>4, <1>5 DEF Service!Finish, RunningTasks

\* Every worker was joined: nothing runs, and what is pending is queued.
LEMMA DestroyAbandons ==
    ASSUME TasksInv, OwnerInv, JoinDone
    PROVE  Service!Abandon \/ UNCHANGED Service!vars
<1>0. TypeOK /\ Placed /\ OwnerKnows
  BY DEF TasksInv, OwnerInv
<1>1. \A w \in Workers : ~Holds(w) /\ ~Holds(w)'
  BY <1>0 DEF JoinDone, JoinedAll, OwnerKnows, Live, Holds
<1>2. RunningTasks = {} /\ RunningTasks' = {}
  BY <1>1 DEF RunningTasks
<1>3. stopping /\ stopping' = stopping
  BY <1>0 DEF JoinDone, OwnerKnows
<1>4. CASE UNCHANGED <<tasks, future>>
  BY <1>2, <1>3, <1>4 DEF Service!vars, RunningTasks
<1>5. CASE /\ tasks' = <<>>
           /\ future' = [k \in Tasks |-> IF \E i \in DOMAIN tasks : tasks[i] = k
                                         THEN "broken" ELSE future[k]]
  <2>1. \A k \in Tasks : future[k] = "pending" <=> \E i \in DOMAIN tasks : tasks[i] = k
    BY <1>0, <1>1, TasksAssumption DEF Placed, HeldBy, Queued, TypeOK
  <2>2. future' = [k \in Tasks |-> IF future[k] = "pending" THEN "broken" ELSE future[k]]
    BY <1>5, <2>1
  <2> QED
    BY <1>2, <1>3, <1>5, <2>2 DEF Service!Abandon, RunningTasks
<1> QED
  BY <1>4, <1>5 DEF JoinDone

LEMMA ServiceStep ==
    TasksInv /\ OwnerInv /\ [Next]_vars => [Service!Next]_(Service!vars)
<1> SUFFICES ASSUME TasksInv, OwnerInv, [Next]_vars
             PROVE  Service!Next \/ UNCHANGED Service!vars
  OBVIOUS
<1>0. TypeOK
  BY DEF TasksInv
<1>a. ASSUME UNCHANGED <<tasks, stopping, future, job>>,
             \A w \in Workers : Holds(w)' <=> Holds(w)
      PROVE  UNCHANGED Service!vars
  BY <1>a, RunningStays DEF Service!vars, RunningTasks
<1>1. ASSUME NEW c \in Clients, ClientSubmit(c) \/ ClientRefused(c) PROVE Service!Next
  BY <1>0, <1>1, EnqueueAccepts, RefuseRefuses
     DEF ClientSubmit, ClientRefused, MaySubmit, Threads, Service!Next
<1>2. ASSUME NEW x \in Threads, Notify(x) PROVE UNCHANGED Service!vars
  BY <1>0, <1>2, <1>a, NotifyTypes DEF Notify, poolVars
<1>3. ASSUME NEW w \in Workers, WorkerSubmit(w) \/ WorkerRefused(w) PROVE Service!Next
  BY <1>0, <1>3, OwnChild, EnqueueAccepts, RefuseRefuses
     DEF WorkerSubmit, WorkerRefused, Threads, Service!Next
<1>4. ASSUME NEW w \in Workers, WorkerWait(w) \/ WorkerExit(w) \/ Spurious(w)
      PROVE  UNCHANGED Service!vars
  <2>1. \A v \in Workers : Holds(v)' <=> Holds(v)
    BY <1>0, <1>4, WhoIsWhere DEF WorkerWait, WorkerExit, Spurious, Go, Holds
  <2> QED
    BY <1>4, <1>a, <2>1 DEF WorkerWait, WorkerExit, Spurious, poolVars
<1>5. ASSUME NEW w \in Workers, WorkerTake(w) PROVE Service!Next
  BY <1>5, TakeBegins DEF Service!Next
<1>6. ASSUME NEW w \in Workers, WorkerFinish(w) PROVE Service!Next
  <2>1. PICK k \in Tasks : k = job[w]
    BY <1>6, Finished
  <2>2. Service!Finish(k)
    BY <1>6, <2>1, FinishFinishes
  <2> QED
    BY <2>2 DEF Service!Next
<1>7. ASSUME CallExtend \/ SpawnFail \/ ExtendDone PROVE UNCHANGED Service!vars
  BY <1>7, <1>a DEF CallExtend, SpawnFail, ExtendDone, poolVars, Holds
<1>8. ASSUME Spawn \/ JoinNotify PROVE UNCHANGED Service!vars
  <2>1. \A w \in Workers : Holds(w)' <=> Holds(w)
    BY <1>0, <1>8, WhoIsWhere DEF Spawn, Fresh, JoinNotify, Holds
  <2> QED
    BY <1>8, <1>a, <2>1 DEF Spawn, JoinNotify, poolVars
<1>9. ASSUME JoinStop PROVE Service!Next
  <2>1. RunningTasks' = RunningTasks
    BY <1>9, RunningStays DEF JoinStop, Holds
  <2> QED
    BY <1>9, <2>1 DEF JoinStop, Service!Next, Service!Close, RunningTasks
<1>10. ASSUME JoinDone PROVE Service!Next \/ UNCHANGED Service!vars
  BY <1>10, DestroyAbandons DEF Service!Next
<1>11. CASE UNCHANGED vars
  BY <1>11, <1>a DEF vars, Holds
<1> QED
  BY <1>1, <1>2, <1>3, <1>4, <1>5, <1>6, <1>7, <1>8, <1>9, <1>10, <1>11
     DEF Next, WorkerStep, OwnerStep, Threads

\* The pool implements TaskService: accepted tasks start in the order of their
\* acceptance, once, and each outcome is decided once.
THEOREM ImplementsTaskService == Spec => ServesInOrder
<1>1. Init => Service!Init
  <2> SUFFICES ASSUME Init PROVE Service!Init
    OBVIOUS
  <2>1. \A w \in Workers : ~Holds(w)
    BY ActorsAssumption DEF Init, Threads, Holds
  <2> QED
    BY <2>1 DEF Init, Service!Init
<1> QED
  BY <1>1, ServiceStep, TasksInvariant, OwnerInvariant, PTL DEF Spec, ServesInOrder, Service!Spec
=============================================================================
