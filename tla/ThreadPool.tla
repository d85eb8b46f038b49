----------------------------- MODULE ThreadPool -----------------------------
(* kae::ThreadPool (include/kae/thread_pool.h, src/thread_pool.cpp) with the  *)
(* tasks of include/kae/task.h: worker threads that share one queue of tasks, *)
(* a condition variable and a flag, under one mutex.                          *)
(*                                                                            *)
(* One thread, the owner, constructs, extends, joins and destroys the pool:   *)
(* workers_ has no lock.  Clients submit at any time between construction and *)
(* destruction; a task may submit one task of its own, and may wait for it.   *)
(* As in ConsumeQueue a critical section of tasks_mutex_ is one step, and a   *)
(* notification after the unlock is another.                                  *)
EXTENDS Naturals, Sequences, FiniteSets

CONSTANTS
    Clients,   \* threads outside the pool that call submit
    Workers,   \* the threads that extend can start; their number is the bound
               \* on how many it starts in the pool's life
    Tasks,     \* every task that may ever be submitted, each of them once
    NoTask,
    Child,     \* the task that a task's callable submits, or NoTask
    Awaiting,  \* the tasks that wait for the future of their child
    Throwing   \* the tasks whose callable throws

ASSUME ActorsAssumption ==
    /\ IsFiniteSet(Clients) /\ IsFiniteSet(Workers)
    /\ Clients \cap Workers = {}

ASSUME TasksAssumption ==
    /\ NoTask \notin Tasks
    /\ Child \in [Tasks -> Tasks \cup {NoTask}]
    /\ Awaiting \subseteq {k \in Tasks : Child[k] # NoTask}
    /\ Throwing \subseteq Tasks

\* A task has one parent at most, and is no ancestor of itself.
ASSUME ChildAssumption ==
    /\ \A j, k \in Tasks : Child[j] = Child[k] /\ Child[j] # NoTask => j = k
    /\ \E rank \in [Tasks -> 1 .. Cardinality(Tasks)] :
         \A k \in Tasks : Child[k] # NoTask => rank[k] < rank[Child[k]]

VARIABLES
    tasks,     \* tasks_
    stopping,  \* stopping_
    workers,   \* the threads in workers_
    pc,        \* where each client and worker is
    job,       \* the task each worker runs
    future,    \* what the future of each task holds
    owner,     \* where the owner is
    toSpawn,   \* the threads that extend has yet to start
    life       \* of the pool

vars == <<tasks, stopping, workers, pc, job, future, owner, toSpawn, life>>
poolVars == <<tasks, stopping>>
ownerVars == <<workers, owner, toSpawn, life>>

Threads == Clients \cup Workers
Roots   == {k \in Tasks : \A j \in Tasks : Child[j] # k}
At(l)   == {x \in Threads : pc[x] = l}
Go(x, from, to) == pc[x] = from /\ pc' = [pc EXCEPT ![x] = to]

Settled == {"value", "exception", "broken", "rejected"}

Init == /\ tasks = <<>>
        /\ stopping = FALSE
        /\ workers = {}
        /\ pc = [x \in Threads |-> IF x \in Clients THEN "idle" ELSE "none"]
        /\ job = [w \in Workers |-> NoTask]
        /\ future = [k \in Tasks |-> "none"]
        /\ owner = "extend"
        /\ toSpawn \in 0 .. Cardinality(Workers)
        /\ life = "constructing"
-----------------------------------------------------------------------------
(* submit, called by a client or by the task a worker runs                    *)

\* Mutants of Enqueue: stopping_ is not looked at; the queue is a stack.
EnqueueAlways(x, k, from) ==
    /\ tasks' = Append(tasks, k)
    /\ future' = [future EXCEPT ![k] = "pending"]
    /\ Go(x, from, "notify")
    /\ UNCHANGED <<stopping, job, ownerVars>>

EnqueueFirst(x, k, from) ==
    /\ ~stopping
    /\ tasks' = <<k>> \o tasks
    /\ future' = [future EXCEPT ![k] = "pending"]
    /\ Go(x, from, "notify")
    /\ UNCHANGED <<stopping, job, ownerVars>>

\* submit appends a task, whose future is pending from now on, and unlocks.
Enqueue(x, k, from) ==
    /\ ~stopping
    /\ tasks' = Append(tasks, k)
    /\ future' = [future EXCEPT ![k] = "pending"]
    /\ Go(x, from, "notify")
    /\ UNCHANGED <<stopping, job, ownerVars>>

\* submit throws: the task and its future are destroyed, nobody is notified.
Refuse(x, k, from, to) ==
    /\ stopping
    /\ future' = [future EXCEPT ![k] = "rejected"]
    /\ Go(x, from, to)
    /\ UNCHANGED <<poolVars, job, ownerVars>>

MaySubmit(k) == life = "alive" /\ k \in Roots /\ future[k] = "none"

ClientSubmit(c) == \E k \in Tasks : MaySubmit(k) /\ Enqueue(c, k, "idle")

ClientRefused(c) == \E k \in Tasks : MaySubmit(k) /\ Refuse(c, k, "idle", "idle")

ChildOf(w) == Child[job[w]]

\* The callable that w runs reaches its submit.
WorkerSubmit(w) == /\ pc[w] = "run" /\ ChildOf(w) # NoTask
                   /\ Enqueue(w, ChildOf(w), "run")

WorkerRefused(w) == /\ pc[w] = "run" /\ ChildOf(w) # NoTask
                    /\ Refuse(w, ChildOf(w), "run", "rest")

\* Mutants of Notify: none at all; only for the task that ends emptiness.
NotifyNobody(x) ==
    /\ Go(x, "notify", IF x \in Clients THEN "idle" ELSE "rest")
    /\ UNCHANGED <<poolVars, job, future, ownerVars>>

NotifyFirst(x) ==
    LET next == IF x \in Clients THEN "idle" ELSE "rest"
    IN /\ pc[x] = "notify"
       /\ IF At("wait") = {} \/ Len(tasks) > 1
            THEN pc' = [pc EXCEPT ![x] = next]
            ELSE \E w \in At("wait") : pc' = [pc EXCEPT ![x] = next, ![w] = "lock"]
       /\ UNCHANGED <<poolVars, job, future, ownerVars>>

\* notify_one, and back to the caller of submit.
Notify(x) ==
    LET next == IF x \in Clients THEN "idle" ELSE "rest"
    IN /\ pc[x] = "notify"
       /\ IF At("wait") = {}
            THEN pc' = [pc EXCEPT ![x] = next]
            ELSE \E w \in At("wait") : pc' = [pc EXCEPT ![x] = next, ![w] = "lock"]
       /\ UNCHANGED <<poolVars, job, future, ownerVars>>
-----------------------------------------------------------------------------
(* The loop of a worker                                                       *)

WorkerWait(w) == /\ ~stopping /\ tasks = <<>>
                 /\ Go(w, "lock", "wait")
                 /\ UNCHANGED <<poolVars, job, future, ownerVars>>

WorkerExit(w) == /\ stopping /\ tasks = <<>>
                 /\ Go(w, "lock", "exited")
                 /\ UNCHANGED <<poolVars, job, future, ownerVars>>

\* Mutant of WorkerTake: tasks_.pop() is forgotten.
WorkerCopy(w) == /\ tasks # <<>>
                 /\ Go(w, "lock", "run")
                 /\ job' = [job EXCEPT ![w] = Head(tasks)]
                 /\ UNCHANGED <<tasks, stopping, future, ownerVars>>

WorkerTake(w) == /\ tasks # <<>>
                 /\ Go(w, "lock", "run")
                 /\ job' = [job EXCEPT ![w] = Head(tasks)]
                 /\ tasks' = Tail(tasks)
                 /\ UNCHANGED <<stopping, future, ownerVars>>

\* What the promise receives: an exception of the callable, of the submit it
\* made, or of the future it waited for, is caught and stored.
Result(k) ==
    IF \/ k \in Throwing
       \/ Child[k] # NoTask /\ future[Child[k]] = "rejected"
       \/ k \in Awaiting /\ future[Child[k]] # "value"
    THEN "exception" ELSE "value"

\* Mutant of WorkerFinish: the task outlives its run.
WorkerFinishKeep(w) ==
    /\ \/ pc[w] = "run" /\ ChildOf(w) = NoTask
       \/ pc[w] = "rest" /\ (job[w] \in Awaiting => future[ChildOf(w)] \in Settled)
    /\ future' = [future EXCEPT ![job[w]] = Result(job[w])]
    /\ pc' = [pc EXCEPT ![w] = "lock"]
    /\ UNCHANGED <<poolVars, job, ownerVars>>

\* The callable ends; one that awaits its child ends after the child.
WorkerFinish(w) ==
    /\ \/ pc[w] = "run" /\ ChildOf(w) = NoTask
       \/ pc[w] = "rest" /\ (job[w] \in Awaiting => future[ChildOf(w)] \in Settled)
    /\ future' = [future EXCEPT ![job[w]] = Result(job[w])]
    /\ job' = [job EXCEPT ![w] = NoTask]
    /\ pc' = [pc EXCEPT ![w] = "lock"]
    /\ UNCHANGED <<poolVars, ownerVars>>

Spurious(w) == /\ Go(w, "wait", "lock")
               /\ UNCHANGED <<poolVars, job, future, ownerVars>>
-----------------------------------------------------------------------------
(* The owner: ThreadPool(n), extend(n), join, ~ThreadPool                     *)

Fresh == {w \in Workers : pc[w] = "none"}

CallExtend == /\ life = "alive" /\ owner = "idle"
              /\ toSpawn' \in 1 .. Cardinality(Fresh)
              /\ owner' = "extend"
              /\ UNCHANGED <<poolVars, workers, pc, job, future, life>>

\* One turn of the loop: the new thread runs at once, beside the loop.
Spawn == /\ owner = "extend" /\ toSpawn > 0
         /\ \E w \in Fresh : /\ workers' = workers \cup {w}
                             /\ pc' = [pc EXCEPT ![w] = "lock"]
         /\ toSpawn' = toSpawn - 1
         /\ UNCHANGED <<poolVars, job, future, owner, life>>

\* std::thread cannot be started and extend throws, leaving the threads it has
\* started.  Thrown out of the constructor, which has no handler, it destroys
\* workers_ with running threads in it: std::terminate.  So it is too if the thread
\* starts and cannot name itself: nothing catches what set_thread_name throws.
SpawnFail == /\ owner = "extend" /\ toSpawn > 0
             /\ owner' = "idle" /\ toSpawn' = 0
             /\ life' \in {"terminated", CASE life = "alive"  -> "alive"
                                          [] workers = {}    -> "gone"
                                          [] OTHER           -> "terminated"}
             /\ UNCHANGED <<poolVars, workers, pc, job, future>>

ExtendDone == /\ owner = "extend" /\ toSpawn = 0
              /\ owner' = "idle" /\ life' = "alive"
              /\ UNCHANGED <<poolVars, workers, pc, job, future, toSpawn>>

\* Both join and the destructor begin by raising stopping_.  The pool is not
\* destroyed while a client is inside submit.
JoinStop == /\ life = "alive" /\ owner = "idle"
            /\ stopping' = TRUE
            /\ owner' = "joinNotify"
            /\ life' \in {"alive"} \cup
                 (IF At("notify") \cap Clients = {} THEN {"destroying"} ELSE {})
            /\ UNCHANGED <<tasks, workers, pc, job, future, toSpawn>>

\* Mutants of JoinNotify: nobody, or one worker only, is notified.
JoinNotifyNobody == /\ owner = "joinNotify"
                    /\ owner' = "joinWait"
                    /\ UNCHANGED <<poolVars, workers, pc, job, future, toSpawn, life>>

JoinNotifyOne ==
    /\ owner = "joinNotify"
    /\ IF At("wait") = {} THEN UNCHANGED pc
         ELSE \E w \in At("wait") : pc' = [pc EXCEPT ![w] = "lock"]
    /\ owner' = "joinWait"
    /\ UNCHANGED <<poolVars, workers, job, future, toSpawn, life>>

\* Mutant of JoinedAll: the owner does not look at every worker.
JoinedOne == workers = {} \/ \E w \in workers : pc[w] = "exited"

JoinedAll == \A w \in workers : pc[w] = "exited"

JoinNotify == /\ owner = "joinNotify"
              /\ pc' = [x \in Threads |-> IF pc[x] = "wait" THEN "lock" ELSE pc[x]]
              /\ owner' = "joinWait"
              /\ UNCHANGED <<poolVars, workers, job, future, toSpawn, life>>

\* Every worker has been joined.  The destructor goes on to destroy tasks_, and
\* the promise of a task that never ran is broken.
JoinDone ==
    /\ owner = "joinWait"
    /\ JoinedAll
    /\ workers' = {}
    /\ owner' = "idle"
    /\ \/ life = "alive" /\ UNCHANGED <<life, tasks, future>>
       \/ /\ life = "destroying" /\ life' = "gone"
          /\ tasks' = <<>>
          /\ future' = [k \in Tasks |-> IF \E i \in DOMAIN tasks : tasks[i] = k
                                        THEN "broken" ELSE future[k]]
    /\ UNCHANGED <<stopping, pc, job, toSpawn>>
-----------------------------------------------------------------------------
WorkerStep(w) == \/ WorkerWait(w) \/ WorkerExit(w) \/ WorkerTake(w)
                 \/ WorkerSubmit(w) \/ WorkerRefused(w) \/ WorkerFinish(w)
                 \/ Notify(w)

\* Inside a call of the owner; a thread that cannot be started is no duty.
OwnerStep == Spawn \/ ExtendDone \/ JoinNotify \/ JoinDone

Next == /\ life # "terminated"
        /\ \/ \E c \in Clients : ClientSubmit(c) \/ ClientRefused(c) \/ Notify(c)
           \/ \E w \in Workers : WorkerStep(w) \/ Spurious(w)
           \/ OwnerStep \/ CallExtend \/ SpawnFail \/ JoinStop

Spec == Init /\ [][Next]_vars

Running == life # "terminated"

\* A thread inside a call of the pool goes on, a callable ends, and nobody has
\* to submit, to extend or to join.
Fairness == /\ \A c \in Clients : WF_vars(Running /\ Notify(c))
            /\ \A w \in Workers : WF_vars(Running /\ WorkerStep(w))
            /\ WF_vars(Running /\ OwnerStep)

FairSpec == Spec /\ Fairness
-----------------------------------------------------------------------------
(* Properties                                                                 *)

Holds(w) == pc[w] \in {"run", "notify", "rest"}

\* Every variable has its type, and a worker holds a task exactly while it
\* runs one.
TypeOK ==
    /\ tasks \in Seq(Tasks)
    /\ stopping \in BOOLEAN
    /\ workers \subseteq Workers
    /\ pc \in [Threads -> {"idle", "none", "lock", "wait", "run", "notify",
                           "rest", "exited"}]
    /\ \A c \in Clients : pc[c] \in {"idle", "notify"}
    /\ \A w \in Workers : pc[w] # "idle"
    /\ job \in [Workers -> Tasks \cup {NoTask}]
    /\ \A w \in Workers : job[w] # NoTask <=> Holds(w)
    /\ future \in [Tasks -> Settled \cup {"none", "pending"}]
    /\ owner \in {"idle", "extend", "joinNotify", "joinWait"}
    /\ toSpawn \in 0 .. Cardinality(Workers)
    /\ life \in {"constructing", "alive", "destroying", "gone", "terminated"}

\* A task whose future is pending is in one place: one position of the queue
\* or one worker.  No other task is anywhere: none runs twice or is dropped.
HeldOnce ==
    \A k \in Tasks :
        Cardinality({i \in DOMAIN tasks : tasks[i] = k})
          + Cardinality({w \in Workers : job[w] = k})
        = IF future[k] = "pending" THEN 1 ELSE 0

\* While a worker sleeps, every queued task is accounted for by a thread about
\* to notify or a worker about to look (thread_pool.h:59, thread_pool.cpp:29).
NoLostWakeup ==
    At("wait") # {} => Cardinality(At("notify") \cup At("lock")) >= Len(tasks)

\* Once the pool is stopping no worker sleeps, unless join has yet to notify.
StopWakesWorkers == stopping /\ At("wait") # {} => owner = "joinNotify"

\* No worker leaves while a task is queued, and none is queued after one left; so
\* when join has returned and joined a worker, every future is decided.
JoinDrains ==
    /\ At("exited") # {} => stopping /\ tasks = <<>>
    /\ owner = "idle" /\ workers = {} /\ At("exited") # {} =>
           \A k \in Tasks : future[k] # "pending"

\* A promise is broken only by a pool that never had a worker.
BrokenOnlyUnserved == (\E k \in Tasks : future[k] = "broken") => Workers = Fresh

\* Tasks start in the order they were accepted, once, and end once.
Service == INSTANCE TaskService
               WITH backlog <- tasks, closed <- stopping, outcome <- future,
                    running <- {job[w] : w \in {v \in Workers : Holds(v)}}

\* The pool implements TaskService.
ServesInOrder == Service!Spec

Live == {w \in Workers : pc[w] \notin {"none", "exited"}}

\* With more workers than tasks that wait for other tasks, every accepted task
\* is decided, even when the pool is joined meanwhile.
TasksComplete ==
    \A k \in Tasks :
        (future[k] = "pending" /\ Cardinality(Live) > Cardinality(Awaiting))
            ~> (future[k] # "pending" \/ life = "terminated")

\* Under the same condition join and the destructor return.
JoinReturns ==
    (owner \in {"joinNotify", "joinWait"} /\
       (workers = {} \/ Cardinality(workers) > Cardinality(Awaiting)))
        ~> owner = "idle"
=============================================================================
