# A verification project for kae

kae is a C++ utility library (`src/include/kae`, `src/src`, tests in
`src/test`). It has no main program: the system is the set of its components
and the ways a program may call them. This project models the components that
keep state, checks the models with TLC on small instances and proves what
matters most with TLAPS for every value of the constants.

## Inventory

| component | state | operations | hard part | what makes it correct |
|---|---|---|---|---|
| `ConsumeQueue` (`consume_queue.h`) | queue, `ended_`, mutex, two condition variables | `push`, `pop`, `end` from any thread | interleaving of unlocked notifications, spurious wakeups, exceptions between wakeup and use | no lost wakeup, linearizable bounded FIFO, `end` unblocks every `pop` |
| `ThreadPool` (`thread_pool.h/.cpp`) | queue of tasks, `stopping_`, workers | constructor, `extend`, `submit`, `join`, destructor | submit against join, tasks that submit and wait, thread creation failing | each accepted task runs once, in order; `join` drains; promises break only in a pool that never had a worker |
| `Circular` over `Uninitialized` (`circular.h`, `uninitialized.h`) | `Tsize + 1` raw slots, `begin_`, `end_` | insert, remove, clear, copy, move, iterate | manual lifetimes, wrap-around, throwing constructors | an element lives in a slot iff the slot is counted; a bounded deque |
| `Config` (`config.h/.cpp`) | map of options | `set`, `get`, `parse_args`, `parse_file_content`, `parse_global_config`, `remove`, `clear` | in-place compaction of `argv`, section prefixes, early return on `--help`, exceptions midway | the arguments left are exactly the unparsed ones; last value wins |
| `ResourceManager` (`resource_manager.h/.cpp`) | map id to weak pointer | `get`, `get_to`, `cleanup` | expiry of the resource, `make` that throws or calls back, iterators held across it | a handle is live, one live resource per id |
| `GlobalHandle` (`global_handle.h`) | one atomic counter | constructors, destructor | first and last user on different threads | init and destroy balance; a handle finds the global down only while another thread is in `init` |
| `Guarded` (`guarded.h`) | value, mutex | `lock`, `try_lock`, handles | handles that are moved and assigned over | a mutex is locked while exactly one handle owns it; no update is lost |
| `Any`, `Function`, `UniqueFunction` (`any*.h/.cpp`, `function.h`) | heap storage and proxy | copy, move, destroy, call | exception in the copy of the held object | every object constructed is owned once or was destroyed once |
| `ScopeExit` (`scope_exit.h/.cpp`) | one function | destructor, move, `release` | moved-from guards | the function runs once |
| logging, `Logger` (`logging.*`, `logger.*`) | global and per-tag levels under a shared mutex | set, reset, query, log | the level is read before the message is written | a message is written iff its level passed |
| `Task` (`task.h`) | a callable with its promise, a future | call, move, destroy | second calls, moved-from tasks | the future gets the first result, or a broken promise |
| `math.h`, `rand.*`, `matrix.h`, `vec.h`, `bit_cast.h` | generators' words | pure functions, generators | boundaries, rounding, aliasing | agreement with the mathematical definition |
| `os.*`, `exception.*`, `pp.h`, type traits, pointer casts, `flag.h`, `function_ref.h`, `static_function.h`, `c_ptr.h`, `make_array.h` | none worth a model | system calls, formatting, templates resolved by the compiler | | |

The components interact by ownership and by calls: `ThreadPool` stores
`UniqueFunction`s and `Task`s, `Circular` stores `Uninitialized` slots,
`Function` and `Any` share `any_detail::Impl`, `Logger` reads the levels of
logging, `exception` and `ASSERT` log before they terminate. Concurrency exists
in `ConsumeQueue`, `ThreadPool`, `GlobalHandle`, `Guarded` and logging; failure
means C++ exceptions thrown by user code that a component calls.

## Plan

1. `ConsumeQueue` implementing `ClosableFifo`, with proofs (done).
2. `ThreadPool` implementing `TaskService`, with proofs (done).
3. `Circular` implementing `BoundedDeque`, iterators included, with proofs (done).
4. `Config`: argument compaction as a state machine, with proofs; file parsing as
   an operator against a reference definition (done).
5. `GlobalHandle` and `ResourceManager`, with proofs (done).
6. `Any` with its copies, and over it `ScopeExit` and `Task`, composed in
   `Holders`, with proofs (done).
7. `Guarded` and `Logging`, composed with the threads that use them in `Locks`,
   with proofs (done).
8. `Scalars`, `Vectors` and `Numerics`: pure functions against their mathematical
   definitions, with proofs (done, but for floating point).

Every safety property that a passing run checks is proved. What the prover does not
reach, liveness, stays with TLC (see "Proofs").

## Modules

### ConsumeQueue, ClosableFifo, ConsumeQueueProofs, MCConsumeQueue

`ConsumeQueue` has the members of the class (`queue`, `ended`), a place `pc`
and a carried element `val` for each thread. A critical section of `mutex_` is
one step, which loses nothing: what it touches is touched nowhere else, so
other threads can only be before or after it. The wait sets of the two condition
variables are the threads at `waitPush` and `waitPop`; a woken thread returns to
`push` or `pop`, where it evaluates its predicate, as the loop inside
`condition_variable::wait` does. `notify_one` and `notify_all` run after the
unlock and are steps of their own (`PushNotify`, `PopNotify`, `EndNotify`).
`Spurious` is the wakeup the standard allows. `PushThrow` and `PopThrow` are an
element move or an allocation that throws; the history variable `thrown`
remembers that one has.

`ClosableFifo` is what callers may rely on: a bounded FIFO in which every call
takes effect at one instant. `CallOf` maps the place of a thread to its abstract
call; a thread that has stored its element and has yet to notify has already
taken effect.

| property | says |
|---|---|
| `NoLostPopWakeup`, `NoLostPushWakeup` | while someone sleeps there is, per element (per free slot), a thread about to notify or about to take (store) |
| `EndWakesPop` | after `end()` a sleeper in `pop` is one that is about to be notified |
| `NoMutualSleep` | pushers and poppers never all sleep |
| `Linearizable` | `ClosableFifo` is implemented |
| `PopProgress`, `PushProgress`, `EndUnblocksPop` | the documented blocking behaviour, as liveness |

The run `consume_queue` has three threads that make any calls for ever, two
elements and `MaxSize = 2`: two threads can sleep on one side while the third
makes several calls, which is what a lost wakeup takes, and the queue can be
empty, partly filled and full. Nothing else is bounded. Fairness: a thread inside a call goes
on (`WF_vars(Step(t))`); no thread has to call, to throw or to wake by itself.
Weak fairness is what a scheduler that runs every runnable thread, and a mutex
that is not held for ever, provide.

The run `consume_queue_stranded` shows what the wakeup invariants exclude by
`~thrown`: a pop that is woken and throws keeps the element queued but has used
its notification, and another pop sleeps on beside it, against the comment of
`pop` (line 25). A push
that throws after it was woken leaves another push asleep beside a free slot in the same way
(line 53, against line 17); no run is about that.

### ThreadPool, TaskService, ThreadPoolProofs, MCThreadPool

`ThreadPool` has `tasks`, `stopping` and `workers` as in the class, the place of
every client and worker, the task each worker runs (`job`), what the future of
each task holds, and the owner thread with the rest of its call: the class
has no lock on `workers_`, so that one thread extends, joins and destroys.
`life` tells construction, destruction and the termination of the process apart:
it ends when a thread cannot be started in the constructor, and when a started one cannot
name itself (`SpawnFail`; the model ends it there at once, though the thread may come to it
later: what the others do until then they also do when no thread fails). A task of the model may submit a child (`Child`), may
wait for it (`Awaiting`) and may throw (`Throwing`). Shared steps
(`Enqueue`, `Refuse`, `Notify`) are what `submit` does whoever calls it.

| property | says |
|---|---|
| `HeldOnce` | a pending task is at one position of the queue or on one worker, any other is nowhere |
| `NoLostWakeup`, `StopWakesWorkers` | nobody sleeps beside a task, or in a stopping pool, unless someone is about to notify |
| `JoinDrains`, `BrokenOnlyUnserved` | no worker leaves while tasks are queued and none is queued after; after a join that joined a worker all futures are decided; promises break only in a pool that never had a worker |
| `ServesInOrder` | `TaskService` is implemented |
| `TasksComplete`, `JoinReturns` | with more workers than waiting tasks everything accepted is decided and `join` returns |

The run `thread_pool` has two clients, up to three workers and four tasks:
`k1` submits `k2` and waits for it, `k3` throws, `k4` is plain. Each task is submitted
at most once, which bounds the run. The pool may stop for good (destroyed,
or every worker waiting in a task), so deadlock is not checked; liveness says
what must happen. Fairness: a thread inside a call of the pool goes on and a
callable ends; nobody has to submit, extend or join.

### Circular, BoundedDeque, CircularProofs, MCCircular

`Circular` is the ring of `Tsize + 1` slots as a record (`slots`, `first`,
`last`) with the member functions as operators on it, and actions that apply
them to several objects: construction, the four copies and moves, destruction,
and each call in which an element's constructor throws. `Raw` is a slot in
which no element lives. `damaged` remembers the objects whose lifetimes an
exception has broken; what follows on them is undefined and not followed.

`LifetimesMatch` says that an element lives in a slot exactly when the slot is
counted. `IterationAgrees` says that a loop from `begin()` to `end()` ends after
`size()` elements, `front()` first and `back()` last, and exactly how far the rest of
the iterator can be relied on: going back undoes going forward except from the
first slot, where `operator--` compares with the null pointer, and `<` is the order of
iteration exactly while the ring does not wrap. `ImplementsDeque` says that undamaged
rings are deques of `BoundedDeque`, copies, moves and throws included. The run
`circular` has two objects with three elements of room and two values: rings that wrap
in every position, and are copied and moved onto each other in every state. Damaged
objects end the program, so deadlock is not checked.

Two exceptions break lifetimes, each against an assertion of `uninitialized.h`.
`circular_front_throw` shows the one out of `emplace_front`. The other
leaves the copy constructor (`CopyConstructThrow`): `~Circular` does not run, and the
elements copied so far stay in storage that is gone; no run is about that. The properties of `circular`
exclude the objects these have damaged.

### ConfigText, Config, ConfigProofs, MCConfig

`ConfigText` is the reading of a configuration text: `SetParsedOption`,
`ParseFileContent` and its parts, translated from the loop of
`parse_file_content` with a text as a sequence of lines and a key as the
sequence of names between its dots. Characters are left out except where the
code depends on them: how lines end, whether the last one is ended, whether a
section is closed. A comment and a blank line differ in what a bare key before
them takes for its value; what stands behind the `]` of a header is a line of
its own. Below it the same is defined again from the lines, without the reading, as
it should be by the comments and the tests: which sections a line is in (`Around`),
its full key, its value, which is the implicit one if there is no `=`, and the first
bad line (`Reference`).

`Config` has the option map and the `argv` and `argc` of the program. The calls
on the map are one step each; `parse_args` is a loop whose locals are `frame`:
the scan of one argument is a step, and so is each copy of the removal. A file
is an outcome of reading it: it cannot be opened, or has a content of `Disk`.
Command lines and texts are any sequences of arguments and lines with keys of at
least one name and values of the program's; the null pointer is no argument.
`ProgramKeys` are the keys the program itself sets, any for the proofs. `Samples`
are the texts whose reading is compared with the reference: any texts, for TLC the
ones of the next paragraph.
`given` and `before` remember what the call found.

| property | says |
|---|---|
| `ArgumentsCompacted` | what stays in `argv` is exactly the unparsed arguments, in order, and the null |
| `ReadsAhead` | the removal never reads what it has overwritten, nor outside the array |
| `LastArgumentWins` | the options after a call are what the arguments before its end say, the last one for each key, also when the call ends at `--help` or throws |
| `TextsReadAsWritten` | in every state of the options, `ParseFileContent` is `Reference` on the samples in which no end of line follows a bare key; on those in which one does and swallows no line (CRLF, or the end of the text behind it), it differs in values of bare keys only |

The run `config` has the command lines of up to three arguments of seven kinds (none
at all included), two of which give one key different values, parsed any number of
times, and a program that sets three keys to two values. It checks every text of up
to three lines of eight kinds, with both line ends, with and without a last one.
Three arguments are enough for two gaps between used ones and for a key with two
values and something between them, three lines for a section inside a section and a
key in it.

The code disagrees with what is said of it in two places, each with a run that TLC finds
violated:

* `config_help`: at `--help` `parse_args` returns before it removes anything
  (config.cpp:70), although config.h:28 says that parsed arguments are removed and that
  one may call again (`ParsedArgumentsRemoved`).
* `config_newline`: the end of the line that follows a bare key is taken for its `=`
  (config.cpp:186-189, against the comment of line 188). If it is a line feed and another
  line follows, this line becomes the value and is not read as an option: the run shows
  this (`ValueFollowsEquals`), and no property says how the rest of such a text is read.
  Before CRLF, and before a line feed that ends the text, the value is empty and not the
  implicit one, which `Reference` has: `TextsReadAsWritten` lets the code differ from
  `Reference` there, in the values of bare keys.

### GlobalHandle, MCHandles, and HandlesProofs

The count is one atomic step, `init` and `destroy` are running until a later
step. A handle may find the global down while another thread is still in `init`, and
up twice when a new first user is faster than the last one's `destroy`: nothing
in the code waits. What holds is `Balanced`: counting what is still running, the
global is up once if there are handles and not at all otherwise, and
`DownOnlyDuringInit`. After an `init` that threw (`leaked`) neither can hold: the
counter never returns to 0. A handle may be constructed by one thread and destroyed by
another. The run `handles` has four threads and four handles: two threads inside
`destroy` and one inside `init` beside one that has a handle.

### ResourceManager, MCHandles, and HandlesProofs

`store` maps ids to weak pointers: an entry has expired when no handle holds
its resource. A maker runs between `StartMake` and `MakeReturns` or
`MakeThrows`, and everything else may happen inside it, another maker too. `SameResource`
says that the handles got for an id that are held share one resource, which the
id stays bound to. The get that runs the maker keeps an iterator to its entry
(line 48) and stores the result through it afterwards (line 53). A `cleanup` inside the
maker erases the entry, and a get inside it inserts another one and may rehash
the map: both invalidate the iterator, and what storing through it does is undefined.
`dangling` are the gets whose iterator is invalid; the model follows them until they
would store (a maker of theirs may still throw), so that nothing is claimed of a
program in which one of them returns. Whether an insertion rehashes is free. The run
`handles` has two ids, three resources, three handles and makers two deep. A behaviour of
`MCHandles` is one of this program or one of the threads of `GlobalHandle`, which have
nothing in common with it.

### Any, ScopeExit, Task, Holders, HoldersProofs, MCHolders

`Any` is `any_detail::Impl`, which is all the state of `Any`, `UniqueAny`, `Function` and
`UniqueFunction`: heap storage (`body`) with an object in it. `Hollow` is the object a move
leaves in its source, which still is storage and counts as an object to
`operator bool`; `Raw` is storage whose object was never constructed, which a copy assignment
leaves when the copy throws (`CopyAssignFails`). What its holder does next is
undefined and not followed. A move allocates and is `noexcept`: without memory the
process ends (`MoveFails`). `living` counts constructors less destructors.

`ScopeExit` has the guards and the functions that `release` hands to the program, `Task` the
callables with their promises and futures; a value of `Functions` is a function, or a
callable with its promise. `Holders` is a program of one of the three kinds: they share the
code of `Any` and no state, so that a product of the three would show nothing more.

| property | says |
|---|---|
| `TypeOK` | the types of the three, and no storage without a holder |
| `ObjectsMatchStorage` | every object constructed is in the storage of one holder or was destroyed once |
| `OwnedOrDone` | each guarded function is in exactly one guard, or released, or called once |
| `OnlyCarelessTerminates` | no guard calls what a move emptied |
| `PromiseServed` | while a promise is pending one task can still keep it; its outcome is that of the first call, or broken without a call; one future stands for it |

The run `holders` has three functions and three holders of each kind, so that a chain of
moves can end where it began, and two calls of a task. The process may end, so
deadlock is not checked.

### LockingThreads, Guarded, Logging, Locks, LocksProofs, MCLocks

`LockingThreads` declares the threads, the same ones for `Guarded` and for `Logging`.

`Guarded` has the mutex of each object (`owner`) and the handles of each thread
(`native_` and `lock_`), which live in variables. `lock()` is two steps, the call and its
return with the mutex locked; the handle is then moved into a variable, and what that
held is unlocked after the new lock was taken (`AssignLocked`). A moved-from handle
keeps its pointer. `good` remembers the variables whose handle was made by a lock, wherever
it was moved: the program uses only those. An update is a read and a write, so that
others can come between. Threads lock in one order, as they must.

`Logging` has the two levels, the shared mutex and one step for each access
under it; a `log` call is what `Logger::operator()` and `hexdump` do until they
write or do not. `seen` remembers every level that was that of the tag during a call.

| property | says |
|---|---|
| `LockedByOneHandle` | the types; a mutex is locked exactly while one handle owns it; a handle that was not moved from has the lock of what it points to |
| `NoLostUpdate` | the value counts the updates |
| `AnswersOfSomeInstant` | the types; a query answers with a level of some instant between its call and its return, and a message is written exactly if it passed at such an instant |

`Locks` composes the two: threads that keep handles also log, and logging calls
nothing under its mutex. The run `locks` has two threads, two objects, two handle
variables, one tag and three levels; threads with handles log at one level, those without make all
calls. With two variables a handle can be moved and assigned over, and two objects make a
circular wait possible in principle: deadlock is checked, of threads that lock in one order. Values are counted modulo 2: one lost
update shows.

### Scalars, Vectors, Numerics, NumericsProofs, MCNumerics

`Scalars` is `math.h` on integers of `Width` bits (`int`) and twice as many; a floating-point
argument is a quotient of two integers. `Vectors` is `vec_detail.h`, `vec.h` and
`matrix.h` on unsigned elements: the operators that assign are folds over the turns
of their loops on a memory of objects, because the operands may be the same
object. `Numerics` is a program that computes with them from any values.

| property | says |
|---|---|
| `ScalarsAgree` | `ceil`, `floor`, `trunc`, `ntrunc`, `ceil2` and `div_ceil` are what their names say, for every result type, when that fits the type and the arithmetic on the way is defined |
| `VectorsAgree` | the element-wise operators agree with the arithmetic of the elements and with each other, `x op= x` and `x op= x[i]` included; `dot`, unary minus, `apply`, `transform` and the conversions obey their laws |
| `ProductComposes` | a product of matrices acts as one after the other |

The run `numerics` starts from every pair of six-bit integers (with `int` of three
bits), of vectors of three two-bit elements and of two-by-two matrices of those: all
carries, wraps, signs and divisors of each size happen. `m *= m` is excluded from
`ProductComposes`: `operator*=` copies its left operand but not its right one, so that it
reads elements it has overwritten (matrix.h:132). No comment or test says that it may
be called so. `Matrix`'s conversion from another element type cannot be
instantiated (`std::copy` into a `std::array`, matrix.h:91) and is left out; so is the
overflow of signed elements, which is undefined.

## Proofs

Every safety property of the passing runs is a theorem, for every value of the
constants that the named assumptions of the modules allow. The assumptions say that
threads, holders, variables and handles are finitely many, that marks such as `NoTask`
are not values, that widths and sizes are above zero, and what the inputs look like. Each
theorem comes from an inductive invariant, which says what the property itself leaves out.

**`ConsumeQueueProofs`**, for any finite set of threads, any elements and any `MaxSize`
in the naturals.

* `TypeCorrect`: the type invariant, with the bound of the queue.
* `PopWakeupsKept`, `PushWakeupsKept`: the wakeup invariants. Each is inductive
  given the types, because it counts: let the helpers of pop be the threads
  about to notify poppers or about to take. A push that adds an element becomes
  a helper; a notification replaces the notifier by the thread it wakes; a
  helper that leaves takes an element or leaves an empty queue. The argument
  for push is the same with free slots. The lemmas `OneMore`, `OneLess` and
  `OneForOne` count, `GoMoves`, `NotifyOneMoves` and `NotifyAllMoves` say which
  sets of threads a step changes.
* `NeverMutuallyAsleep` (a consequence of both) and `EndWakesEveryPop` (inductive given
  the types).
* `ImplementsClosableFifo`: the refinement, step by step.

**`ThreadPoolProofs`**, for any clients, workers and tasks, whatever children they submit.

* `TypeCorrect`, and `TasksHeldOnce` from `TasksInv`: `Placed` says where a pending
  task is without counting; `ChildrenWait` says that the child of a task that has not come to its
  `submit` has not been submitted, without which a task could be queued twice.
* `WakeupsKept`, `StopWakesEveryWorker`: inductive given the types, by counting as for
  the queue.
* `JoinLeavesNothing`, `BrokenUnserved` from `OwnerInv`: what the owner knows without the
  lock (`OwnerKnows`), that a worker leaves only a stopping pool without
  tasks (`ExitedLast`), and that promises break only when the pool goes without having
  had a worker (`BrokenAtEnd`).
* `ImplementsTaskService`: the refinement, step by step.

**`CircularProofs`**, for any objects and elements and any `Size` above 0.

* `RingsAreDeques`: the refinement, with `RingsInv`: the ring of an undamaged object is
  `RingOf(f, s)`, the one ring that starts at `f` and holds the sequence `s`;
  of a damaged object only the type is left. `Place` is the slot of the n-th
  element and `Offset` its inverse. For each member function a lemma says
  what it makes of `RingOf(f, s)` (`PopFrontOf`, `EmplaceBackOf`, `AssignOf`
  ...), whatever `f` is.
* `TypeCorrect`, `ElementsLiveBetweenTheEnds`: from the same invariant.
* `LoopsVisitTheElements`: the iterators of a ring of that form, wrapped or not.

Functions defined by recursion on the naturals are unfolded by the least
counterexample (`LeastExists`), which needs no induction theorem.

**`ConfigProofs`**, for any names, values, command lines and texts.

* `UnparsedArgumentsStay`, `RemovalReadsAhead`, `TypeCorrect` from `ConfigInv`. While
  scanning, `used` holds in increasing order the arguments before `i` that are not plain
  (`ScanInv`). While removing, `argv` is as it was from `old` on, and each
  argument that is kept and lies before `old` is at its `Rank`, the number of kept
  arguments before it (`RemovalAt`). `RankGrows` and `RankLags` are why
  nothing is overwritten before it was read: the rank is below the index once an
  argument has been taken out. `ReadsExists` and `ParseLegal` say that reading a text
  always ends and leaves legal options.
* `OptionsFollowArguments` from `OptionsInv`: the options are those before the call and
  what the arguments up to `c` set (`TakenUpTo`), where `c` is the end of the
  scan (`EndedAt`).

* `ReadingIsReference`: `ParseFileContent` and `Reference` say the same of every text in
  which no end of line follows a bare key. The two are defined in different ways: the
  reading carries a prefix from line to line and stops at the first line it cannot
  take, the reference finds for each line the sections around it. `PrefixNext` and `FullKeyIs`
  relate the prefix to the sections, and an induction over the lines (`ReadUpTo`,
  `ReadLineIs`, `TakenNext`) what has been read to what the good lines set (`ReadingIs`), for
  all texts in which no bare key swallows a line. There the value that is read (`ReadAt`)
  can differ from the one that should be (`ValueAt`) at bare keys only, and
  does not if they end the text.
* `OtherValuesAreReference`: hence in any such text the reading fails alike, sets the same
  keys and spoils no value but those of bare keys.
* `TextsAreRead`: both for any samples, in every state of the options.

Nothing is proved of texts in which a bare key swallows the line behind it.

**`HandlesProofs`**, which extends the two modules that hand out handles; `GlobalHandle` has
its names prefixed for that.

* `CountIsBalanced` and `HandlesFindItUp`, for any finite sets of threads and handles.
  `Balanced` is inductive with one fact more: at most one thread is inside `init`.
* `ResourcesAreShared`, for any ids, resources and handles and makers any number deep, as
  long as no maker returns whose get holds an iterator that an insertion or a clean-up
  inside the maker has invalidated. `MakersInv` adds that no two makers whose iterators
  are valid are of the same id.

**`HoldersProofs`**, for any functions, any finite set of holders and any number of calls.

* `ObjectsAreHeld`, `TypeCorrect` from `StorageInv`: what a step on one or two holders
  does to the number of objects (`Put`, `PutTwo`).
* `GuardsCallOnce`, `CarefulGuardsReturn` from `GuardsInv`: a function has one guard
  (`OneOwner`), and was called exactly if it was guarded, is in no guard and was
  not released (`Accounted`); only a careless program has a hollow guard.
* `PromisesAreServed` from `TasksInv`: a pending promise is in a task (`Keepers`), in
  only one (`OneKeeper`), its outcome is the first result, and one future stands for it.

**`LocksProofs`**, for any finite set of threads, any objects, variables, tags and levels.

* `LockHasOneHandle` from `HandlesInv`: `Owned` says without counting whose the lock of a
  handle is, also while handles are moved and assigned over.
* `UpdatesKept`: with `UpdatesFresh`, what a thread has read is still the value when it
  writes.
* `AnswersAreOfTheCall` from `LevelsInv`: readers exclude the writer (`Excluded`), so that
  what a query has found about its tag still holds when it reads the global level (`Seen`).

**`NumericsProofs`**, for integers and elements of any widths, vectors of any length, matrices
of any size and any objects. The inductive invariant is the type of the memory
(`TypedMemory`); the three properties follow from it.

* `NumbersAreRounded`. Of powers of two the solvers know nothing: `Powers` gets that they
  double and grow from counting subsets. `AsIs` says that a conversion moves a number by a multiple
  of the number of values and leaves the values alone, `RoundIs` which integers are next to a
  quotient.
* `AliasingIsHarmless`. A fold is a pass through the sets of the first indexes, which
  `PassExists` builds and `PassRuns` takes turn by turn, by induction up to the length with a set
  for the formula (`InductionUpTo`). `FillsIs` is the loop invariant of the operators that
  assign: the elements before the turn are the new ones, those from it on the old ones, in both
  operands if they are one object. `SameWord` and `WrapEarly` make equal what differs
  by a multiple of the words; `SumsAgree` compares two sums term by term.
* `ProductsAreCompositions`. `TurnsAre` says which element a turn of the three loops is
  about, `TurnIs` what it does, and `ElementIs` is the loop invariant for one element: none, some or
  all of its terms have been added. It needs that the right operand stays as it was, which
  is where two objects are required. `UnitTimes` reads a column off the product with a vector of
  the base.

**Only model-checked**: `PopProgress`, `PushProgress`, `EndUnblocksPop`,
`TasksComplete` and `JoinReturns`, because fairness and `ENABLED` are beyond the
prover.

## Not modelled

`length` and `normalize` of vectors: floating point. `rand.*`: words of 64 bits and doubles of 53,
where TLC has integers of 32, and the shifts of xoshiro mean nothing for narrower words. (By
hand: the divisor at rand.cpp:65 is 2^61 + 49 and rounds to 2^61, the largest `rnd` is 2^61 - 1 and
rounds to 2^61 too, so that the quotient can be 1.) `bit_cast`: a copy of bytes. `os`,
`exception`, `pp`: system calls, formatting and macros. Type traits, casts, `flag`,
`function_ref` and `make_array`: resolved by the compiler, no state. What a log
message looks like. The lifetime of a queue or a pool against a thread that is still
notifying it, calls of `extend` and `join` from several threads, and a task that joins its own pool:
the caller's duty in C++. Allocation failure in `ThreadPool`, in `Config` and under the lock of
logging (logging.cpp:42 and 55). Insertion of an element of a full ring
into the ring itself. The conversions of `Config::get` and `Config::set`, and the
characters of names and values. A guarded function that throws: it ends the process.
