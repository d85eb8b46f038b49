---------------------------------- MODULE Task ----------------------------------
(* kae::UniqueTask (include/kae/task.h): a callable with the promise of its     *)
(* result, in a UniqueFunction, and the future of that promise.  A value of     *)
(* Functions stands for a callable with its promise.  One thread uses the tasks.*)
EXTENDS Any, Sequences

CONSTANTS
    Tasks,     \* the UniqueTask objects
    NoFuture,  \* a future without state
    MaxCalls   \* bound: calls of one callable

ASSUME TasksAssumption == Tasks \subseteq Holders \ Copyables
ASSUME NoFutureAssumption == NoFuture \notin Functions
ASSUME MaxCallsAssumption == MaxCalls \in Nat \ {0}

VARIABLES
    future,   \* future_ of each task
    taken,    \* the futures that the program has moved out of tasks
    outcome,  \* of each promise
    results,  \* history: what the calls of each callable came to
    escaped   \* history: an exception has left operator()

taskVars == <<future, taken, outcome, results, escaped>>

TaskInit == /\ future = [t \in Tasks |-> NoFuture]
            /\ taken = {}
            /\ outcome = [f \in Functions |-> "none"]
            /\ results = [f \in Functions |-> <<>>]
            /\ escaped = FALSE

\* Mutant of Breaks: a promise is destroyed without a word.
BreaksNone(o) == outcome

\* The destruction of what a holder holds breaks its promise if that is not kept.
Breaks(o) == [f \in Functions |-> IF f = body[o] /\ outcome[f] = "pending"
                                  THEN "broken" ELSE outcome[f]]
-----------------------------------------------------------------------------
NewTask(t) == \E f \in Functions :
                /\ outcome[f] = "none"
                /\ Make(t, f)
                /\ future' = [future EXCEPT ![t] = f]
                /\ outcome' = [outcome EXCEPT ![f] = "pending"]
                /\ UNCHANGED <<taken, results, escaped>>

NewEmptyTask(t) == MakeEmpty(t) /\ UNCHANGED taskVars

\* set_value, or set_exception with what the callable threw.  Of a promise that
\* is kept already set_value throws future_error, set_exception in the handler
\* throws it too, and it leaves the call.
Settle(f, result) ==
    IF outcome[f] = "pending"
    THEN outcome' = [outcome EXCEPT ![f] = result] /\ UNCHANGED escaped
    ELSE escaped' = TRUE /\ UNCHANGED outcome

\* operator().  The callable is called before the promise is looked at.
CallTask(t) ==
    /\ t \in alive /\ body[t] \in Functions /\ Len(results[body[t]]) < MaxCalls
    /\ \E result \in {"value", "exception"} :
         /\ results' = [results EXCEPT ![body[t]] = Append(@, result)]
         /\ Settle(body[t], result)
    /\ UNCHANGED <<future, taken>> /\ UNCHANGED anyVars

\* operator() of a task that was moved from: the promise has no state, and
\* set_exception throws.  (A task made empty has no invoker: undefined.)
CallHollowTask(t) == /\ t \in alive /\ body[t] = Hollow
                     /\ escaped' = TRUE
                     /\ UNCHANGED <<future, taken, outcome, results>>
                     /\ UNCHANGED anyVars

\* The program moves the future out of future().
TakeFuture(t) == /\ t \in alive /\ future[t] # NoFuture
                 /\ taken' = taken \cup {future[t]}
                 /\ future' = [future EXCEPT ![t] = NoFuture]
                 /\ UNCHANGED <<outcome, results, escaped>> /\ UNCHANGED anyVars

\* The implicit moves: future_, then function_.
MoveTask(t, u) == /\ Move(t, u)
                  /\ future' = [future EXCEPT ![t] = future[u], ![u] = NoFuture]
                  /\ outcome' = Breaks(t)
                  /\ UNCHANGED <<taken, results, escaped>>

DropTask(t) == /\ Drop(t)
               /\ future' = [future EXCEPT ![t] = NoFuture]
               /\ outcome' = Breaks(t)
               /\ UNCHANGED <<taken, results, escaped>>

TaskStep == \/ \E t \in Tasks : \/ NewTask(t) \/ NewEmptyTask(t) \/ DropTask(t)
                                \/ CallTask(t) \/ CallHollowTask(t) \/ TakeFuture(t)
            \/ \E t, u \in Tasks : \/ MoveTask(t, u)
                                   \/ MoveFails(t, u) /\ UNCHANGED taskVars
-----------------------------------------------------------------------------
(* Properties                                                                   *)

\* Every variable has its type.
TaskTypeOK == /\ future \in [Tasks -> Functions \cup {NoFuture}]
              /\ taken \subseteq Functions
              /\ outcome \in [Functions -> {"none", "pending", "value", "exception", "broken"}]
              /\ results \in [Functions -> Seq({"value", "exception"})]
              /\ escaped \in BOOLEAN

\* Nobody waits for ever on a future whose promise is gone: while a promise is
\* pending exactly one task that is alive can still keep it.  The result is that of
\* the first call, whatever later calls, moves and destructions do; a promise is
\* broken only if its callable was never called; and at most one future stands for
\* it (task.h:18-56).
PromiseServed == \A f \in Functions :
    LET keepers == {t \in Tasks : body[t] = f}
        futures == {t \in Tasks : future[t] = f}
    IN /\ outcome[f] = "pending" => Cardinality(keepers \cap alive) = 1
       /\ IF results[f] = <<>> THEN outcome[f] \in {"none", "pending", "broken"}
                               ELSE outcome[f] = Head(results[f])
       /\ Cardinality(futures) + (IF f \in taken THEN 1 ELSE 0) <= 1
=============================================================================
