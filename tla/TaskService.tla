---------------------------- MODULE TaskService -----------------------------
(* What kae::ThreadPool promises whoever submits a task: it is accepted or    *)
(* refused, accepted tasks are started in the order they were accepted, each  *)
(* of them once, and each outcome is decided once.  After the service is      *)
(* closed nothing is accepted any more.  No threads or notifications here.    *)
EXTENDS Sequences

CONSTANT Tasks

VARIABLES backlog,  \* accepted and not started, oldest first
          running,  \* started and not finished
          outcome,  \* what is known of each task
          closed

vars == <<backlog, running, outcome, closed>>

Init == /\ backlog = <<>>
        /\ running = {}
        /\ outcome = [k \in Tasks |-> "none"]
        /\ closed = FALSE

Decide(k, from, to) == outcome[k] = from /\ outcome' = [outcome EXCEPT ![k] = to]

Accept(k) == /\ ~closed
             /\ Decide(k, "none", "pending")
             /\ backlog' = Append(backlog, k)
             /\ UNCHANGED <<running, closed>>

Refuse(k) == /\ closed
             /\ Decide(k, "none", "rejected")
             /\ UNCHANGED <<backlog, running, closed>>

Begin == /\ backlog # <<>>
         /\ running' = running \cup {Head(backlog)}
         /\ backlog' = Tail(backlog)
         /\ UNCHANGED <<outcome, closed>>

Finish(k) == /\ k \in running
             /\ \E r \in {"value", "exception"} : Decide(k, "pending", r)
             /\ running' = running \ {k}
             /\ UNCHANGED <<backlog, closed>>

Close == closed' = TRUE /\ UNCHANGED <<backlog, running, outcome>>

\* The service goes away with tasks it never started.
Abandon == /\ closed /\ running = {}
           /\ backlog' = <<>>
           /\ outcome' = [k \in Tasks |-> IF outcome[k] = "pending" THEN "broken"
                                          ELSE outcome[k]]
           /\ UNCHANGED <<running, closed>>

Next == \/ \E k \in Tasks : Accept(k) \/ Refuse(k) \/ Finish(k)
        \/ Begin \/ Close \/ Abandon

Spec == Init /\ [][Next]_vars
=============================================================================
