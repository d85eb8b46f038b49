--------------------------------- MODULE Locks ---------------------------------
(* A process that locks: threads that keep handles of Guarded objects, and log   *)
(* while they have them, and threads that call all of logging.  Logging locks    *)
(* its own mutex and calls nothing under it, so it waits for no handle.          *)
EXTENDS Guarded, Logging

CONSTANT LogsUnderHandles  \* the calls of logging by threads that keep handles

ASSUME LogsAssumption == LogsUnderHandles \subseteq Queries \cup Logs \cup Sets

VARIABLE role  \* of each thread

vars == <<guardedVars, loggingVars, role>>

Init == /\ GuardedInit /\ LoggingInit
        /\ role \in [Threads -> {"handles", "logging"}]

Calls(t) == IF role[t] = "logging" THEN Queries \cup Logs \cup Sets ELSE LogsUnderHandles

LogStep(t) == /\ \/ LoggingStep(t)
                 \/ Free(t) /\ \E c \in Calls(t) : CallLogging(t, c)
              /\ UNCHANGED guardedVars

HandleStep(t) == /\ role[t] = "handles" /\ step[t] = "idle"
                 /\ GuardedStep(t)
                 /\ UNCHANGED loggingVars

Next == /\ \E t \in Threads : LogStep(t) \/ HandleStep(t)
        /\ UNCHANGED role

Spec == Init /\ [][Next]_vars
=============================================================================
