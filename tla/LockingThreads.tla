---- MODULE LockingThreads ----
(* What Guarded and Logging have in common: the threads that lock their mutexes.  *)
EXTENDS FiniteSets

CONSTANT Threads

CONSTANT Nobody  \* in place of a thread or of what it would hold, when there is none

ASSUME ThreadsAssumption == IsFiniteSet(Threads) /\ Nobody \notin Threads
====
