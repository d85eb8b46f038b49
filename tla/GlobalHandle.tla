---------------------------- MODULE GlobalHandle ----------------------------
(* kae::GlobalHandle (include/kae/global_handle.h): handles that share one    *)
(* atomic counter; the constructor that raises it from 0 calls init, the      *)
(* destructor that lowers it to 0 calls destroy.  The counter is atomic, the  *)
(* two calls are not: they come after the count, and nobody waits for them.   *)
EXTENDS Integers, FiniteSets

CONSTANTS
    Threads,
    Handles,   \* the GlobalHandle objects, each constructed and destroyed by any thread
    None,
    MayThrow   \* whether init may throw

ASSUME ThreadsAssumption == IsFiniteSet(Threads)
ASSUME HandlesAssumption == IsFiniteSet(Handles) /\ None \notin Handles
ASSUME ThrowAssumption   == MayThrow \in BOOLEAN

VARIABLES
    counter,     \* counter()
    handles,     \* the handles that are constructed
    entering,    \* of each thread, the handle whose constructor is in init
    destroying,  \* the threads that are in destroy
    level,       \* how often init has completed, less how often destroy has
    leaked       \* history: counts whose handle was never constructed

globalVars == <<counter, handles, entering, destroying, level, leaked>>

GlobalInit == /\ counter = 0
              /\ handles = {}
              /\ entering = [t \in Threads |-> None]
              /\ destroying = {}
              /\ level = 0
              /\ leaked = 0

InInit  == {t \in Threads : entering[t] # None}
Idle(t) == t \notin InInit \cup destroying
Free(h) == h \notin handles /\ \A t \in Threads : entering[t] # h

Make(t, h) == entering' = [entering EXCEPT ![t] = h]

\* Mutant of First: the value that fetch_add returns is taken for the new one.
FirstAfter == counter + 1 = 0

First == counter = 0

\* Mutant of WasLast: destroy by the last but one.
WasLastEarly == counter = 2

WasLast == counter = 1

CountUp == counter' = counter + 1

\* Any constructor: the copy and the move constructor delegate to the default
\* one.
Construct(t, h) == /\ Idle(t) /\ Free(h)
                   /\ CountUp
                   /\ IF First THEN Make(t, h) /\ UNCHANGED handles
                               ELSE handles' = handles \cup {h} /\ UNCHANGED entering
                   /\ UNCHANGED <<destroying, level, leaked>>

InitReturns(t) == /\ t \in InInit
                  /\ level' = level + 1
                  /\ handles' = handles \cup {entering[t]}
                  /\ Make(t, None)
                  /\ UNCHANGED <<counter, destroying, leaked>>

\* The constructor fails, and so no destructor will lower the counter.
InitThrows(t) == /\ MayThrow /\ leaked = 0
                 /\ t \in InInit
                 /\ leaked' = leaked + 1
                 /\ Make(t, None)
                 /\ UNCHANGED <<counter, handles, destroying, level>>

Destruct(t, h) == /\ Idle(t) /\ h \in handles
                  /\ counter' = counter - 1
                  /\ handles' = handles \ {h}
                  /\ destroying' = IF WasLast THEN destroying \cup {t} ELSE destroying
                  /\ UNCHANGED <<entering, level, leaked>>

DestroyReturns(t) == /\ t \in destroying
                     /\ level' = level - 1
                     /\ destroying' = destroying \ {t}
                     /\ UNCHANGED <<counter, handles, entering, leaked>>

GlobalNext == \E t \in Threads :
            \/ InitReturns(t) \/ InitThrows(t) \/ DestroyReturns(t)
            \/ \E h \in Handles : Construct(t, h) \/ Destruct(t, h)

GlobalSpec == GlobalInit /\ [][GlobalNext]_globalVars
-----------------------------------------------------------------------------
\* Every variable has its type; no handle is made twice.
GlobalTypeOK ==
    /\ handles \subseteq Handles /\ destroying \subseteq Threads
    /\ entering \in [Threads -> Handles \cup {None}]
    /\ leaked \in {0, 1} /\ counter \in Nat /\ level \in Int
    /\ \A t \in InInit : /\ entering[t] \notin handles /\ t \notin destroying
                         /\ \A s \in InInit : entering[s] = entering[t] => s = t

\* With its type, the counter counts the handles, the constructors that are in init,
\* and those whose init threw.  However the threads interleave, init and destroy
\* balance: with the calls that are still running counted in, the global is up once
\* if there are handles and not at all otherwise (global_handle.h:28 and 36).  So
\* when no thread is inside one of the two calls, every handle finds it up, exactly
\* once.
Balanced ==
    /\ GlobalTypeOK
    /\ counter = Cardinality(handles) + Cardinality(InInit) + leaked
    /\ leaked = 0 => level + Cardinality(InInit) - Cardinality(destroying)
                       = IF counter > 0 THEN 1 ELSE 0

\* A destroy never takes down what is not up, and a handle can find the global
\* down only while the init of another thread is running (nobody waits for it).
DownOnlyDuringInit == leaked = 0 =>
    /\ level >= Cardinality(destroying)
    /\ handles # {} /\ InInit = {} => level > Cardinality(destroying)
=============================================================================
