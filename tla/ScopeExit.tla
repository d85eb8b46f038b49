------------------------------- MODULE ScopeExit -------------------------------
(* kae::ScopeExit (include/kae/scope_exit.h, src/scope_exit.cpp): guards that   *)
(* call a function when they end.  A guard owns a UniqueFunction, in which there*)
(* is a std::function, and release hands it to one of the program.  The         *)
(* functions do not throw.                                                      *)
EXTENDS Any

CONSTANTS
    Guards,     \* the ScopeExit objects
    Uniques     \* the UniqueFunction objects of the program

ASSUME GuardsAssumption ==
    Guards \cup Uniques \subseteq Holders \ Copyables /\ Guards \cap Uniques = {}

VARIABLES
    runs,      \* how often guards have called each function
    guarded,   \* history: the functions that guards were made with
    released,  \* history: those that release has handed over
    careless   \* history: a guard was made with a std::function without function

guardVars == <<runs, guarded, released, careless>>

GuardInit == /\ runs = [f \in Functions |-> 0]
             /\ guarded = {} /\ released = {}
             /\ careless = FALSE

\* if (function_) function_().  The call of a std::function without function
\* throws bad_function_call, out of a destructor or a noexcept function.
CallFunction(g) ==
    /\ runs' = IF body[g] \in Functions THEN [runs EXCEPT ![body[g]] = @ + 1] ELSE runs
    /\ ending' = IF body[g] = Hollow THEN "bad_function_call" ELSE ending
-----------------------------------------------------------------------------
Construct(g) == \E f \in (Functions \ guarded) \cup {Hollow} :
                  /\ Make(g, f)
                  /\ guarded' = guarded \cup (Functions \cap {f})
                  /\ careless' = (careless \/ f = Hollow)
                  /\ UNCHANGED <<runs, released>>

\* ScopeExit() and UniqueFunction().
ConstructEmpty(o) == MakeEmpty(o) /\ UNCHANGED guardVars

Destruct(g) == /\ g \in alive
               /\ CallFunction(g)
               /\ alive' = alive \ {g}
               /\ Clear(g)
               /\ UNCHANGED <<guarded, released, careless>>

\* Mutant of AfterAssign: the source keeps what the move left in it.
AfterAssignHollow(g, h) == MoveInto(g, h)

\* Mutant of AfterAssign: the function is copied, and the source keeps it.
AfterAssignBoth(g, h) == /\ body' = [body EXCEPT ![g] = body[h]]
                         /\ living' = living - Count(g) + Count(h)

\* function_ = std::move(other.function_); other.function_ = {}
AfterAssign(g, h) == /\ body' = [Moved(g, h) EXCEPT ![h] = Empty]
                     /\ living' = living - Destroyed(g)

\* ScopeExit::operator=(ScopeExit&&).  On itself it calls the function, the move
\* does nothing, and the guard ends empty.
Assign(g, h) == /\ {g, h} \subseteq alive
                /\ CallFunction(g)
                /\ IF g = h THEN Clear(g) ELSE AfterAssign(g, h)
                /\ UNCHANGED <<alive, guarded, released, careless>>

\* ScopeExit(ScopeExit&&): an empty guard is assigned to.
MoveConstruct(g, h) == /\ g \notin alive /\ h \in alive
                       /\ AfterAssign(g, h)
                       /\ alive' = alive \cup {g}
                       /\ UNCHANGED ending /\ UNCHANGED guardVars

\* The function of the guard becomes that of a new UniqueFunction.
Release(o, g) == /\ o \notin alive /\ g \in alive
                 /\ AfterAssign(o, g)
                 /\ released' = released \cup (Functions \cap {body[g]})
                 /\ alive' = alive \cup {o}
                 /\ UNCHANGED <<ending, runs, guarded, careless>>

\* The program and its UniqueFunctions.
UniqueStep == /\ \/ \E o, p \in Uniques : Move(o, p)
                 \/ \E o \in Uniques : Drop(o)
              /\ UNCHANGED guardVars

\* A move of a guard, of release or of a UniqueFunction that cannot allocate.
GuardMoveFails == /\ \E o, p \in Guards \cup Uniques : MoveFails(o, p)
                  /\ UNCHANGED guardVars

GuardStep == \/ \E o \in Guards \cup Uniques : ConstructEmpty(o)
             \/ \E g \in Guards : Construct(g) \/ Destruct(g)
             \/ \E g, h \in Guards : Assign(g, h) \/ MoveConstruct(g, h)
             \/ \E o \in Uniques, g \in Guards : Release(o, g)
             \/ UniqueStep \/ GuardMoveFails
-----------------------------------------------------------------------------
(* Properties                                                                   *)

\* Every variable has its type.
GuardTypeOK == /\ runs \in [Functions -> Nat]
               /\ released \subseteq guarded /\ guarded \subseteq Functions
               /\ careless \in BOOLEAN

\* Each function that a guard was made with is in exactly one guard, or was
\* handed over by release, or has been called, and that only once, whatever
\* moves and self-moves come between (scope_exit.cpp:9-35).
OwnedOrDone == \A f \in guarded :
    LET owners == {g \in Guards : body[g] = f}
    IN Cardinality(owners) + runs[f] + (IF f \in released THEN 1 ELSE 0) = 1

\* A guard never calls what a move has emptied: bad_function_call ends the
\* process only if a guard was made with an empty std::function, which operator
\* bool does not see (any_detail.cpp:44-47: there is storage).
OnlyCarelessTerminates == ending = "bad_function_call" => careless
=============================================================================
