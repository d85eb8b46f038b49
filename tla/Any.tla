---------------------------------- MODULE Any ----------------------------------
(* kae::any_detail::Impl (include/kae/any_detail.h, src/any_detail.cpp): heap   *)
(* storage with one object of any type in it.  Any, UniqueAny, Function and     *)
(* UniqueFunction (any.h, function.h) have no other state; ScopeExit and Task   *)
(* are built on them.  One thread uses the holders.  An object's copy           *)
(* constructor and the allocation of its storage may throw; its destructor and  *)
(* its move constructor do not.                                                 *)
EXTENDS Integers, FiniteSets

CONSTANTS
    Holders,    \* every Impl of the program
    Copyables,  \* those of an Any or a Function
    Functions,  \* the values of the objects
    Empty,      \* no storage
    Hollow,     \* storage with an object that a move has emptied
    Raw         \* storage in which no object was constructed

ASSUME HoldersAssumption == IsFiniteSet(Holders) /\ Copyables \subseteq Holders
ASSUME BodiesAssumption ==
    Functions \cap {Empty, Hollow, Raw} = {} /\ Cardinality({Empty, Hollow, Raw}) = 3

VARIABLES
    alive,   \* the holders that are constructed
    body,    \* storage_ of each, and what is in it
    living,  \* history: constructors less destructors of the objects held
    ending   \* whether and why std::terminate was called

anyVars == <<alive, body, living, ending>>

AnyInit == /\ alive = {}
           /\ body = [o \in Holders |-> Empty]
           /\ living = 0
           /\ ending = "no"
-----------------------------------------------------------------------------
\* Impl::operator bool: there is storage.
Holds(o) == body[o] # Empty

\* The objects a holder has.
Count(o) == IF Holds(o) THEN 1 ELSE 0

\* What a move leaves in its source: the storage, with an object moved from.
Remains(p) == IF Holds(p) THEN Hollow ELSE Empty

Moved(o, p) == [body EXCEPT ![o] = body[p], ![p] = Remains(p)]

\* Mutant of Destroyed: the storage is freed without destruction.
DestroyedNot(o) == 0

\* Impl::destroy: the number of objects it destroys, before the storage is reset.
Destroyed(o) == Count(o)

\* Mutant of Clear: the storage is not reset.
ClearNot(o) == UNCHANGED <<body, living>>

Clear(o) == /\ body' = [body EXCEPT ![o] = Empty]
            /\ living' = living - Destroyed(o)

\* Impl::operator=(Impl&&) between different holders: destroy, then the proxy
\* allocates and moves.
MoveInto(o, p) == /\ body' = Moved(o, p)
                  /\ living' = living - Destroyed(o) + Count(p)

\* The storage of an object whose construction threw belongs to no one who may
\* use or destroy it: what its holder does next is undefined and not followed.
Sound(o) == o \in alive /\ body[o] # Raw
-----------------------------------------------------------------------------
(* Any and Function                                                             *)

MakeEmpty(o) == /\ o \notin alive
                /\ alive' = alive \cup {o}
                /\ UNCHANGED <<body, living, ending>>

\* Any(T&&) and FunctionImpl(T&&).
Make(o, f) == /\ o \notin alive
              /\ alive' = alive \cup {o}
              /\ body' = [body EXCEPT ![o] = f]
              /\ living' = living + 1
              /\ UNCHANGED ending

\* Impl(const Impl&): an empty holder is assigned to.  If that throws, ~CPtr frees
\* the storage and there is no holder: nothing has changed.
CopyMake(o, p) == /\ o \notin alive /\ Sound(p)
                  /\ alive' = alive \cup {o}
                  /\ body' = [body EXCEPT ![o] = body[p]]
                  /\ living' = living + Count(p)
                  /\ UNCHANGED ending

\* Between different holders; on itself nothing happens.
CopyAssign(o, p) == /\ Sound(o) /\ Sound(p) /\ o # p
                    /\ body' = [body EXCEPT ![o] = body[p]]
                    /\ living' = living - Destroyed(o) + Count(p)
                    /\ UNCHANGED <<alive, ending>>

\* What the target of a copy assignment held is gone when the storage cannot be
\* allocated, or when the copy of the object throws after it was.
CopyAssignFails(o, p) == /\ Sound(o) /\ Sound(p) /\ o # p /\ Holds(p)
                         /\ \E b \in {Empty, Raw} : body' = [body EXCEPT ![o] = b]
                         /\ living' = living - Destroyed(o)
                         /\ UNCHANGED <<alive, ending>>

\* Both moves.
Move(o, p) == /\ o # p /\ Sound(p) /\ (o \in alive => Sound(o))
              /\ alive' = alive \cup {o}
              /\ MoveInto(o, p)
              /\ UNCHANGED ending

\* The moves are noexcept and allocate.
MoveFails(o, p) == /\ o # p /\ Sound(p) /\ Holds(p) /\ (o \in alive => Sound(o))
                   /\ ending' = "bad_alloc"
                   /\ UNCHANGED <<alive, body, living>>

Drop(o) == /\ Sound(o)
           /\ alive' = alive \ {o}
           /\ Clear(o)
           /\ UNCHANGED ending

CopyableStep ==
    \/ \E o \in Copyables : MakeEmpty(o) \/ Drop(o) \/ \E f \in Functions : Make(o, f)
    \/ \E o, p \in Copyables : \/ CopyMake(o, p) \/ CopyAssign(o, p) \/ Move(o, p)
                               \/ CopyAssignFails(o, p) \/ MoveFails(o, p)
-----------------------------------------------------------------------------
(* Properties                                                                   *)

\* Every variable has its type; a holder that is not constructed has no storage.
AnyTypeOK ==
    /\ alive \subseteq Holders
    /\ body \in [Holders -> Functions \cup {Empty, Hollow, Raw}]
    /\ \A o \in Holders \ alive : body[o] = Empty
    /\ living \in Nat
    /\ ending \in {"no", "bad_alloc", "bad_function_call"}

\* Whatever is copied, moved, assigned over, destroyed or fails on the way, every
\* object that was constructed is either in the storage of a holder that is alive
\* or has been destroyed once; no holder but one whose copy assignment has thrown
\* owns storage without an object (any_detail.cpp:15-53).
ObjectsMatchStorage ==
    /\ living = Cardinality({o \in Holders : body[o] \notin {Empty, Raw}})
    /\ \A o \in Holders \ Copyables : body[o] # Raw
=============================================================================
