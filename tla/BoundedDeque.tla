---------------------------- MODULE BoundedDeque ----------------------------
(* What kae::Circular promises: each object is a sequence of at most Size     *)
(* elements, and an element that does not fit pushes out the one at the other *)
(* end.  No slots and no indexes appear here.                                 *)
EXTENDS SequencesExt

CONSTANTS Objects, Elements, Moved, Size

VARIABLES exists,  \* the objects that are alive
          deque    \* the elements of each, front first

vars == <<exists, deque>>

Init == exists = {} /\ deque = [o \in Objects |-> <<>>]

Room(s) == Len(s) < Size
WithBack(s, e)  == IF Room(s) THEN Append(s, e) ELSE Append(Tail(s), e)
WithFront(s, e) == IF Room(s) THEN <<e>> \o s ELSE <<e>> \o Front(s)

Becomes(o, s) == deque' = [deque EXCEPT ![o] = s]

Create(o) == o \notin exists /\ exists' = exists \cup {o}
Keep(o)   == o \in exists /\ UNCHANGED exists

Push(o) == Keep(o) /\ \E e \in Elements : \/ Becomes(o, WithBack(deque[o], e))
                                          \/ Becomes(o, WithFront(deque[o], e))

Pop(o) == /\ Keep(o) /\ deque[o] # <<>>
          /\ Becomes(o, Tail(deque[o])) \/ Becomes(o, Front(deque[o]))

Empty(o) == (Create(o) \/ Keep(o)) /\ Becomes(o, <<>>)

Copy(o, p) == /\ Create(o) \/ Keep(o)
              /\ p \in exists
              /\ Becomes(o, deque[p])

\* The source keeps its length, its elements are moved-from.
Move(o, p) ==
    /\ Create(o) \/ Keep(o)
    /\ p \in exists \ {o}
    /\ deque' = [deque EXCEPT ![o] = deque[p],
                              ![p] = [i \in DOMAIN deque[p] |-> Moved]]

\* o is destroyed, or has failed in a way that nothing is promised about.
Vanish(o) == o \in exists /\ exists' = exists \ {o} /\ Becomes(o, <<>>)

\* A push that fails may have made room already; a copy that fails stops early.
FailedPush(o) == Keep(o) /\ ~Room(deque[o]) /\ Becomes(o, Tail(deque[o]))

FailedCopy(o, p) == /\ Keep(o) /\ p \in exists \ {o}
                    /\ \E n \in 0 .. Len(deque[p]) :
                         Becomes(o, SubSeq(deque[p], 1, n))

Next == \/ \E o \in Objects : Push(o) \/ Pop(o) \/ Empty(o) \/ Vanish(o) \/ FailedPush(o)
        \/ \E o, p \in Objects : Copy(o, p) \/ Move(o, p) \/ FailedCopy(o, p)

Spec == Init /\ [][Next]_vars
=============================================================================
