--------------------------- MODULE ResourceManager ---------------------------
(* kae::ResourceManager (include/kae/resource_manager.h,                      *)
(* src/resource_manager.cpp): a map from ids to weak pointers.  get with a    *)
(* maker inserts an empty pointer, runs the maker, which is code of the       *)
(* program and may use the manager itself or throw, and stores what it made.  *)
(* One thread uses the object.                                                *)
EXTENDS Integers, SequencesExt, Functions, FiniteSets

CONSTANTS
    Ids,
    Resources,  \* bound: resources at a time
    Slots,      \* bound: the handles of the program
    Null,       \* the null handle, and the pointer of an entry not yet filled
    MaxDepth    \* bound: makers that run inside each other

ASSUME NullAssumption  == Null \notin Resources
ASSUME DepthAssumption == MaxDepth \in Nat

VARIABLES
    store,    \* store_; an entry whose resource nobody holds has expired
    handle,   \* what each handle of the program holds, and the id it was got for
    making,   \* the ids of the gets whose makers are running, the innermost last
    dangling  \* which of them hold an iterator that is no longer valid

vars == <<store, handle, making, dangling>>

NoHandle == [id |-> Null, resource |-> Null]
Held     == {handle[s].resource : s \in Slots} \ {Null}

Lock(r) == IF r \in Held THEN r ELSE Null

\* A resource that nothing refers to stands for any new one.
Fresh == Resources \ (Held \cup Range(store))

Init == /\ store = <<>>
        /\ handle = [s \in Slots |-> NoHandle]
        /\ making = <<>>
        /\ dangling = {}

Store(id, r)  == store' = [i \in DOMAIN store \cup {id} |-> IF i = id THEN r ELSE store[i]]
Give(s, id, r) == handle' = [handle EXCEPT ![s] = [id |-> id, resource |-> r]]
-----------------------------------------------------------------------------
\* get without a maker: an unknown id and an expired resource throw.
Get(s, id) == /\ id \in DOMAIN store /\ Lock(store[id]) # Null
              /\ Give(s, id, Lock(store[id]))
              /\ UNCHANGED <<store, making, dangling>>

\* get with a maker finds an entry: the handle is null if it has expired, or if
\* its maker is running or has failed.
GetStored(s, id) == /\ id \in DOMAIN store
                    /\ Give(s, id, Lock(store[id]))
                    /\ UNCHANGED <<store, making, dangling>>

Inserts(id) == id \notin DOMAIN store

\* Otherwise it inserts an empty entry and runs the maker.  The insertion may
\* rehash the map, which invalidates every iterator that was held before it:
\* those of the gets inside whose makers this one runs.
StartMake(id, rehash) ==
    /\ Inserts(id) /\ Len(making) < MaxDepth
    /\ Store(id, Null)
    /\ making' = Append(making, id)
    /\ dangling' = IF rehash THEN DOMAIN making ELSE dangling
    /\ UNCHANGED handle

\* The maker returns a new resource, one the program has, or a null pointer, and
\* this is stored through the iterator.  What storing through one that an erasure
\* or a rehash has invalidated does is undefined and not followed.
MakeReturns(s, r) == /\ making # <<>> /\ Len(making) \notin dangling
                     /\ Store(Last(making), r)
                     /\ Give(s, Last(making), r)
                     /\ making' = Front(making)
                     /\ UNCHANGED dangling

\* The empty entry stays.
MakeThrows == /\ making # <<>>
              /\ making' = Front(making)
              /\ dangling' = dangling \ {Len(making)}
              /\ UNCHANGED <<store, handle>>

\* Mutant of Expired: an entry that is held by one handle only is erased too.
ExpiredOrLast(id) == \A s, t \in Slots :
    handle[s].resource = store[id] /\ handle[t].resource = store[id] => s = t

Expired(id) == Lock(store[id]) = Null

Cleanup == LET erased == {id \in DOMAIN store : Expired(id)}
           IN /\ store' = Restrict(store, DOMAIN store \ erased)
              /\ dangling' = dangling \cup {d \in DOMAIN making : making[d] \in erased}
              /\ UNCHANGED <<handle, making>>

\* The program drops a handle, the last one of a resource destroys it.
Drop(s) == /\ handle' = [handle EXCEPT ![s] = NoHandle]
           /\ UNCHANGED <<store, making, dangling>>

Next == \/ \E s \in Slots, id \in Ids : Get(s, id) \/ GetStored(s, id)
        \/ \E id \in Ids, rehash \in BOOLEAN : StartMake(id, rehash)
        \/ \E s \in Slots, r \in Fresh \cup Held \cup {Null} : MakeReturns(s, r)
        \/ MakeThrows \/ Cleanup
        \/ \E s \in Slots : Drop(s)

Spec == Init /\ [][Next]_vars
-----------------------------------------------------------------------------
\* The ids of the makers whose iterator is still valid.
ToFill == {making[d] : d \in DOMAIN making \ dangling}

\* Type invariant: the makers that run are those of different ids, each with its
\* entry still empty (resource_manager.h:47-54).
TypeOK ==
    /\ DOMAIN store \subseteq Ids /\ Range(store) \subseteq Resources \cup {Null}
    /\ handle \in [Slots -> [id: Ids \cup {Null}, resource: Resources \cup {Null}]]
    /\ Len(making) <= MaxDepth /\ dangling \subseteq DOMAIN making
    /\ Cardinality(ToFill) = Cardinality(DOMAIN making \ dangling)
    /\ \A id \in ToFill : id \in DOMAIN store /\ store[id] = Null

\* The variables have their types, and while a handle got for an id is held, the id
\* stays bound to its resource: every get returns that very resource, and no maker
\* can still replace it through a valid iterator.  So it is whatever expires, is
\* cleaned up or throws meanwhile, and whatever makers do with the manager, as long
\* as none returns whose get holds an invalid iterator (resource_manager.h:53).
SameResource ==
    /\ TypeOK
    /\ \A s \in Slots : handle[s].resource # Null =>
          LET id == handle[s].id
          IN id \in DOMAIN store /\ store[id] = handle[s].resource /\ id \notin ToFill
=============================================================================
