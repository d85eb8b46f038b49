---------------------------- MODULE HandlesProofs ----------------------------
(* Theorems about the two modules that hand out handles: GlobalHandle, for any   *)
(* finite sets of threads and handles, and ResourceManager, for any ids,         *)
(* resources and handles and for makers any number deep.                         *)
EXTENDS GlobalHandle, ResourceManager, FiniteSetTheorems, SequenceTheorems, TLAPS
-------------------------------------------------------------------------------
(* GlobalHandle: init and destroy balance.                                       *)

\* Balanced is not inductive: that the constructor which finds the counter at 0 is
\* the only one in init is what it lacks.
HandlesInv == Balanced /\ Cardinality(InInit) <= 1

\* The sets that are counted are finite.
LEMMA Counted ==
    ASSUME GlobalTypeOK
    PROVE  /\ IsFiniteSet(handles) /\ Cardinality(handles) \in Nat
           /\ IsFiniteSet(InInit) /\ Cardinality(InInit) \in Nat
           /\ IsFiniteSet(destroying) /\ Cardinality(destroying) \in Nat
<1>1. handles \subseteq Handles /\ InInit \subseteq Threads /\ destroying \subseteq Threads
  BY DEF GlobalTypeOK, InInit
<1> QED BY <1>1, ThreadsAssumption, HandlesAssumption, FS_Subset, FS_CardinalityType

\* A thread enters init and leaves it.
LEMMA Enters ==
    ASSUME GlobalTypeOK, NEW t \in Threads, t \notin InInit, NEW h \in Handles, Make(t, h)
    PROVE  /\ entering' \in [Threads -> Handles \cup {None}]
           /\ entering'[t] = h /\ \A s \in Threads \ {t} : entering'[s] = entering[s]
           /\ InInit' = InInit \cup {t}
           /\ Cardinality(InInit') = Cardinality(InInit) + 1
<1>1. /\ entering' \in [Threads -> Handles \cup {None}]
      /\ entering'[t] = h /\ \A s \in Threads \ {t} : entering'[s] = entering[s]
  BY DEF GlobalTypeOK, Make
<1>2. InInit' = InInit \cup {t}  BY <1>1, HandlesAssumption DEF InInit
<1> QED BY <1>1, <1>2, Counted, FS_AddElement

LEMMA Leaves ==
    ASSUME GlobalTypeOK, NEW t \in InInit, Make(t, None)
    PROVE  /\ entering' \in [Threads -> Handles \cup {None}]
           /\ entering'[t] = None /\ \A s \in Threads \ {t} : entering'[s] = entering[s]
           /\ InInit' = InInit \ {t}
           /\ Cardinality(InInit') = Cardinality(InInit) - 1
<1>0. t \in Threads  BY DEF InInit
<1>1. /\ entering' \in [Threads -> Handles \cup {None}]
      /\ entering'[t] = None /\ \A s \in Threads \ {t} : entering'[s] = entering[s]
  BY <1>0 DEF GlobalTypeOK, Make
<1>2. InInit' = InInit \ {t}  BY <1>0, <1>1 DEF InInit
<1> QED BY <1>1, <1>2, Counted, FS_RemoveElement

LEMMA HandlesInit == GlobalInit => HandlesInv
<1> SUFFICES ASSUME GlobalInit PROVE HandlesInv  OBVIOUS
<1>1. InInit = {}  BY DEF GlobalInit, InInit
<1>2. GlobalTypeOK  BY <1>1 DEF GlobalInit, GlobalTypeOK
<1>3. Cardinality({}) = 0  BY FS_EmptySet
<1> QED BY <1>1, <1>2, <1>3 DEF GlobalInit, HandlesInv, Balanced

LEMMA HandlesNext == HandlesInv /\ [GlobalNext]_globalVars => HandlesInv'
<1> SUFFICES ASSUME HandlesInv, [GlobalNext]_globalVars PROVE HandlesInv'  OBVIOUS
<1>0. /\ GlobalTypeOK
      /\ counter = Cardinality(handles) + Cardinality(InInit) + leaked
      /\ leaked = 0 => level + Cardinality(InInit) - Cardinality(destroying)
                         = IF counter > 0 THEN 1 ELSE 0
      /\ Cardinality(InInit) <= 1
  BY DEF HandlesInv, Balanced
<1>1. /\ IsFiniteSet(handles) /\ Cardinality(handles) \in Nat
      /\ IsFiniteSet(InInit) /\ Cardinality(InInit) \in Nat
      /\ IsFiniteSet(destroying) /\ Cardinality(destroying) \in Nat
      /\ counter \in Nat /\ level \in Int /\ leaked \in {0, 1}
  BY <1>0, Counted DEF GlobalTypeOK
<1>2. ASSUME NEW t \in Threads, NEW h \in Handles, Construct(t, h), First
      PROVE  HandlesInv'
  <2>1. /\ t \notin InInit /\ t \notin destroying /\ Free(h) /\ counter' = counter + 1
        /\ Make(t, h) /\ UNCHANGED <<handles, destroying, level, leaked>>
    BY <1>2 DEF Construct, Idle, CountUp
  <2>2. /\ entering' \in [Threads -> Handles \cup {None}]
        /\ entering'[t] = h /\ \A s \in Threads \ {t} : entering'[s] = entering[s]
        /\ InInit' = InInit \cup {t}
        /\ Cardinality(InInit') = Cardinality(InInit) + 1
    BY <1>0, <2>1, Enters
  <2>3. Cardinality(InInit) = 0 /\ counter = 0
    BY <1>0, <1>1, <1>2 DEF First
  <2>4. InInit = {}  BY <1>1, <2>3, FS_EmptySet
  <2>5. GlobalTypeOK'
    BY <1>0, <1>1, <2>1, <2>2, <2>4 DEF GlobalTypeOK, Free
  <2>6. counter' = Cardinality(handles') + Cardinality(InInit') + leaked'
    BY <1>0, <1>1, <2>1, <2>2
  <2>7. leaked' = 0 => level' + Cardinality(InInit') - Cardinality(destroying')
                         = IF counter' > 0 THEN 1 ELSE 0
    BY <1>0, <1>1, <2>1, <2>2, <2>3
  <2>8. Cardinality(InInit') <= 1  BY <2>2, <2>3
  <2> QED BY <2>5, <2>6, <2>7, <2>8 DEF HandlesInv, Balanced
<1>3. ASSUME NEW t \in Threads, NEW h \in Handles, Construct(t, h), ~First
      PROVE  HandlesInv'
  <2>1. /\ Free(h) /\ counter' = counter + 1 /\ handles' = handles \cup {h}
        /\ UNCHANGED <<entering, destroying, level, leaked>>
    BY <1>3 DEF Construct, CountUp
  <2>2. Cardinality(handles') = Cardinality(handles) + 1
    BY <1>1, <2>1, FS_AddElement DEF Free
  <2>3. InInit' = InInit  BY <2>1 DEF InInit
  <2>4. GlobalTypeOK'  BY <1>0, <1>1, <2>1, <2>3 DEF GlobalTypeOK, Free, InInit
  <2>5. counter > 0 /\ counter' > 0  BY <1>1, <1>3, <2>1 DEF First
  <2> QED BY <1>0, <1>1, <2>1, <2>2, <2>3, <2>4, <2>5 DEF HandlesInv, Balanced
<1>4. ASSUME NEW t \in Threads, InitReturns(t) PROVE HandlesInv'
  <2>1. /\ t \in InInit /\ level' = level + 1 /\ handles' = handles \cup {entering[t]}
        /\ Make(t, None) /\ UNCHANGED <<counter, destroying, leaked>>
    BY <1>4 DEF InitReturns
  <2>2. /\ entering' \in [Threads -> Handles \cup {None}]
        /\ entering'[t] = None /\ \A s \in Threads \ {t} : entering'[s] = entering[s]
        /\ InInit' = InInit \ {t}
        /\ Cardinality(InInit') = Cardinality(InInit) - 1
    BY <1>0, <2>1, Leaves
  <2>3. entering[t] \in Handles /\ entering[t] \notin handles
    BY <1>0, <2>1 DEF GlobalTypeOK, InInit
  <2>4. Cardinality(handles') = Cardinality(handles) + 1
    BY <1>1, <2>1, <2>3, FS_AddElement
  <2>5. GlobalTypeOK'
    BY <1>0, <1>1, <2>1, <2>2, <2>3 DEF GlobalTypeOK, InInit
  <2> QED BY <1>0, <1>1, <2>1, <2>2, <2>4, <2>5 DEF HandlesInv, Balanced
<1>5. ASSUME NEW t \in Threads, InitThrows(t) PROVE HandlesInv'
  <2>1. /\ t \in InInit /\ leaked = 0 /\ leaked' = 1 /\ Make(t, None)
        /\ UNCHANGED <<counter, handles, destroying, level>>
    BY <1>5 DEF InitThrows
  <2>2. /\ entering' \in [Threads -> Handles \cup {None}]
        /\ entering'[t] = None /\ \A s \in Threads \ {t} : entering'[s] = entering[s]
        /\ InInit' = InInit \ {t}
        /\ Cardinality(InInit') = Cardinality(InInit) - 1
    BY <1>0, <2>1, Leaves
  <2>3. GlobalTypeOK'
    BY <1>0, <1>1, <2>1, <2>2 DEF GlobalTypeOK, InInit
  <2> QED BY <1>0, <1>1, <2>1, <2>2, <2>3 DEF HandlesInv, Balanced
<1>6. ASSUME NEW t \in Threads, NEW h \in Handles, Destruct(t, h) PROVE HandlesInv'
  <2>1. /\ t \notin InInit /\ t \notin destroying /\ h \in handles
        /\ counter' = counter - 1 /\ handles' = handles \ {h}
        /\ destroying' = IF counter = 1 THEN destroying \cup {t} ELSE destroying
        /\ UNCHANGED <<entering, level, leaked>>
    BY <1>6 DEF Destruct, Idle, WasLast
  <2>2. Cardinality(handles') = Cardinality(handles) - 1
    BY <1>1, <2>1, FS_RemoveElement
  <2>3. InInit' = InInit  BY <2>1 DEF InInit
  <2>4. Cardinality(handles') \in Nat
    BY <1>1, <2>1, FS_RemoveElement, FS_CardinalityType
  <2>5. counter > 0 /\ counter' \in Nat  BY <1>0, <1>1, <2>1, <2>2, <2>4
  <2>6. GlobalTypeOK'  BY <1>0, <1>1, <2>1, <2>3, <2>5 DEF GlobalTypeOK
  <2>7. Cardinality(destroying')
          = Cardinality(destroying) + (IF counter = 1 THEN 1 ELSE 0)
    <3>1. CASE counter = 1
      <4>1. destroying' = destroying \cup {t}  BY <2>1, <3>1
      <4>2. Cardinality(destroying \cup {t}) = Cardinality(destroying) + 1
        BY <1>1, <2>1, FS_AddElement
      <4> QED BY <3>1, <4>1, <4>2
    <3>2. CASE counter # 1
      <4>1. destroying' = destroying  BY <2>1, <3>2
      <4> QED BY <1>1, <3>2, <4>1
    <3> QED BY <3>1, <3>2
  <2>8. counter' = Cardinality(handles') + Cardinality(InInit') + leaked'
    BY <1>0, <1>1, <2>1, <2>2, <2>3
  <2>9. leaked' = 0 => level' + Cardinality(InInit') - Cardinality(destroying')
                         = IF counter' > 0 THEN 1 ELSE 0
    BY <1>0, <1>1, <2>1, <2>3, <2>5, <2>7
  <2> QED BY <1>0, <2>3, <2>6, <2>8, <2>9 DEF HandlesInv, Balanced
<1>7. ASSUME NEW t \in Threads, DestroyReturns(t) PROVE HandlesInv'
  <2>1. /\ t \in destroying /\ level' = level - 1 /\ destroying' = destroying \ {t}
        /\ UNCHANGED <<counter, handles, entering, leaked>>
    BY <1>7 DEF DestroyReturns
  <2>2. Cardinality(destroying') = Cardinality(destroying) - 1
    BY <1>1, <2>1, FS_RemoveElement
  <2>3. InInit' = InInit  BY <2>1 DEF InInit
  <2>4. GlobalTypeOK'  BY <1>0, <1>1, <2>1, <2>3 DEF GlobalTypeOK
  <2> QED BY <1>0, <1>1, <2>1, <2>2, <2>3, <2>4 DEF HandlesInv, Balanced
<1>8. CASE UNCHANGED globalVars
  BY <1>8 DEF globalVars, HandlesInv, Balanced, GlobalTypeOK, InInit
<1> QED BY <1>2, <1>3, <1>4, <1>5, <1>6, <1>7, <1>8 DEF GlobalNext

LEMMA HandlesAlways == GlobalSpec => []HandlesInv
BY HandlesInit, HandlesNext, PTL DEF GlobalSpec

\* Every handle is counted, and with the calls that still run the global is up
\* exactly once while the counter is above zero.
THEOREM CountIsBalanced == GlobalSpec => []Balanced
<1>1. HandlesInv => Balanced  BY DEF HandlesInv
<1> QED BY <1>1, HandlesAlways, PTL

\* Nothing is destroyed that is not up, and only a handle that is constructed while
\* the first one is still in init can find the global down.
THEOREM HandlesFindItUp == GlobalSpec => []DownOnlyDuringInit
<1>1. ASSUME HandlesInv, leaked = 0
      PROVE  /\ level >= Cardinality(destroying)
             /\ handles # {} /\ InInit = {} => level > Cardinality(destroying)
  <2>1. /\ counter = Cardinality(handles) + Cardinality(InInit)
        /\ level + Cardinality(InInit) - Cardinality(destroying)
             = IF counter > 0 THEN 1 ELSE 0
        /\ Cardinality(InInit) <= 1
        /\ level \in Int /\ counter \in Nat
    <3>1. GlobalTypeOK  BY <1>1 DEF HandlesInv, Balanced
    <3> QED BY <1>1, <3>1, Counted DEF HandlesInv, Balanced, GlobalTypeOK
  <2>2. /\ IsFiniteSet(handles) /\ Cardinality(handles) \in Nat
        /\ Cardinality(InInit) \in Nat /\ Cardinality(destroying) \in Nat
    BY <1>1, Counted DEF HandlesInv, Balanced
  <2>3. level >= Cardinality(destroying)  BY <2>1, <2>2
  <2>4. handles # {} => Cardinality(handles) > 0  BY <2>2, FS_EmptySet
  <2>5. InInit = {} => Cardinality(InInit) = 0  BY FS_EmptySet
  <2> QED BY <2>1, <2>2, <2>3, <2>4, <2>5
<1>2. HandlesInv => DownOnlyDuringInit  BY <1>1 DEF DownOnlyDuringInit
<1> QED BY <1>2, HandlesAlways, PTL
-------------------------------------------------------------------------------
(* ResourceManager: the handles got for an id share one resource.                *)

\* The positions of the makers whose iterator is still valid.
Filling == DOMAIN making \ dangling

\* SameResource is inductive with what TypeOK says by counting: that these makers
\* are of different ids.
MakersInv ==
    /\ making \in Seq(Ids)
    /\ \A c, d \in Filling : making[c] = making[d] => c = d
    /\ SameResource

\* Counting the ids of the makers says that they differ.
LEMMA Differ ==
    ASSUME NEW m \in Seq(Ids), NEW u,
           \A c, d \in DOMAIN m \ u : m[c] = m[d] => c = d
    PROVE  Cardinality({m[d] : d \in DOMAIN m \ u}) = Cardinality(DOMAIN m \ u)
<1> DEFINE S == DOMAIN m \ u
           T == {m[d] : d \in S}
           id == [d \in S |-> m[d]]
<1>1. DOMAIN m = 1 .. Len(m) /\ Len(m) \in Nat  OBVIOUS
<1>2. IsFiniteSet(DOMAIN m)  BY <1>1, FS_Interval
<1>3. IsFiniteSet(S)  BY <1>2, FS_Subset, S \subseteq DOMAIN m
<1>4. id \in Bijection(S, T)
  BY DEF Bijection, Injection, Surjection, IsInjective
<1>5. ExistsBijection(S, T)  BY <1>4 DEF ExistsBijection
<1> HIDE DEF S, T
<1>6. Cardinality(T) = Cardinality(S)  BY <1>3, <1>5, FS_Bijection
<1> QED BY <1>6 DEF S, T

\* What the innermost maker leaves when it ends.
LEMMA Ends ==
    ASSUME making \in Seq(Ids), making # <<>>
    PROVE  /\ Front(making) \in Seq(Ids)
           /\ Len(Front(making)) = Len(making) - 1
           /\ DOMAIN Front(making) = DOMAIN making \ {Len(making)}
           /\ \A d \in DOMAIN Front(making) : Front(making)[d] = making[d]
           /\ Len(making) \in DOMAIN making /\ Last(making) = making[Len(making)]
           /\ Len(making) \in Nat
<1>1. Len(making) \in Nat /\ Len(making) >= 1 /\ DOMAIN making = 1 .. Len(making)
  OBVIOUS
<1>2. /\ Front(making) \in Seq(Ids) /\ Len(Front(making)) = Len(making) - 1
      /\ \A d \in 1 .. Len(making) - 1 : Front(making)[d] = making[d]
  BY <1>1 DEF Front
<1>3. DOMAIN Front(making) = 1 .. Len(making) - 1  BY <1>2
<1>4. 1 .. Len(making) - 1 = DOMAIN making \ {Len(making)}  BY <1>1
<1> QED BY <1>1, <1>2, <1>3, <1>4 DEF Last

\* What Store does to the map.
LEMMA Stores ==
    ASSUME NEW id, NEW r, Store(id, r)
    PROVE  /\ DOMAIN store' = DOMAIN store \cup {id} /\ store'[id] = r
           /\ \A i \in DOMAIN store \ {id} : store'[i] = store[i]
           /\ Range(store') \subseteq Range(store) \cup {r}
BY DEF Store, Range

LEMMA MakersInit == Init => MakersInv
<1> SUFFICES ASSUME Init PROVE MakersInv  OBVIOUS
<1>1. making = <<>> /\ making \in Seq(Ids) /\ Len(making) = 0 /\ DOMAIN making = {}
  BY DEF Init
<1>2. Filling = {} /\ ToFill = {}  BY <1>1 DEF Filling, ToFill
<1>3. DOMAIN store = {} /\ Range(store) = {}  BY DEF Init, Range
<1>4. handle \in [Slots -> [id: Ids \cup {Null}, resource: Resources \cup {Null}]]
  BY DEF Init, NoHandle
<1>5. Cardinality(ToFill) = Cardinality(Filling)  BY <1>1, <1>2, Differ DEF Filling, ToFill
<1>6. TypeOK
  BY <1>1, <1>2, <1>3, <1>4, <1>5, DepthAssumption DEF TypeOK, Init, Filling
<1>7. \A s \in Slots : handle[s].resource = Null  BY DEF Init, NoHandle
<1> QED BY <1>1, <1>2, <1>6, <1>7 DEF MakersInv, SameResource

\* TypeOK of the next state counts nothing that MakersInv does not say of it.
LEMMA StepKeeps ==
    ASSUME making' \in Seq(Ids), dangling' \subseteq DOMAIN making',
           Len(making') <= MaxDepth,
           \A c, d \in DOMAIN making' \ dangling' : making'[c] = making'[d] => c = d,
           \A d \in DOMAIN making' \ dangling' :
               making'[d] \in DOMAIN store' /\ store'[making'[d]] = Null,
           DOMAIN store' \subseteq Ids, Range(store') \subseteq Resources \cup {Null},
           handle' \in [Slots -> [id: Ids \cup {Null}, resource: Resources \cup {Null}]],
           \A s \in Slots : handle'[s].resource # Null =>
               /\ handle'[s].id \in DOMAIN store'
               /\ store'[handle'[s].id] = handle'[s].resource
               /\ \A d \in DOMAIN making' \ dangling' : making'[d] # handle'[s].id
    PROVE  MakersInv'
<1>1. Cardinality(ToFill') = Cardinality(DOMAIN making' \ dangling')
  BY Differ DEF ToFill
<1>2. TypeOK'  BY <1>1 DEF TypeOK, ToFill
<1> QED BY <1>2 DEF MakersInv, SameResource, Filling, ToFill

LEMMA MakersNext == MakersInv /\ [Next]_vars => MakersInv'
<1> SUFFICES ASSUME MakersInv, [Next]_vars PROVE MakersInv'  OBVIOUS
<1>0. /\ making \in Seq(Ids) /\ dangling \subseteq DOMAIN making /\ Len(making) <= MaxDepth
      /\ \A c, d \in DOMAIN making \ dangling : making[c] = making[d] => c = d
      /\ \A d \in DOMAIN making \ dangling :
             making[d] \in DOMAIN store /\ store[making[d]] = Null
      /\ DOMAIN store \subseteq Ids /\ Range(store) \subseteq Resources \cup {Null}
      /\ handle \in [Slots -> [id: Ids \cup {Null}, resource: Resources \cup {Null}]]
      /\ \A s \in Slots : handle[s].resource # Null =>
             /\ handle[s].id \in DOMAIN store
             /\ store[handle[s].id] = handle[s].resource
             /\ \A d \in DOMAIN making \ dangling : making[d] # handle[s].id
  BY DEF MakersInv, SameResource, TypeOK, Filling, ToFill
<1>1. ASSUME NEW s \in Slots, NEW id \in Ids, Get(s, id) \/ GetStored(s, id)
      PROVE  MakersInv'
  <2>1. /\ id \in DOMAIN store /\ Give(s, id, Lock(store[id]))
        /\ UNCHANGED <<store, making, dangling>>
    BY <1>1 DEF Get, GetStored
  <2>2. Lock(store[id]) \in {store[id], Null} /\ store[id] \in Resources \cup {Null}
    BY <1>0, <2>1 DEF Lock, Range
  <2>3. /\ handle' \in [Slots -> [id: Ids \cup {Null}, resource: Resources \cup {Null}]]
        /\ handle'[s] = [id |-> id, resource |-> Lock(store[id])]
        /\ \A t \in Slots \ {s} : handle'[t] = handle[t]
    BY <1>0, <2>1, <2>2 DEF Give
  <2>4. Lock(store[id]) # Null => \A d \in DOMAIN making \ dangling : making[d] # id
    BY <1>0, <2>2
  <2> QED BY <1>0, <2>1, <2>2, <2>3, <2>4, StepKeeps
<1>2. ASSUME NEW id \in Ids, NEW rehash \in BOOLEAN, StartMake(id, rehash)
      PROVE  MakersInv'
  <2>1. /\ id \notin DOMAIN store /\ Len(making) < MaxDepth /\ Store(id, Null)
        /\ making' = Append(making, id) /\ handle' = handle
        /\ dangling' = IF rehash THEN DOMAIN making ELSE dangling
    BY <1>2 DEF StartMake, Inserts
  <2>2. /\ DOMAIN store' = DOMAIN store \cup {id} /\ store'[id] = Null
        /\ \A i \in DOMAIN store : store'[i] = store[i]
        /\ Range(store') \subseteq Resources \cup {Null}
    BY <1>0, <2>1, Stores
  <2>3. /\ making' \in Seq(Ids) /\ Len(making') <= MaxDepth
        /\ DOMAIN making' = DOMAIN making \cup {Len(making) + 1}
        /\ \A d \in DOMAIN making : making'[d] = making[d]
        /\ making'[Len(making) + 1] = id
    BY <1>0, <2>1, DepthAssumption
  <2>4. \A d \in DOMAIN making \ dangling : making[d] # id  BY <1>0, <2>1
  <2>a. /\ dangling' \subseteq DOMAIN making'
        /\ DOMAIN making' \ dangling'
             \subseteq (DOMAIN making \ dangling) \cup {Len(making) + 1}
    BY <1>0, <2>1, <2>3
  <2>5. \A c, d \in DOMAIN making' \ dangling' : making'[c] = making'[d] => c = d
    BY <1>0, <2>a, <2>3, <2>4
  <2>6. \A d \in DOMAIN making' \ dangling' :
            making'[d] \in DOMAIN store' /\ store'[making'[d]] = Null
    BY <1>0, <2>a, <2>2, <2>3
  <2>7. \A s \in Slots : handle'[s].resource # Null =>
            /\ handle'[s].id \in DOMAIN store'
            /\ store'[handle'[s].id] = handle'[s].resource
            /\ \A d \in DOMAIN making' \ dangling' : making'[d] # handle'[s].id
    BY <1>0, <2>1, <2>a, <2>2, <2>3
  <2> QED BY <1>0, <2>1, <2>a, <2>2, <2>3, <2>5, <2>6, <2>7, StepKeeps
<1>3. ASSUME NEW s \in Slots, NEW r \in Fresh \cup Held \cup {Null}, MakeReturns(s, r)
      PROVE  MakersInv'
  <2> DEFINE last == making[Len(making)]
  <2>1. /\ making # <<>> /\ Len(making) \notin dangling /\ Store(last, r)
        /\ Give(s, last, r) /\ making' = Front(making) /\ dangling' = dangling
    BY <1>3 DEF MakeReturns, Last
  <2>2. /\ making' \in Seq(Ids) /\ Len(making') = Len(making) - 1
        /\ DOMAIN making' = DOMAIN making \ {Len(making)}
        /\ \A d \in DOMAIN making' : making'[d] = making[d]
        /\ Len(making) \in DOMAIN making \ dangling /\ Len(making) \in Nat
    BY <1>0, <2>1, Ends
  <2>3. last \in Ids /\ last \in DOMAIN store /\ store[last] = Null
    BY <1>0, <2>2
  <2>4. r \in Resources \cup {Null}
    BY <1>0 DEF Fresh, Held
  <2> HIDE DEF last
  <2>5. /\ DOMAIN store' = DOMAIN store /\ store'[last] = r
        /\ \A i \in DOMAIN store \ {last} : store'[i] = store[i]
        /\ Range(store') \subseteq Resources \cup {Null}
    <3>1. ASSUME NEW id, id = last
          PROVE  /\ DOMAIN store' = DOMAIN store \cup {id} /\ store'[id] = r
                 /\ \A i \in DOMAIN store \ {id} : store'[i] = store[i]
                 /\ Range(store') \subseteq Range(store) \cup {r}
      <4>1. Store(id, r)  BY <2>1, <3>1
      <4> QED BY <4>1, Stores
    <3>2. /\ DOMAIN store' = DOMAIN store \cup {last} /\ store'[last] = r
          /\ \A i \in DOMAIN store \ {last} : store'[i] = store[i]
          /\ Range(store') \subseteq Range(store) \cup {r}
      BY <3>1
    <3>3. DOMAIN store \cup {last} = DOMAIN store  BY <2>3
    <3>4. Range(store') \subseteq Resources \cup {Null}  BY <1>0, <2>4, <3>2
    <3> QED BY <3>2, <3>3, <3>4
  <2>6. /\ handle' \in [Slots -> [id: Ids \cup {Null}, resource: Resources \cup {Null}]]
        /\ handle'[s] = [id |-> last, resource |-> r]
        /\ \A t \in Slots \ {s} : handle'[t] = handle[t]
    BY <1>0, <2>1, <2>3, <2>4 DEF Give
  <2>7. \A d \in DOMAIN making' \ dangling' : d \in DOMAIN making \ dangling /\ making'[d] # last
    BY <1>0, <2>1, <2>2 DEF last
  <2>8. \A t \in Slots \ {s} : handle[t].resource # Null => handle[t].id # last
    BY <1>0, <2>2 DEF last
  <2>9. \A d \in DOMAIN making' \ dangling' :
            making'[d] \in DOMAIN store' /\ store'[making'[d]] = Null
    BY <1>0, <2>2, <2>5, <2>7
  <2>10. \A t \in Slots : handle'[t].resource # Null =>
            /\ handle'[t].id \in DOMAIN store'
            /\ store'[handle'[t].id] = handle'[t].resource
            /\ \A d \in DOMAIN making' \ dangling' : making'[d] # handle'[t].id
    BY <1>0, <2>2, <2>3, <2>5, <2>6, <2>7, <2>8
  <2>11. dangling' \subseteq DOMAIN making'  BY <1>0, <2>1, <2>2
  <2>12. \A c, d \in DOMAIN making' \ dangling' : making'[c] = making'[d] => c = d
    BY <1>0, <2>2, <2>7
  <2>13. Len(making') <= MaxDepth  BY <1>0, <2>2, DepthAssumption
  <2> QED BY <1>0, <2>2, <2>5, <2>6, <2>9, <2>10, <2>11, <2>12, <2>13, StepKeeps
<1>4. ASSUME MakeThrows PROVE MakersInv'
  <2>1. /\ making # <<>> /\ making' = Front(making) /\ dangling' = dangling \ {Len(making)}
        /\ UNCHANGED <<store, handle>>
    BY <1>4 DEF MakeThrows
  <2>2. /\ making' \in Seq(Ids) /\ Len(making') = Len(making) - 1
        /\ DOMAIN making' = DOMAIN making \ {Len(making)}
        /\ \A d \in DOMAIN making' : making'[d] = making[d]
        /\ Len(making) \in Nat
    BY <1>0, <2>1, Ends
  <2>3. \A d \in DOMAIN making' \ dangling' : d \in DOMAIN making \ dangling
    BY <2>1, <2>2
  <2>4. Len(making') <= MaxDepth  BY <1>0, <2>2, DepthAssumption
  <2>5. dangling' \subseteq DOMAIN making'  BY <1>0, <2>1, <2>2
  <2> QED BY <1>0, <2>1, <2>2, <2>3, <2>4, <2>5, StepKeeps
<1>5. ASSUME Cleanup PROVE MakersInv'
  <2> DEFINE erased == {id \in DOMAIN store : Expired(id)}
  <2>1. /\ store' = Restrict(store, DOMAIN store \ erased)
        /\ dangling' = dangling \cup {d \in DOMAIN making : making[d] \in erased}
        /\ UNCHANGED <<handle, making>>
    BY <1>5 DEF Cleanup
  <2>2. /\ DOMAIN store' = DOMAIN store \ erased
        /\ \A i \in DOMAIN store' : store'[i] = store[i]
    BY <2>1 DEF Restrict
  <2>3. Range(store') \subseteq Resources \cup {Null}
    BY <1>0, <2>2 DEF Range
  <2>4. \A d \in DOMAIN making \ dangling : making[d] \in erased
    BY <1>0 DEF Expired, Lock, Held
  <2>5. DOMAIN making' \ dangling' = {}  BY <2>1, <2>4
  <2>6. ASSUME NEW s \in Slots, handle[s].resource # Null
        PROVE  handle[s].id \in DOMAIN store'
    <3>1. handle[s].id \in DOMAIN store /\ store[handle[s].id] = handle[s].resource
      BY <1>0, <2>6
    <3>2. handle[s].resource \in Held  BY <2>6 DEF Held
    <3>3. ~Expired(handle[s].id)  BY <2>6, <3>1, <3>2 DEF Expired, Lock
    <3> QED BY <2>2, <3>1, <3>3
  <2> HIDE DEF erased
  <2>7. dangling' \subseteq DOMAIN making'  BY <1>0, <2>1
  <2>8. \A s \in Slots : handle'[s].resource # Null =>
            /\ handle'[s].id \in DOMAIN store'
            /\ store'[handle'[s].id] = handle'[s].resource
            /\ \A d \in DOMAIN making' \ dangling' : making'[d] # handle'[s].id
    BY <1>0, <2>1, <2>2, <2>5, <2>6
  <2> QED BY <1>0, <2>1, <2>2, <2>3, <2>5, <2>7, <2>8, StepKeeps
<1>6. ASSUME NEW s \in Slots, Drop(s) PROVE MakersInv'
  <2>1. /\ handle' \in [Slots -> [id: Ids \cup {Null}, resource: Resources \cup {Null}]]
        /\ handle'[s].resource = Null
        /\ \A t \in Slots \ {s} : handle'[t] = handle[t]
        /\ UNCHANGED <<store, making, dangling>>
    BY <1>0, <1>6 DEF Drop, NoHandle
  <2> QED BY <1>0, <2>1, StepKeeps
<1>7. CASE UNCHANGED vars
  BY <1>7 DEF vars, MakersInv, SameResource, TypeOK, Filling, ToFill
<1> QED BY <1>1, <1>2, <1>3, <1>4, <1>5, <1>6, <1>7 DEF Next

\* However gets, makers that run inside each other or throw, clean-ups and drops
\* follow each other, all the handles got for an id that are held share one resource,
\* which the id is bound to and no running maker can replace: as long as no maker
\* returns after an insertion or a clean-up it made has invalidated the iterator
\* of its get, through which get would store the result.
THEOREM ResourcesAreShared == Spec => []SameResource
<1>1. MakersInv => SameResource  BY DEF MakersInv
<1> QED BY <1>1, MakersInit, MakersNext, PTL DEF Spec
===============================================================================
