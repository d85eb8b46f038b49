SPECIFICATION Spec
CONSTANTS
    Guards    = {g1, g2, g3}
    Uniques   = {u1, u2}
    Tasks     = {t1, t2, t3}
    Copyables = {c1, c2, c3}
    Holders   <- MCHolders
    Functions = {f1, f2, f3}
    Empty     = Empty
    Hollow    = Hollow
    Raw       = Raw
    NoFuture  = NoFuture
    MaxCalls  = 2
\* The process may end.
CHECK_DEADLOCK FALSE
INVARIANTS
    TypeOK
    ObjectsMatchStorage
    OwnedOrDone
    OnlyCarelessTerminates
    PromiseServed
