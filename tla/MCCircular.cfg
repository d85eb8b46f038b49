SPECIFICATION Spec
CONSTANTS
    Objects = {a, b}
    Elements = {e1, e2}
    Moved = Moved
    Raw = Raw
    Size = 3
CHECK_DEADLOCK FALSE
INVARIANTS
    TypeOK
    LifetimesMatch
    IterationAgrees
PROPERTIES
    ImplementsDeque
