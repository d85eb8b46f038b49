SPECIFICATION FairSpec
CONSTANTS
    Clients = {c1, c2}
    Workers = {w1, w2, w3}
    k1 = k1
    k2 = k2
    k3 = k3
    k4 = k4
    Tasks = {k1, k2, k3, k4}
    NoTask = NoTask
    Child <- MCChild
    Awaiting = {k1}
    Throwing = {k3}
CHECK_DEADLOCK FALSE
INVARIANTS
    TypeOK
    HeldOnce
    NoLostWakeup
    StopWakesWorkers
    JoinDrains
    BrokenOnlyUnserved
PROPERTIES
    ServesInOrder
    TasksComplete
    JoinReturns
