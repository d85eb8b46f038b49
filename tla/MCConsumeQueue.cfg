SPECIFICATION FairSpec
CONSTANTS
    Threads = {t1, t2, t3}
    Elements = {e1, e2}
    NoElement = NoElement
    MaxSize = 2
    MayThrow = TRUE
INVARIANTS
    TypeOK
    NoLostPopWakeup
    NoLostPushWakeup
    EndWakesPop
    NoMutualSleep
PROPERTIES
    Linearizable
    PopProgress
    PushProgress
    EndUnblocksPop
