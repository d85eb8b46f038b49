SPECIFICATION Spec
CONSTANTS
    Threads = {t1, t2, t3}
    Elements = {e1}
    NoElement = NoElement
    MaxSize = 1
    MayThrow = TRUE
INVARIANTS
    PopBlocksOnlyUntilAvailable
