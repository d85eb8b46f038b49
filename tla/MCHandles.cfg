SPECIFICATION HandlesSpec
CONSTANTS
    Ids       = {a, b}
    Resources = {r1, r2, r3}
    Slots     = {h1, h2, h3}
    Null      = Null
    MaxDepth  = 2
    Threads   = {t1, t2, t3, t4}
    Handles   = {g1, g2, g3, g4}
    None      = None
    MayThrow  = TRUE
INVARIANTS
    SameResource
    Balanced
    DownOnlyDuringInit
