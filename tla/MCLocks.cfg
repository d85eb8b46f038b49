SPECIFICATION Spec
CONSTANTS
    Threads   = {t1, t2}
    Nobody    = Nobody
    Cells     = {1, 2}
    Variables = {v, w}
    Modulus   = 2
    Tags      = {a}
    Levels    = {0, 1, 2}
    Default   = 0
    Absent    = Absent
    LogsUnderHandles <- MCLogs
INVARIANTS
    LockedByOneHandle
    NoLostUpdate
    AnswersOfSomeInstant
