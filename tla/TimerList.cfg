SPECIFICATION Spec
CONSTANTS
    Timers = {t1, t2, t3, t4}
    MaxTime = 3
    NULL = NULL
INVARIANTS
    TypeOK
    WellLinked
    NothingDangles
    Sorted
PROPERTIES
    ImplementsTimerQueue
