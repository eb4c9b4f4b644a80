SPECIFICATION Spec
CONSTANTS
    N = 3
    PerInst <- BlockInFirst
    MayFail = {0, 2}
    Mutexes <- PoolMutexes
    First = first
    Walker = walker
    NULL = NULL
CHECK_DEADLOCK FALSE
INVARIANTS
    AllChained
    CountExact
    WalkCounts
    EndIsOldest
    StartComplete
    NothingLeft
