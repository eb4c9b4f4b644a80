SPECIFICATION Spec
CONSTANTS
    N = 2
    PerInst <- BlockInFirst
    MayFail = {0}
    Mutexes <- PoolMutexes
    First = first
    Walker = walker
    NULL = NULL
CHECK_DEADLOCK FALSE
INVARIANT FailsCleanly
