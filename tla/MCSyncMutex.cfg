CHECK_DEADLOCK FALSE
SPECIFICATION FairSpec
CONSTANTS
    Thread = {t1, t2, t3}
    High = {t3}
    Event <- Events
    NONE = NONE
    NArrays = 1
    CellCounts = {1, 3}
    Quotas <- OnceOrTwice
    t1 = t1
    t2 = t2
    t3 = t3
INVARIANTS
    OneOwner
    CellsMatchWaiters
    NoLostWakeup
PROPERTY EveryCallReturns
