CHECK_DEADLOCK FALSE
SPECIFICATION FairSpec
CONSTANTS
    Thread = {t1, t2, t3}
    High = {}
    Event <- Events
    NONE = NONE
    NArrays = 3
    CellCounts = {1}
    Quotas <- Once
    t1 = t1
    t2 = t2
    t3 = t3
PROPERTY EveryCallReturns
