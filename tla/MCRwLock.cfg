CHECK_DEADLOCK FALSE
SPECIFICATION FairSpec
CONSTANTS
    Thread = {t1, t2, t3, io}
    Highs = {{t3}, {t2, t3}}
    Passing = {t2}
    Handler = {io}
    MaxDepth = 3
    X_LOCK_DECR = 5
    Event <- Events
    NONE = NONE
    NArrays = 1
    CellCounts = {6}
INVARIANTS
    LockWordTells
    WriterIsValid
    NoSleeperForgotten
PROPERTY EveryCallReturns
