SPECIFICATION FairSpec
CONSTANTS
    N = 3
    MaxTicket = 5
INVARIANTS
    TypeOK
    MutualExclusion
    FirstComeFirstServed
PROPERTIES
    ImplementsMutex
    StarvationFree
