SPECIFICATION FairSpec
CONSTANTS
    N = 2
    Ticks = 1
    Verbose = TRUE
    IntMax = 15
    WordSize = 32
    MaxVersion = 4
    Picks <- AllPicks
INVARIANTS
    VersionsDescend
    NoDanglingLink
    CollectorKeepsHead
PROPERTIES
    FreesOnlyBelowMinimum
    Termination
    GarbageIsFreed
