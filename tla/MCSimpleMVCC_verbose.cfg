SPECIFICATION FairSpec
CONSTANTS
    N = 2
    Ticks = 1
    Verbose = TRUE
    IntMax = 15
    WordSize = 32
    MaxVersion = 3
    Picks <- AllPicks
PROPERTY ListsFrozenWhileVerbosing
