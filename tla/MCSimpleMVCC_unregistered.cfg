SPECIFICATION Spec
CONSTANTS
    N = 3
    Ticks = 0
    Verbose = FALSE
    IntMax = 15
    WordSize = 32
    MaxVersion = 5
    Picks <- StarPicks
INVARIANT ReadersOnLiveNodes
