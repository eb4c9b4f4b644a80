CHECK_DEADLOCK FALSE
SPECIFICATION Spec
CONSTANTS
    Inputs <- FourHouses
    NUM_THREAD = 36
INVARIANT IndexInHouse
