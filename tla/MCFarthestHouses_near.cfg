CHECK_DEADLOCK FALSE
SPECIFICATION Spec
CONSTANTS
    Inputs <- NearHouses
    NUM_THREAD = 36
INVARIANT AnswerRight
