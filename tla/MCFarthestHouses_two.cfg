CHECK_DEADLOCK FALSE
SPECIFICATION Spec
CONSTANTS
    Inputs <- TwoHouses
    NUM_THREAD = 36
INVARIANT AnswerRight
