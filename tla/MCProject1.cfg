CHECK_DEADLOCK FALSE
SPECIFICATION EitherSpec
CONSTANTS
    Inputs <- SmallInputs
    NUM_THREAD = 36
INVARIANTS
    OwnHintsAreTrue
    OwnAnswerRight
    OwnDrawBound
    MeetingSumTells
    MeetingAnswerWithinOne
PROPERTY EitherEnds
