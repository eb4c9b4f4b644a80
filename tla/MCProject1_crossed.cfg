CHECK_DEADLOCK FALSE
SPECIFICATION EitherSpec
CONSTANTS
    Inputs <- CrossedInput
    NUM_THREAD = 36
INVARIANT MeetingGreatestRight
