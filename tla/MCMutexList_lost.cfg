SPECIFICATION ListSpecification
CONSTANTS
    Mutexes = {first, a, b}
    First = first
    Walker = walker
    NULL = NULL
CHECK_DEADLOCK FALSE
INVARIANT AllChained
