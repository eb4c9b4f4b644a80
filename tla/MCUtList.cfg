SPECIFICATION Spec
CONSTANTS
    Elem = {a, b, c, d}
    NULL = NULL
    Junk = Junk
SYMMETRY Symmetry
INVARIANTS
    Validates
PROPERTIES
    ImplementsList
