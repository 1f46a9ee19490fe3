CONSTANTS
    Bytes = {b1, b2}
    Junk = Junk
    Sizes <- MCSizes
    MaxBytes = 5
SPECIFICATION Spec
SYMMETRY Symmetry
INVARIANTS IndicesAgree
PROPERTIES ImplementsQueue
CHECK_DEADLOCK FALSE
