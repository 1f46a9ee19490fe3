CONSTANTS
    Elems = {e1, e2, e3, e4}
    NoElem = NoElem
    k1 = k1
    k2 = k2
    k3 = k3
    Keys = {k1, k2, k3}
    NumBuckets = 2
    HashOf <- MCHashOf
SPECIFICATION HashSpec
SYMMETRY Symmetry
INVARIANTS KeyOnce
PROPERTIES ImplementsMap
CHECK_DEADLOCK FALSE
