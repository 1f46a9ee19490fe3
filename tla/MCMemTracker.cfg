CONSTANTS
    Elems = {i1, i2}
    NoElem = NoElem
    s1 = s1
    s2 = s2
    Keys = {s1, s2}
    NumBuckets = 2
    HashOf <- MCHashOf
    Blocks = {b1, b2, b3}
    NoBlock = NoBlock
    NoTag = NoTag
    Sizes = {1}
    Counts = {0, 3}
SPECIFICATION Spec
SYMMETRY Symmetry
INVARIANTS ExactReport NoFalseLeak NoEmptyInfo
CHECK_DEADLOCK FALSE
