CONSTANTS
    NoElem = NoElem
    Elems = {e1, e2, e3}
    NumBuckets = 3
    TickRate = 2
    TickMod = 4
    Timeouts <- MCTimeouts
    Gaps <- MCGaps
SPECIFICATION Spec
SYMMETRY Symmetry
INVARIANTS LinkedOnce
PROPERTIES ImplementsCountdown ExpiryShrinks
CHECK_DEADLOCK FALSE
