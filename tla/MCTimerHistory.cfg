CONSTANTS
    NoElem = NoElem
    Elems = {e1, e2}
    NumBuckets = 2
    TickRate = 2
    TickMod = 4
    Timeouts <- MCTimeouts
    Gaps <- MCGaps
SPECIFICATION HFairSpec
INVARIANTS NotEarly NoOverdue ExpiryOrder
PROPERTIES RunningTimerSettles DriveReturns
CHECK_DEADLOCK FALSE
