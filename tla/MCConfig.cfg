CONSTANTS
    Names = {n1, n2}
    s = s
    q = q
    fine = fine
    coarse = coarse
    Strings = {s, q}
    Fragment <- MCFragment
    Floats = {fine, coarse}
    Printed <- MCPrinted
    NoVal = NoVal
    NoFile = NoFile
    Given <- MCGiven
    Texts <- MCTexts
    MaxParams = 2
    MaxCount = 3
SPECIFICATION LoaderSpec
SYMMETRY Symmetry
INVARIANTS TypeOK WalkVisitsAll RereadsTheSame
PROPERTIES ReadsBack 
CHECK_DEADLOCK FALSE
