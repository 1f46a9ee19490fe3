CONSTANTS
    Heads = {h1, h2}
    Entries = {e1, e2, e3}
    Null = Null
SPECIFICATION Spec
SYMMETRY Symmetric
INVARIANTS Represents WalkSeesAll
CHECK_DEADLOCK FALSE
