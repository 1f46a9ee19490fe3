CONSTANTS
    NumSmall = 6
    NumLarge = 10
    Holes = 1
    Nodes <- MCNodes
    Nil = Nil
    Key <- MCKey
SPECIFICATION MCSpec
INVARIANTS SearchTree Linked RedRule BlackBalanced NoNullAccess Augmented
PROPERTIES ImplementsOrderedSet CallsReturn
CHECK_DEADLOCK FALSE
