SPECIFICATION Spec
CONSTANTS
    Con = {c1, c2, c3, c4}
    NULL = NULL
INVARIANTS
    EachOnce
PROPERTIES
    OthersStay
    WriteReturns
