SPECIFICATION Spec
CONSTANTS
    ByteBits = 3
    Images <- LinkedImages
    Pcs <- LookedUp
    CodeFactor = 1
INVARIANTS
    AvailableIsValid
    ReadsInside
    FindsTheInformation
CHECK_DEADLOCK FALSE
