SPECIFICATION Spec
CONSTANTS
    ByteBits = 3
    Images <- LinkedImages
    Pcs <- LookedUp
    CodeFactor = 2049
INVARIANTS
    FindsTheInformation
CHECK_DEADLOCK FALSE
