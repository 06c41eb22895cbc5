SPECIFICATION Spec
CONSTANTS
    Lines <- AllLines
    params <- TwoParams
    BoolParams = {1}
    MaxLength = 6
    MaxSettings = 2
INVARIANTS
    NothingLost
    SetsAsWritten
PROPERTIES
    Returns
CHECK_DEADLOCK FALSE
