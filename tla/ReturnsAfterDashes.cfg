SPECIFICATION Spec
CONSTANTS
    Lines <- ArbitraryLines
    params <- TwoParams
    BoolParams = {1}
    MaxLength = 4
    MaxSettings = 1
INVARIANTS
    ReturnsAfterDashes
CHECK_DEADLOCK FALSE
