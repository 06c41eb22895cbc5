SPECIFICATION Spec
CONSTANTS
    LastPage = 6
    MaxRanges = 5
    Maps <- AllMaps
    Values <- AllValues
INVARIANTS
    FindsRange
PROPERTY
    Shrinks
CHECK_DEADLOCK FALSE
