SPECIFICATION Spec
CONSTANTS
    Strings <- ShortStrings
    MaxLength = 4
    Modulus = 256
    Widths = {16, 256}
    Bases = {0, 10}
INVARIANTS
    NothingWraps
    ResultIsMeant
CHECK_DEADLOCK FALSE
