SPECIFICATION Spec
CONSTANTS
    Messages <- MCMessages
    ParamFormats <- MCParamFormats
    Texts <- MCTexts
    Size <- MCSize
    MaxLength = 3
    LogSize = 6
    ParamSizes = {0, 1, 3}
    Modulus = 32
    Numbers <- MCNumbers
    NULL = NULL
    PointerWidth = 2
    Warning <- MCWarning
    MaxWritten = 10
INVARIANTS
    NeverPads
    WarningLeavesTheMessage
    ParamHasNoTerminator
