SPECIFICATION Spec
CONSTANTS
    MaxDepth = 2
    FreeEntries = 1
    MaxExceptions = 2
    AttributeLists <- Loaders
INVARIANTS
    ContextIsTheLoaders
    WindowIsInUse
    ReasonSaidOnce
PROPERTIES
    PanicIsFinal
    PanicHangs
    BootEnds
CHECK_DEADLOCK FALSE
