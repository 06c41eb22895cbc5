SPECIFICATION Spec
CONSTANTS
    MaxDepth = 1
    FreeEntries = 1
    MaxExceptions = 0
    AttributeLists <- Loaders
INVARIANT
    ConsoleHasWindow
CHECK_DEADLOCK FALSE
