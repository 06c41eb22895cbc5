SPECIFICATION Spec
CONSTANTS
    Code <- KernelCode
    FdeTables <- FullFdes
    FullTables <- FullFdes
    Handler = 129
    Entry = 101
    WalkReturns = 121
    StackSize = 26
    Interrupts = 1
    Interruptible <- Everywhere
INVARIANT
    WalkReportsCallStack
CHECK_DEADLOCK FALSE
