SPECIFICATION Spec
CONSTANTS
    Code <- KernelCodeGoesOn
    FdeTables <- FullFdesGoesOn
    FullTables <- FullFdesGoesOn
    Handler = 129
    Entry = 101
    WalkReturns = 121
    StackSize = 26
    Interrupts = 1
    Interruptible <- Nowhere
INVARIANT
    WalkReportsCallStack
CHECK_DEADLOCK FALSE
