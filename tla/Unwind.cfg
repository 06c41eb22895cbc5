SPECIFICATION Spec
CONSTANTS
    Code <- KernelCode
    FdeTables <- FullAndPoorFdes
    FullTables <- FullFdes
    Handler = 129
    Entry = 101
    WalkReturns = 121
    StackSize = 26
    Interrupts = 2
    Interruptible <- InsideFunctions
INVARIANTS
    FramesAreReal
    WalkReportsCallStack
    ReadsOnlyTheStack
PROPERTY
    WalkEnds
CHECK_DEADLOCK FALSE
