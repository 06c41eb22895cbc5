SPECIFICATION Spec
INVARIANTS
    TraceGoesThrough
    HandlerSeesRegisters
    NothingIsLost
PROPERTY
    IsHandled
CHECK_DEADLOCK FALSE
