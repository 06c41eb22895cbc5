SPECIFICATION Spec
INVARIANT
    EveryRegisterIsFound
CHECK_DEADLOCK FALSE
