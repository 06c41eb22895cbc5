SPECIFICATION Spec
CONSTANTS
    EntriesPerPage = 6
    MemoryMaps <- PageZeroMaps
    Pages = {0, 1, 2, 3, 4, 5, 6}
    MaxPages = 2
INVARIANT
    NoPageLost
CHECK_DEADLOCK FALSE
