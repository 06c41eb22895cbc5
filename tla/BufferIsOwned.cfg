SPECIFICATION Spec
CONSTANTS
    EntriesPerPage = 6
    MemoryMaps <- SmallMaps
    Pages = {1, 2, 3, 4, 5, 6, 7}
    MaxPages = 2
INVARIANT
    BufferIsOwned
CHECK_DEADLOCK FALSE
