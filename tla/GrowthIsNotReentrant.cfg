SPECIFICATION RegrowSpec
CONSTANTS
    EntriesPerPage = 4
    MemoryMaps <- OneMap
    Pages = {1, 2, 3, 4, 5, 6, 7, 8, 9}
    MaxPages = 2
    MaxFrames = 3
    Junk <- SomeJunk
INVARIANT
    GrowthIsNotReentrant
CHECK_DEADLOCK FALSE
