SPECIFICATION Spec
CONSTANTS
    EntriesPerPage = 6
    MemoryMaps <- SmallMaps
    Pages = {1, 2, 3, 4, 5, 6, 7}
    MaxPages = 3
INVARIANTS
    MapOrdered
    OneOwner
    RoomForGrowth
    OnlyLoaderSeams
    PanicOnlyOnMisuse
PROPERTIES
    ImplementsPageAllocator
CHECK_DEADLOCK FALSE
