SPECIFICATION HeapSpec
CONSTANTS
    MemoryMaps <- MCMaps
    HeapRequests = {0, 4, 12, 40}
    StackRequests = {0, 4, 40}
    BufferEntries = 3
    HhdmSize = 512
    WordMod = 1024
INVARIANTS
    TypeOK
    NoOverlap
    NoLeak
    HeadIsLowest
    LastIsTopmost
    RoomForHeaders
    CorruptOnlyAtBoot
    ShortListFrees
PROPERTIES
    ImplementsAllocator
\* A fault or a corrupted list stops the kernel.
CHECK_DEADLOCK FALSE
