SPECIFICATION Spec
CONSTANTS
    MemoryMaps <- MCStackMaps
    HeapRequests = {4, 40}
    StackRequests = {0, 4, 40}
    BufferEntries = 3
    HhdmSize = 208
    WordMod = 512
INVARIANT LengthAccounting
\* A fault or a corrupted list stops the kernel.
CHECK_DEADLOCK FALSE
