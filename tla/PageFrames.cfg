SPECIFICATION Spec
CONSTANTS
    Maps <- MCMaps
    availablePages = 3
    PageSize = 2
    IndexValues = 3
INVARIANTS
    TypeOK
    FramesAreUsablePages
    NoPageSkipped
    WholeTableFilled
    StartOfRamIsFirstBlock
    FirstBlockNumbered
\* The kernel goes on elsewhere, or has halted.
CHECK_DEADLOCK FALSE
