SPECIFICATION Spec
CONSTANTS
    Maps <- MCMaps
    availablePages = 3
    PageSize = 2
    IndexValues = 3
INVARIANT NumbersNameFrames
CHECK_DEADLOCK FALSE
