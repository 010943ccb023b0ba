SPECIFICATION Spec
CONSTANTS
    Traps = {3, 5, 33}
    Faults = {6, 13, 14}
    StackWords = 48
    MaxNmi = 2
PROPERTIES
    ReturnsToInterrupted
    ContextKept
    ContextPrinted
    FaultNeverResumes
    TrapReturns
    FaultEnds
\* Once control is lost nothing happens.
CHECK_DEADLOCK FALSE
