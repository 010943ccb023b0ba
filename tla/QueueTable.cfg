SPECIFICATION Spec
CONSTANTS
    NPROC = 2
    Keys = {1}
    MaxKey = 3
INVARIANTS
    TypeOK
    TailIsLast
PROPERTIES
    ImplementsFifo
    InsertReturns
\* A queue created past the end of the array ends the run.
CHECK_DEADLOCK FALSE
