SPECIFICATION Spec
CONSTANTS
    NPROC = 3
    Keys = {0, 1, 3}
    MaxKey = 3
PROPERTY TerminationGuaranteed
CHECK_DEADLOCK FALSE
