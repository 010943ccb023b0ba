SPECIFICATION Spec
CONSTANTS
    NPROC = 3
    Keys = {0, 1, 3}
    MaxKey = 3
PROPERTY InsertedIsQueued
CHECK_DEADLOCK FALSE
