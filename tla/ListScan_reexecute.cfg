\* The documented result of a listing, for the second execution of one bind.
SPECIFICATION Spec
CONSTANTS
    MaxItems = 3
    VectorSize = 2
    MaxExecutions = 2
INVARIANTS
    EveryExecutionIsWhole
CHECK_DEADLOCK FALSE
