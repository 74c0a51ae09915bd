\* Lists of up to five items in chunks of two, three executions of one bind.
SPECIFICATION FairSpec
CONSTANTS
    MaxItems = 5
    VectorSize = 2
    MaxExecutions = 3
INVARIANTS
    TypeOK
    FirstExecutionIsWhole
    BadItemNeverPassed
PROPERTIES
    ScanEnds
CHECK_DEADLOCK FALSE
