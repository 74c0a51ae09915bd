\* Two threads fill the table at once.
SPECIFICATION Spec
CONSTANTS
    Threads = {t1, t2}
    Inputs <- MCInputs
    Chars <- MCChars
    MaxDecodes = 1
INVARIANTS
    TypeOK
    OkMeansDecoded
    TableSettles
CHECK_DEADLOCK FALSE
