\* The race of two threads, and what it does to a valid text.
SPECIFICATION Spec
CONSTANTS
    Threads = {t1, t2}
    Inputs <- MCInputs
    Chars <- MCChars
    MaxDecodes = 1
INVARIANTS
    RefusalIsDeserved
CHECK_DEADLOCK FALSE
