\* One thread, and the encoding the class is named for.
SPECIFICATION Spec
CONSTANTS
    Threads = {t1}
    Inputs <- MCInputs
    Chars <- MCChars
    MaxDecodes = 1
INVARIANTS
    DecodesZ85
CHECK_DEADLOCK FALSE
