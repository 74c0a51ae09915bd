\* Both queries over every graph of three pages. Without a limit only the repeat
\* check ends a cyclic answer; the limit of two cuts the longer answers.
SPECIFICATION TQFairSpec
CONSTANTS
    Pages = {p1, p2, p3}
    Start = p1
    End = none
    Limits = {0, 2}
    HeaderWindow = 2
    Bodies <- MCBodies
    NoMetadata = noMetadata
INVARIANTS
    TQTypeOK
    FirstMetadataWins
    SnapshotIsWholeAnswer
    ChangesAreWholeAnswer
    MissingHeaderIsMissing
PROPERTIES
    PagesLikePagedFetch
    Terminates
