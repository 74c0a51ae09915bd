\* Every graph of four pages, without limit and with a limit one shorter than the
\* longest answer, after at most one request of an earlier call on the same client.
SPECIFICATION HPSpec
CONSTANTS
    Pages = {p1, p2, p3, p4}
    Start = p1
    End = none
    Limits = {0, 3}
    Elsewhere = elsewhere
    MaxEarlier = 1
INVARIANTS
    TypeOK
    NeverPartial
    RepeatMeansEndless
    CapMeansTooLong
    NoPageTwice
    HPTypeOK
    SentAsMeant
    LiveBuffers
    HandleCleanedOnce
PROPERTIES
    ImplementsWholeFetch
