SPECIFICATION TCSpec
CONSTANTS
    Databases = {d1, d2}
    NoFunction = NoFunction
    Columns <- MCColumns
    NumericColumns = {"n"}
    Values <- MCValues
    TextRank <- MCTextRank
    Nesting = 3
    Urls <- MCUrls
    Answers <- MCAnswers
    Garbage = "garbage"
    Capacity = 2
    ChunkSize = 2
    Latest = 2
    Arguments <- MCArguments
    Predicates <- MCPredicates
    LaterPredicates <- MCLaterPredicates
    TableFiles <- MCTableFiles
    Rows <- MCRows
SYMMETRY DatabaseSymmetry
INVARIANTS
    TCTypeOK
    AnswerAsAsked
    RowsOwnFiles
    HintsKeepMatches
    BindsFindFunction
    LoadCanBeRetried
