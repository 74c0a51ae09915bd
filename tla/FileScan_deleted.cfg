\* The documented effect of a deletion vector.
SPECIFICATION Spec
CONSTANTS
    FileLists <- MCFileLists
    Tables <- MCTables
    NoName = noName
    NoSchema = noSchema
    NoType = noType
    ChunkSize = 2
    RowIds = 4
    NoDV = noDV
    NoFilter = noFilter
    Null = null
    FromFile = fromFile
    Cast <- MCCast
    CastFails = castFails
INVARIANTS
    DeletedRowsNotReturned
CHECK_DEADLOCK FALSE
