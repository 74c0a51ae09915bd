\* Every list of at most two files out of fifteen.
SPECIFICATION Spec
CONSTANTS
    FileLists <- MCFileLists
    Tables <- MCTables
    NoName = noName
    NoSchema = noSchema
    NoType = noType
    ChunkSize = 2
    RowIds = 4
    NoDV = noDV
    NoFilter = noFilter
    Null = null
    FromFile = fromFile
    Cast <- MCCast
    CastFails = castFails
INVARIANTS
    TypeOK
    LiveRowsOnce
    VectorsHold
    
    EmptyBindsAlike
    ReadsLogicalTable
CHECK_DEADLOCK FALSE
