-------------------------------- MODULE FileScan --------------------------------
(***************************************************************************)
(* The scan behind delta_share_read and delta_share_change_data_feed:      *)
(* DuckDB's Parquet scan over the files of a query, with the two places    *)
(* where DeltaShareMultiFileReader steps in. InitializeReader, run once    *)
(* when a file is opened, gives columns constant values and attaches a     *)
(* deletion filter; the filter drops rows from every chunk.                *)
(*                                                                         *)
(* DuckDB's threads open files and read chunks of open files in any order, *)
(* and the query may stop early (LIMIT). The Parquet reader, the base      *)
(* MultiFileReader and CRoaring are external. The scan reads every column  *)
(* that ScanBind bound; a column is known by its physical name.            *)
(*                                                                         *)
(* A file is a record:                                                     *)
(*   rows       how many rows the Parquet file has                         *)
(*   stored     the columns in the Parquet file                            *)
(*   partition  "object", or "other" when partitionValues is no object     *)
(*   values     the columns in partitionValues, with their values, Null    *)
(*              for a null                                                 *)
(*   action     cdf_action_type: "", "add", "cdf" or "remove"              *)
(*   version    the commit, -1 if none                                     *)
(*   timestamp  when it was made, 0 if not known                           *)
(*   dv         NoDV, or [storage, fetched, words, deleted]: the storage   *)
(*              type, whether its bytes could be had (Z85 decoding, or the *)
(*              request), the bytes in words of four, and the rows the     *)
(*              bitmap inside marks                                        *)
(***************************************************************************)
EXTENDS ScanBind

CONSTANTS
    ChunkSize,      \* the most rows of one chunk
    RowIds,         \* the row numbers a bitmap tells apart: 2^32, those below it
    NoDV,           \* a file without deletion vector
    NoFilter,       \* a reader without deletion filter
    Null,           \* SQL NULL
    FromFile,       \* not a constant: what the Parquet file has in the column
    Cast(_, _),     \* a partition value cast to a type, external
    CastFails       \* there is no such value: the cast throws

ASSUME FileScanAssumption ==
    /\ ChunkSize \in Nat \ {0}
    /\ RowIds \in Nat \ {0}
    /\ \A list \in FileLists : \A f \in DOMAIN list :
          /\ list[f].rows \in Nat
          /\ list[f].dv # NoDV => list[f].dv.deleted \subseteq 0..RowIds - 1

VARIABLES
    opened,         \* the files with an initialized reader
    constants,      \* constant_map of each file's reader
    filter,         \* deletion_filter of each file's reader: the marked rows
    scanned,        \* the chunks read of each file, by first row
    returned        \* how often each row of each file was returned

scanVars == <<opened, constants, filter, scanned, returned>>
vars     == <<bindVars, scanVars>>

FileIds == DOMAIN files
Columns == {c.physical : c \in ToSet(columns)}
Rows(f) == 0..files[f].rows - 1

Chunks(f) == {r \in Rows(f) : r % ChunkSize = 0}

-------------------------------------------------------------------------------
\* FinalizeBind: a column is missing if the file lacks it under its mapped name

MappedName(c) ==
    LET column_mapping == ParseColumnMapping(table)
    IN IF c \in DOMAIN column_mapping THEN column_mapping[c] ELSE c

MissingColumns(file) == {c \in Columns : MappedName(c) \notin file.stored}

-------------------------------------------------------------------------------
\* The constants InitializeReader injects

\* The type of a bound column: that of its field, or else VARCHAR for a partition
\* column, and its own for a change column.
ColumnType(c) ==
    LET fields == IF table.fields = NoSchema THEN {}
                  ELSE {field \in ToSet(table.fields) :
                          field.type # NoType /\ PhysicalName(field) = c}
    IN IF fields # {} THEN (CHOOSE field \in fields : TRUE).type
       ELSE IF c \in ToSet(table.partitions) THEN "VARCHAR"
       ELSE CASE c = ChangeType      -> "VARCHAR"
              [] c = CommitVersion   -> "BIGINT"
              [] OTHER               -> "TIMESTAMP"

\* A partition value becomes one of its column's type; a null is never cast.
PartitionValue(file, c) ==
    IF file.values[c] = Null THEN Null ELSE Cast(file.values[c], ColumnType(c))

HasInjected(file, c) ==
    \/ c \in DOMAIN file.values
    \/ c = ChangeType /\ file.action # ""
    \/ c = CommitVersion /\ file.version >= 0
    \/ c = CommitTimestamp /\ file.timestamp > 0

Injected(file, c) ==
    IF c \in DOMAIN file.values THEN PartitionValue(file, c)
    ELSE CASE c = ChangeType      -> file.action
           [] c = CommitVersion   -> file.version
           [] OTHER               -> file.timestamp

\* Faulty: every partition value is injected, bound column or not.
InjectedUnbound(file) ==
    IF file.partition # "object" THEN {}
    ELSE {c \in Columns : HasInjected(file, c)} \cup DOMAIN file.values

InjectedColumns(file) ==
    {c \in Columns : file.partition = "object" /\ HasInjected(file, c)}

\* Faulty: a NULL that is there already is not overwritten.
ConstantMapKeepsNull(file) ==
    [c \in MissingColumns(file) \cup InjectedColumns(file) |->
        IF c \in MissingColumns(file) THEN Null ELSE Injected(file, c)]

ConstantMap(file) ==
    [c \in MissingColumns(file) \cup InjectedColumns(file) |->
        IF c \in InjectedColumns(file) THEN Injected(file, c) ELSE Null]

\* Every partition value of a bound column can be cast to its type.
CanInject(file) ==
    \A c \in InjectedColumns(file) \cap DOMAIN file.values : PartitionValue(file, c) # CastFails

\* CreateMapping reads every other column from the file, by its own name.
CanMap(file) == Columns \ DOMAIN ConstantMap(file) \subseteq file.stored

-------------------------------------------------------------------------------
\* The deletion filter

Supported(dv) == dv.storage \in {"u", "i", "p"}

\* Where the code takes the bitmap to begin. Inline, behind a four-byte magic
\* number; in a file, at the first 3A 30, or else at its first byte.
BitmapAt(dv) ==
    LET cookies == {i \in DOMAIN dv.words : dv.words[i] \in {"norun", "stray"}}
    IN IF dv.storage # "p" THEN IF Len(dv.words) > 1 THEN 2 ELSE 1
       ELSE IF cookies = {} THEN 1
       ELSE CHOOSE i \in cookies : \A j \in cookies : i <= j

\* CRoaring reads a bitmap from one of its two cookies, 3A 30 00 00 ("norun") and
\* 3B 30 with a count ("run"), and returns a null pointer for anything else, a
\* stray 3A 30 included.
Deserialize(dv, at) ==
    IF at \in DOMAIN dv.words /\ dv.words[at] \in {"norun", "run"}
    THEN dv.deleted ELSE NoFilter

\* A null pointer attaches no filter, without an error.
DeletionFilter(file) ==
    IF file.dv = NoDV THEN NoFilter ELSE Deserialize(file.dv, BitmapAt(file.dv))

CanFilter(file) == file.dv # NoDV => Supported(file.dv) /\ file.dv.fetched

\* DeltaShareDeleteFilter::Filter: the rows of the chunk that are kept. The row
\* number is truncated to the bitmap's width.
ChunkRows(f, start) == {r \in Rows(f) : start <= r /\ r < start + ChunkSize}

\* Faulty: the position in the chunk is taken for the row number.
KeptByPosition(f, start) ==
    IF filter[f] = NoFilter THEN ChunkRows(f, start)
    ELSE {r \in ChunkRows(f, start) : (r - start) % RowIds \notin filter[f]}

Kept(f, start) ==
    IF filter[f] = NoFilter THEN ChunkRows(f, start)
    ELSE {r \in ChunkRows(f, start) : r % RowIds \notin filter[f]}

-------------------------------------------------------------------------------

Init ==
    /\ BindInit
    /\ opened = {}
    /\ constants = [f \in FileIds |-> <<>>]
    /\ filter = [f \in FileIds |-> NoFilter]
    /\ scanned = [f \in FileIds |-> {}]
    /\ returned = [f \in FileIds |-> [r \in Rows(f) |-> 0]]

BindScan == (BindEmpty \/ BindFull \/ BindFails) /\ UNCHANGED scanVars

\* Faulty: a deletion vector that cannot be had is logged and ignored.
InitializeLeniently(f) ==
    /\ status = "scanning"
    /\ f \notin opened
    /\ CanInject(files[f])
    /\ CanMap(files[f])
    /\ opened' = opened \cup {f}
    /\ constants' = [constants EXCEPT ![f] = ConstantMap(files[f])]
    /\ filter' = [filter EXCEPT ![f] = DeletionFilter(files[f])]
    /\ UNCHANGED <<bindVars, scanned, returned>>

InitializeReader(f) ==
    /\ status = "scanning"
    /\ f \notin opened
    /\ CanInject(files[f])
    /\ CanFilter(files[f])
    /\ CanMap(files[f])
    /\ opened' = opened \cup {f}
    /\ constants' = [constants EXCEPT ![f] = ConstantMap(files[f])]
    /\ filter' = [filter EXCEPT ![f] = DeletionFilter(files[f])]
    /\ UNCHANGED <<bindVars, scanned, returned>>

\* An exception of InitializeReader ends the query: of the cast of a partition value,
\* of the deletion vector, or of CreateMapping.
InitializeFails(f) ==
    /\ status = "scanning"
    /\ f \notin opened
    /\ ~CanInject(files[f]) \/ ~CanFilter(files[f]) \/ ~CanMap(files[f])
    /\ status' = "error"
    /\ UNCHANGED <<kind, table, files, columns, scanVars>>

ScanChunk(f) ==
    /\ status = "scanning"
    /\ f \in opened
    /\ \E start \in Chunks(f) \ scanned[f] :
          /\ scanned' = [scanned EXCEPT ![f] = @ \cup {start}]
          /\ returned' = [returned EXCEPT ![f] =
                 [r \in Rows(f) |-> IF r \in Kept(f, start) THEN @[r] + 1 ELSE @[r]]]
    /\ UNCHANGED <<bindVars, opened, constants, filter>>

\* Every file has been read. (A query without files ends here at once.)
Finish ==
    /\ status = "scanning"
    /\ opened = FileIds
    /\ \A f \in FileIds : scanned[f] = Chunks(f)
    /\ status' = "ok"
    /\ UNCHANGED <<kind, table, files, columns, scanVars>>

\* DuckDB needs no more rows.
StopEarly ==
    /\ status = "scanning"
    /\ status' = "stopped"
    /\ UNCHANGED <<kind, table, files, columns, scanVars>>

Next ==
    \/ BindScan
    \/ \E f \in FileIds : InitializeReader(f)
    \/ \E f \in FileIds : InitializeFails(f)
    \/ \E f \in FileIds : ScanChunk(f)
    \/ Finish
    \/ StopEarly

Spec == Init /\ [][Next]_vars

-------------------------------------------------------------------------------
\* Properties

TypeOK ==
    /\ files \in FileLists
    /\ \A c \in ToSet(columns) : DOMAIN c = {"name", "physical"}
    /\ opened \subseteq FileIds
    /\ \A f \in FileIds :
          /\ DOMAIN constants[f] \subseteq Columns
          /\ scanned[f] \subseteq Chunks(f)
          /\ returned[f] \in [Rows(f) -> Nat]
    /\ status \in {"unbound", "unbindable", "scanning", "ok", "stopped", "error"}

Deleted(f) == IF files[f].dv = NoDV THEN {} ELSE files[f].dv.deleted

\* What a reader sees of column c in the rows of file f.
ValueOf(f, c) == IF c \in DOMAIN constants[f] THEN constants[f][c] ELSE FromFile

\* Row numbers the bitmap can tell apart.
InWidth(r) == r < RowIds

\* A finished query has returned every row that is not deleted, once, whatever the
\* order of files and chunks: no filter drops a live row, of its own chunk or of
\* another, and none is attached to another file.
LiveRowsOnce ==
    status = "ok" =>
        \A f \in FileIds : \A r \in Rows(f) \ Deleted(f) :
            InWidth(r) => returned[f][r] = 1

\* No row is returned twice, and a row that an attached filter marks not once, at
\* any time of the scan: the filter holds from the first chunk of its file on. A file
\* whose deletion vector cannot be had (a storage type the reader does not know, an
\* undecodable or unreachable one) gives no row at all, and the query that needs it
\* does not end without an error.
VectorsHold ==
    \A f \in FileIds :
        /\ \A r \in Rows(f) :
              /\ returned[f][r] <= 1
              /\ filter[f] # NoFilter /\ r \in Deleted(f) => returned[f][r] = 0
        /\ ~CanFilter(files[f]) =>
              status # "ok" /\ \A r \in Rows(f) : returned[f][r] = 0

\* The rows of a change data feed carry the kind of change and the commit of their own
\* file, in files of added rows, removed rows and changes alike, and the rows of a
\* partition its own value as one of the column's type, even when the Parquet file
\* stores a column of that name, however files are interleaved; a file with a partition
\* value that is none of its column's type gives no row.
ConstantsOfOwnFile ==
    \A f \in opened : \A c \in Columns :
        files[f].partition = "object" =>
            /\ c \in DOMAIN files[f].values =>
                  ValueOf(f, c) = PartitionValue(files[f], c) /\ ValueOf(f, c) # CastFails
            /\ c = ChangeType /\ files[f].action # "" /\ c \notin DOMAIN files[f].values
                  => ValueOf(f, c) = files[f].action
            /\ c = CommitVersion /\ files[f].version >= 0 /\ c \notin DOMAIN files[f].values
                  => ValueOf(f, c) = files[f].version
            /\ c = CommitTimestamp /\ files[f].timestamp > 0 /\ c \notin DOMAIN files[f].values
                  => ValueOf(f, c) = files[f].timestamp

\* The mapping can be applied twice, and every field it maps has a type.
MapsOnce ==
    LET mapping == ParseColumnMapping(table) IN
    /\ \A n \in DOMAIN mapping :
          mapping[n] \in DOMAIN mapping => mapping[mapping[n]] = mapping[n]
    /\ DOMAIN mapping \subseteq Names(ParseSparkSchema(table))

\* A table whose physical names are not the logical names of other columns is read
\* under its logical schema: every bound column that is no constant of the file comes
\* from the column the schema maps it to, and is NULL in a file that lacks it; and no
\* file is refused but for its deletion vector or a partition value that cannot be cast.
ReadsLogicalTable ==
    LET mapping == ParseColumnMapping(table) IN
    MapsOnce =>
        /\ status = "error" => \E f \in FileIds : ~CanFilter(files[f]) \/ ~CanInject(files[f])
        /\ \A f \in opened : \A c \in ToSet(columns) :
             LET stored == IF c.name \in DOMAIN mapping THEN mapping[c.name] ELSE c.name IN
             c.physical \notin InjectedColumns(files[f]) =>
                ValueOf(f, stored) = IF stored \in files[f].stored THEN FromFile ELSE Null

\* "Deletion Vectors: handling row-level deletes": a deleted row is not returned.
DeletedRowsNotReturned ==
    \A f \in FileIds : \A r \in Rows(f) \cap Deleted(f) : returned[f][r] = 0

\* The default mapping captures missing columns as constants: a column that the
\* file stores, and that the extension does not set, is not constant.
OnlyMissingAreNull ==
    \A f \in opened : \A c \in Columns :
        c \in files[f].stored /\ c \notin InjectedColumns(files[f])
            => ValueOf(f, c) = FromFile

===============================================================================
