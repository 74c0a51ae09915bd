-------------------------------- MODULE ScanBind --------------------------------
(***************************************************************************)
(* The binds of delta_share_read and delta_share_change_data_feed: from    *)
(* the metadata and the files of a query to the columns of the scan.       *)
(*                                                                         *)
(* Each bind has two paths. Without files it builds the bind data itself;  *)
(* with files it lets read_parquet bind them and overwrites the schema     *)
(* that gave. Both paths of both binds repeat the same steps: the fields   *)
(* of the schema string under their logical names, then the partition      *)
(* columns and the change columns the schema lacks.                        *)
(*                                                                         *)
(* A table is a record:                                                    *)
(*   fields      the fields of the schema string, in order, each with its  *)
(*               logical name, its physical name (NoName if its metadata   *)
(*               has none), and its type (NoType if it has none); NoSchema *)
(*               for a string that is no schema                            *)
(*   partitions  the partition columns, by logical name                    *)
(* Types do not tell which column is which: FileScan's ColumnType says     *)
(* what a bound column's is.                                               *)
(***************************************************************************)
EXTENDS Integers, Sequences, FiniteSets, SequencesExt

CONSTANTS
    Tables,         \* the tables of the share
    FileLists,      \* the file lists of a query: sequences of files
    NoName,         \* no physical name
    NoType,         \* no type
    NoSchema        \* a schema string that cannot be parsed

ChangeType      == "_change_type"
CommitVersion   == "_commit_version"
CommitTimestamp == "_commit_timestamp"

\* Delta gives no two fields of a table one name.
ASSUME ScanBindAssumption ==
    \A t \in Tables :
        /\ t.partitions \in Seq(ToSet(t.partitions))
        /\ t.fields # NoSchema =>
              /\ t.fields \in Seq(ToSet(t.fields))
              /\ \A i, j \in DOMAIN t.fields :
                    t.fields[i].name = t.fields[j].name => i = j

VARIABLES
    kind,           \* the function called: "read", or "changes" for the feed
    table,          \* its table's metadata, fixed
    files,          \* the file list of the query, fixed
    columns,        \* multi_file_bind.columns and names: the bound columns
    status          \* "unbound", "unbindable", "scanning", "ok", "stopped", "error"

bindVars == <<kind, table, files, columns, status>>

-------------------------------------------------------------------------------
\* ParseSparkSchema and ParseColumnMapping

Column(name, physical) == [name |-> name, physical |-> physical]

PhysicalName(field) == IF field.physical = NoName THEN field.name ELSE field.physical

\* A field without a type is skipped.
Parsed(field, physical) == IF field.type # NoType THEN <<Column(field.name, physical)>> ELSE <<>>

\* Faulty: the physical names are left to the reader.
ParseSparkSchemaLogical(t) ==
    IF t.fields = NoSchema THEN <<>>
    ELSE FlattenSeq([i \in DOMAIN t.fields |-> Parsed(t.fields[i], t.fields[i].name)])

\* A string that is no schema has no field.
ParseSparkSchema(t) ==
    IF t.fields = NoSchema THEN <<>>
    ELSE FlattenSeq([i \in DOMAIN t.fields |-> Parsed(t.fields[i], PhysicalName(t.fields[i]))])

\* From logical to physical names, of every field whose metadata has one.
ParseColumnMapping(t) ==
    LET mapped == IF t.fields = NoSchema THEN {}
                  ELSE {field \in ToSet(t.fields) : field.physical # NoName}
    IN [n \in {field.name : field \in mapped} |->
           (CHOOSE field \in mapped : field.name = n).physical]

-------------------------------------------------------------------------------
\* The columns of a bind

Names(cols) == {c.name : c \in ToSet(cols)}

\* A column is appended unless its name is among the logical names so far.
AddMissing(cols, name) ==
    IF name \in Names(cols) THEN cols ELSE Append(cols, Column(name, name))

AppendMissing(cols, names) ==
    LET grown[i \in 0..Len(names)] ==
            IF i = 0 THEN cols ELSE AddMissing(grown[i - 1], names[i])
    IN  grown[Len(names)]

ChangeColumns(k) ==
    IF k = "changes" THEN <<ChangeType, CommitVersion, CommitTimestamp>> ELSE <<>>

\* Without files, the partition columns come in the order of the metadata.
EmptyColumns(t, k) ==
    AppendMissing(ParseSparkSchema(t), t.partitions \o ChangeColumns(k))

\* Faulty: the change columns are added on the other path only.
FullColumnsUnchanged(t, k) ==
    {AppendMissing(ParseSparkSchema(t), order) : order \in SetToSeqs(ToSet(t.partitions))}

\* With files, they come in the order of a hash set: in any.
FullColumns(t, k) ==
    {AppendMissing(ParseSparkSchema(t), order \o ChangeColumns(k)) :
        order \in SetToSeqs(ToSet(t.partitions))}

-------------------------------------------------------------------------------

\* The query has been answered. A snapshot's files are no changes.
BindInit ==
    /\ kind \in {"read", "changes"}
    /\ table \in Tables
    /\ files \in FileLists
    /\ kind = "read" => \A f \in DOMAIN files : files[f].action = ""
    /\ columns = <<>>
    /\ status = "unbound"

\* DuckDB refuses a table function without columns.
Bound(cols) ==
    /\ columns' = cols
    /\ status' = IF cols = <<>> THEN "unbindable" ELSE "scanning"
    /\ UNCHANGED <<kind, table, files>>

BindEmpty ==
    /\ status = "unbound"
    /\ files = <<>>
    /\ Bound(EmptyColumns(table, kind))

BindFull ==
    /\ status = "unbound"
    /\ files # <<>>
    /\ \E cols \in FullColumns(table, kind) : Bound(cols)

\* read_parquet cannot bind the files: one cannot be had, or is no Parquet file.
BindFails ==
    /\ status = "unbound"
    /\ files # <<>>
    /\ status' = "unbindable"
    /\ UNCHANGED <<kind, table, files, columns>>

-------------------------------------------------------------------------------
\* Properties

\* A table has the same columns whether it has files or not, so that a query written
\* for one goes on when the other is there: all fields of the schema first, in their
\* order, then the partition columns and, for the feed alone, the change columns that
\* the schema lacks, no name twice.
EmptyBindsAlike ==
    status \notin {"unbound", "unbindable"} =>
        LET schema   == ParseSparkSchema(table)
            expected == EmptyColumns(table, kind)
        IN /\ ToSet(columns) = ToSet(expected)
           /\ Len(columns) = Len(expected)
           /\ IsPrefix(schema, columns)
           /\ \A i, j \in DOMAIN columns : columns[i].name = columns[j].name => i = j
           /\ Names(columns) = Names(schema) \cup ToSet(table.partitions)
                                             \cup ToSet(ChangeColumns(kind))

===============================================================================
