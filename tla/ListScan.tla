------------------------------- MODULE ListScan -------------------------------
(***************************************************************************)
(* delta_share_list and delta_share_list_all_tables: the bind fetches      *)
(* every item, the scan hands them to DuckDB in chunks.                    *)
(*                                                                         *)
(* The scan's position, current_idx, is a field of the bind data. DuckDB   *)
(* binds a statement once and may execute its plan several times (EXECUTE  *)
(* of a prepared statement, the iterations of a recursive query), may stop *)
(* an execution early (LIMIT), and runs one execution of a plan at a time; *)
(* the function declares no parallelism, so one thread scans.              *)
(*                                                                         *)
(* An item is its position in the list, which is also a column's           *)
(* ordinal_position. An item without a field the function reads makes the  *)
(* call throw, and DuckDB drops the chunk; columns have all their fields.  *)
(***************************************************************************)
EXTENDS Integers, Sequences

CONSTANTS
    MaxItems,       \* the longest list the server returns here
    VectorSize,     \* STANDARD_VECTOR_SIZE
    MaxExecutions   \* how often DuckDB executes the plan here

ASSUME ListScanAssumption ==
    /\ MaxItems \in Nat
    /\ VectorSize \in Nat \ {0}
    /\ MaxExecutions \in Nat

VARIABLES
    items,          \* the number of items of the bind data
    bad,            \* the items with a missing field
    current_idx,    \* the scan position, counted from 0, kept by the bind
    phase,          \* "unbound", "idle", "scanning", "bind_error"
    runs            \* the executions so far: rows received and how it ended

vars == <<items, bad, current_idx, phase, runs>>

Ends == {"running", "finished", "stopped", "error"}

TypeOK ==
    /\ items \in 0..MaxItems
    /\ bad \subseteq 1..items
    /\ current_idx \in 0..items
    /\ phase \in {"unbound", "idle", "scanning", "bind_error"}
    /\ runs \in Seq([rows : Seq(1..items), end : Ends])

Init ==
    /\ items = 0
    /\ bad = {}
    /\ current_idx = 0
    /\ phase = "unbound"
    /\ runs = <<>>

-------------------------------------------------------------------------------

\* ListBind for shares, schemas and tables, and AllTablesBind: the whole list, or an
\* error of the client.
Bind ==
    /\ phase = "unbound"
    /\ \E n \in 0..MaxItems :
          /\ items' = n
          /\ bad' \in SUBSET (1..n)
    /\ phase' = "idle"
    /\ UNCHANGED <<current_idx, runs>>

BindFails ==
    /\ phase = "unbound"
    /\ phase' = "bind_error"
    /\ UNCHANGED <<items, bad, current_idx, runs>>

\* What QueryTableMetadata may get: its lines (the protocol, the metadata), the access
\* modes the metadata names, and the fields of its schema that have a name and a type,
\* none when the schema cannot be parsed.
MetadataAnswers ==
    [lines : 0..3, accessModes : {"absent", "url", "dir"}, fields : 0..MaxItems]

HasMetadata(answer) == answer.lines >= 2 /\ answer.accessModes \in {"absent", "url"}

\* ListBind for the columns of a table: it takes no columns for a failure.
BindColumns ==
    /\ phase = "unbound"
    /\ \E answer \in MetadataAnswers :
          IF HasMetadata(answer) /\ answer.fields > 0
          THEN items' = answer.fields /\ phase' = "idle"
          ELSE items' = 0 /\ phase' = "bind_error"
    /\ bad' = {}
    /\ UNCHANGED <<current_idx, runs>>

\* DuckDB executes the bound plan. Nothing of the extension runs: the function
\* has no init callback that could set the position.
Execute ==
    /\ phase = "idle"
    /\ Len(runs) < MaxExecutions
    /\ runs' = Append(runs, [rows |-> <<>>, end |-> "running"])
    /\ phase' = "scanning"
    /\ UNCHANGED <<items, bad, current_idx>>

-------------------------------------------------------------------------------
\* ListFunction: one call fills one chunk

\* Faulty: the end of the list is not looked at.
ChunkEndUnbounded == current_idx + VectorSize

\* The items a call passes over, from current_idx on.
ChunkEnd == IF current_idx + VectorSize < items
            THEN current_idx + VectorSize ELSE items

Chunk == [i \in 1..ChunkEnd - current_idx |-> current_idx + i]

BadInChunk == {i \in bad : i \in current_idx + 1..ChunkEnd}

EmitChunk ==
    /\ phase = "scanning"
    /\ BadInChunk = {}
    /\ Chunk # <<>>
    /\ current_idx' = ChunkEnd
    /\ runs' = [runs EXCEPT ![Len(runs)].rows = @ \o Chunk]
    /\ UNCHANGED <<items, bad, phase>>

\* Faulty: a chunk that is not full is taken for the last, or no chunk is.
EmitShortChunk ==
    /\ phase = "scanning"
    /\ Len(Chunk) < VectorSize
    /\ phase' = "idle"
    /\ runs' = [runs EXCEPT ![Len(runs)].end = "finished"]
    /\ UNCHANGED <<items, bad, current_idx>>

EmitNoEnd ==
    /\ phase = "scanning"
    /\ Chunk = <<>>
    /\ UNCHANGED vars

\* An empty chunk tells DuckDB that the scan is over.
EmitEmptyChunk ==
    /\ phase = "scanning"
    /\ Chunk = <<>>
    /\ phase' = "idle"
    /\ runs' = [runs EXCEPT ![Len(runs)].end = "finished"]
    /\ UNCHANGED <<items, bad, current_idx>>

\* Faulty: the position is moved past the item before its fields are read.
MissingFieldPassed ==
    /\ phase = "scanning"
    /\ \E i \in BadInChunk :
          /\ \A j \in BadInChunk : i <= j
          /\ current_idx' = i
    /\ phase' = "idle"
    /\ runs' = [runs EXCEPT ![Len(runs)].end = "error"]
    /\ UNCHANGED <<items, bad>>

\* get<string> throws; the rows before it in this chunk are lost, and counted.
MissingField ==
    /\ phase = "scanning"
    /\ \E i \in BadInChunk :
          /\ \A j \in BadInChunk : i <= j
          /\ current_idx' = i - 1
    /\ phase' = "idle"
    /\ runs' = [runs EXCEPT ![Len(runs)].end = "error"]
    /\ UNCHANGED <<items, bad>>

\* DuckDB needs no more rows.
StopEarly ==
    /\ phase = "scanning"
    /\ phase' = "idle"
    /\ runs' = [runs EXCEPT ![Len(runs)].end = "stopped"]
    /\ UNCHANGED <<items, bad, current_idx>>

Next ==
    \/ Bind
    \/ BindColumns
    \/ BindFails
    \/ Execute
    \/ EmitChunk
    \/ EmitEmptyChunk
    \/ MissingField
    \/ StopEarly

Spec == Init /\ [][Next]_vars

\* DuckDB pulls chunks until the scan ends; that it executes again is its choice.
FairSpec == Spec /\ WF_vars(EmitChunk \/ EmitEmptyChunk \/ MissingField)

-------------------------------------------------------------------------------
\* Properties

AllItems == [i \in 1..items |-> i]

\* The first execution of a bound listing that DuckDB lets finish returns every
\* item, once and in the server's order, over as many chunks as it takes.
FirstExecutionIsWhole ==
    runs # <<>> /\ runs[1].end = "finished" => runs[1].rows = AllItems

\* A listing with an unreadable item never finishes without an error, in
\* whatever execution, so no item disappears unnoticed behind it: what is not
\* read is read again and fails again.
BadItemNeverPassed ==
    \A i \in bad :
        /\ current_idx < i
        /\ \A k \in DOMAIN runs : runs[k].end # "finished"

\* Every execution comes to an end.
ScanEnds == phase = "scanning" ~> phase = "idle"

\* "List all shares": every execution that finishes returns every item.
EveryExecutionIsWhole ==
    \A k \in DOMAIN runs : runs[k].end = "finished" => runs[k].rows = AllItems

===============================================================================
