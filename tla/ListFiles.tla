------------------------------- MODULE ListFiles -------------------------------
(***************************************************************************)
(* delta_share_list_files over one chunk of rows: every row asks a server  *)
(* for the files of its table, and the urls of all rows are appended to    *)
(* one child vector, of which a row's list entry names a slice.            *)
(*                                                                         *)
(* Reserving room in the child vector may move it to another buffer, and a *)
(* pointer to the old one is then of no use: what is written through it is *)
(* not in the result. Room that nobody wrote holds garbage. An answer that *)
(* fails throws, and nothing of the chunk is returned.                     *)
(*                                                                         *)
(* The positions of a vector count from 0 in the code and in an entry's    *)
(* offset, those of a TLA+ sequence from 1.                                *)
(***************************************************************************)
EXTENDS Naturals, Sequences

CONSTANTS
    Urls,           \* the urls of files
    Answers,        \* the lists of urls a server may return for a row
    Garbage,        \* what unwritten room holds
    Capacity,       \* the child vector's room when a chunk begins
    ChunkSize       \* the most rows of a chunk

ASSUME ListFilesAssumption ==
    /\ Answers \subseteq Seq(Urls)
    /\ Garbage \notin Urls
    /\ Capacity \in Nat
    /\ ChunkSize \in Nat

VARIABLES
    state,          \* "idle", "rows", "returned" or "failed"
    count,          \* the rows of the chunk
    list_data,      \* the entries of the rows done
    total_size,
    child,          \* the child vector's buffer, as long as its capacity
    list_size,      \* how much of the child vector the result has
    query_results   \* history: the answer each row got

listVars == <<state, count, list_data, total_size, child, list_size, query_results>>

\* DuckDB (external): the buffer behind a vector after Reserve; the old one's content
\* is copied.
Reserved(buffer, n) ==
    IF n <= Len(buffer) THEN buffer
    ELSE [i \in 1..n |-> IF i <= Len(buffer) THEN buffer[i] ELSE Garbage]

\* Faulty: the pointer to the child's data is taken before room is reserved.
WrittenBeforeReserve(buffer, from, files) ==
    IF Len(buffer) < from + Len(files) THEN Reserved(buffer, from + Len(files))
    ELSE [i \in 1..Len(buffer) |->
             IF i > from /\ i <= from + Len(files) THEN files[i - from] ELSE buffer[i]]

\* The pointer is taken after room was reserved, so that every url is written to the
\* buffer the result has.
Written(buffer, from, files) ==
    LET room == Reserved(buffer, from + Len(files))
    IN  [i \in 1..Len(room) |->
            IF i > from /\ i <= from + Len(files) THEN files[i - from] ELSE room[i]]

ListInit ==
    /\ state = "idle"
    /\ count = 0
    /\ list_data = <<>>
    /\ total_size = 0
    /\ child = [i \in 1..Capacity |-> Garbage]
    /\ list_size = 0
    /\ query_results = <<>>

BeginChunk(rows) ==
    /\ state = "idle"
    /\ state' = "rows"
    /\ count' = rows
    /\ UNCHANGED <<list_data, total_size, child, list_size, query_results>>

AnswerRow(files) ==
    /\ state = "rows"
    /\ Len(list_data) < count
    /\ list_data' = Append(list_data, [offset |-> total_size, length |-> Len(files)])
    /\ child' = Written(child, total_size, files)
    /\ total_size' = total_size + Len(files)
    /\ query_results' = Append(query_results, files)
    /\ UNCHANGED <<state, count, list_size>>

\* The predicate cannot be parsed, no secret can be had, or the query fails.
FailRow ==
    /\ state = "rows"
    /\ Len(list_data) < count
    /\ state' = "failed"
    /\ UNCHANGED <<count, list_data, total_size, child, list_size, query_results>>

ReturnChunk ==
    /\ state = "rows"
    /\ Len(list_data) = count
    /\ state' = "returned"
    /\ list_size' = total_size
    /\ UNCHANGED <<count, list_data, total_size, child, query_results>>

\* The executor is done with the chunk, or the statement has failed; the next chunk
\* gets a vector that has been reset.
ReleaseChunk ==
    /\ state \in {"returned", "failed"}
    /\ state' = "idle"
    /\ count' = 0
    /\ list_data' = <<>>
    /\ total_size' = 0
    /\ child' = [i \in 1..Capacity |-> Garbage]
    /\ list_size' = 0
    /\ query_results' = <<>>

ListNext ==
    \/ \E rows \in 0..ChunkSize : BeginChunk(rows)
    \/ \E files \in Answers : AnswerRow(files)
    \/ FailRow
    \/ ReturnChunk
    \/ ReleaseChunk

ListSpec == ListInit /\ [][ListNext]_listVars

-------------------------------------------------------------------------------
\* Properties

Entries == [offset : Nat, length : Nat]

ListTypeOK ==
    /\ state \in {"idle", "rows", "returned", "failed"}
    /\ count \in 0..ChunkSize
    /\ list_data \in Seq(Entries)
    /\ total_size \in Nat
    /\ child \in Seq(Urls \cup {Garbage})
    /\ list_size \in Nat
    /\ query_results \in Seq(Seq(Urls))

\* A chunk that was returned has one list for every row, and a row's list is the
\* answer its own query got, url for url, wherever the child vector was moved to while
\* later rows were appended. No list reaches behind the size of the child vector.
RowsOwnFiles ==
    state = "returned" =>
        /\ Len(list_data) = count
        /\ \A row \in 1..count :
              /\ list_data[row].length = Len(query_results[row])
              /\ list_data[row].offset + list_data[row].length <= list_size
              /\ \A i \in 1..Len(query_results[row]) :
                    child[list_data[row].offset + i] = query_results[row][i]

===============================================================================
