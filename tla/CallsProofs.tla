------------------------------ MODULE CallsProofs ------------------------------
(***************************************************************************)
(* Proofs about ListFiles for every chunk size, every capacity and every   *)
(* answer, about ExtensionLoad for any number of databases, loaded, closed *)
(* and opened again in any order, and about TableCalls, which runs both.   *)
(*                                                                         *)
(* ListFiles: the rows of a returned chunk have their own files. The       *)
(* invariant says where the rows done so far lie: each row's slice ends    *)
(* within total_size and holds the row's answer, and total_size is within  *)
(* the buffer. A row's writing changes no cell up to total_size.           *)
(*                                                                         *)
(* ExtensionLoad: nothing ever resets the globals, so it is enough to know *)
(* of every load which of them it has assigned by the step it has reached; *)
(* and a load that has registered the secret type is past the only step it *)
(* can fail.                                                               *)
(*                                                                         *)
(* TableCalls: every step is one of a load, one of a chunk, or neither, so *)
(* what is proved of both holds here, too. A request that was asked is the *)
(* one its arguments make, and an answered row has an answer that its hint *)
(* allows. That a hint allows what the predicate selects is proved by      *)
(* induction over the nesting, once of the trees and once of the recursive *)
(* functions on them: each is shown to be the right-hand side of its own   *)
(* definition.                                                             *)
(***************************************************************************)
EXTENDS TableCalls, DataLemmas

RowsDone ==
    /\ total_size <= Len(child)
    /\ Len(query_results) = Len(list_data)
    /\ Len(list_data) <= count

SlicesHold ==
    \A row \in 1..Len(list_data) :
        /\ list_data[row].length = Len(query_results[row])
        /\ list_data[row].offset + list_data[row].length <= total_size
        /\ \A i \in 1..Len(query_results[row]) :
              child[list_data[row].offset + i] = query_results[row][i]

ChunkReturned ==
    state = "returned" => list_size = total_size /\ Len(list_data) = count

NoChunk == state = "idle" => list_data = <<>>

ListIInv == ListTypeOK /\ RowsDone /\ SlicesHold /\ ChunkReturned /\ NoChunk

-------------------------------------------------------------------------------
\* The child vector

\* Reserve keeps what was there and makes room.
LEMMA ReservedKeeps ==
  ASSUME NEW buffer \in Seq(Urls \cup {Garbage}), NEW n \in Nat
  PROVE  /\ Reserved(buffer, n) \in Seq(Urls \cup {Garbage})
         /\ n <= Len(Reserved(buffer, n))
         /\ Len(buffer) <= Len(Reserved(buffer, n))
         /\ \A i \in 1..Len(buffer) : Reserved(buffer, n)[i] = buffer[i]
  <1>1. CASE n <= Len(buffer)
    BY <1>1 DEF Reserved
  <1>2. CASE ~(n <= Len(buffer))
    <2> DEFINE larger == [i \in 1..n |-> IF i <= Len(buffer) THEN buffer[i] ELSE Garbage]
    <2>1. Reserved(buffer, n) = larger
      BY <1>2 DEF Reserved
    <2>2. \A i \in 1..n : larger[i] \in Urls \cup {Garbage}
      OBVIOUS
    <2>3. larger \in Seq(Urls \cup {Garbage}) /\ Len(larger) = n
      BY <2>2
    <2>4. \A i \in 1..Len(buffer) : larger[i] = buffer[i]
      BY <1>2
    <2> QED
      BY <1>2, <2>1, <2>3, <2>4
  <1> QED
    BY <1>1, <1>2

\* Writing a row's files behind from keeps what is before, and the files are there.
LEMMA WrittenKeeps ==
  ASSUME NEW buffer \in Seq(Urls \cup {Garbage}), NEW from \in Nat,
         from <= Len(buffer), NEW files \in Seq(Urls)
  PROVE  /\ Written(buffer, from, files) \in Seq(Urls \cup {Garbage})
         /\ from + Len(files) <= Len(Written(buffer, from, files))
         /\ \A i \in 1..from : Written(buffer, from, files)[i] = buffer[i]
         /\ \A i \in 1..Len(files) : Written(buffer, from, files)[from + i] = files[i]
  <1> DEFINE room == Reserved(buffer, from + Len(files))
             new  == [i \in 1..Len(room) |->
                        IF i > from /\ i <= from + Len(files) THEN files[i - from] ELSE room[i]]
  <1>1. from + Len(files) \in Nat
    OBVIOUS
  <1>2. /\ room \in Seq(Urls \cup {Garbage})
        /\ from + Len(files) <= Len(room)
        /\ Len(buffer) <= Len(room)
        /\ \A i \in 1..Len(buffer) : room[i] = buffer[i]
    BY <1>1, ReservedKeeps
  <1>3. Written(buffer, from, files) = new
    BY DEF Written
  <1> HIDE DEF room
  <1>4. ASSUME NEW i \in 1..Len(room)
        PROVE  new[i] \in Urls \cup {Garbage}
    <2>1. CASE i > from /\ i <= from + Len(files)
      <3>1. i - from \in 1..Len(files)
        BY <1>2, <2>1
      <3>2. files[i - from] \in Urls
        BY <3>1
      <3> QED
        BY <2>1, <3>2
    <2>2. CASE ~(i > from /\ i <= from + Len(files))
      BY <1>2, <2>2
    <2> QED
      BY <2>1, <2>2
  <1>5. Len(room) \in Nat
    BY <1>2
  <1>6. new \in Seq(Urls \cup {Garbage}) /\ Len(new) = Len(room)
    BY <1>4, <1>5
  <1>7. \A i \in 1..from : new[i] = buffer[i]
    BY <1>2, <1>5
  <1>8. \A i \in 1..Len(files) : new[from + i] = files[i]
    BY <1>2, <1>5
  <1> QED
    BY <1>2, <1>3, <1>6, <1>7, <1>8

-------------------------------------------------------------------------------
\* The invariant

LEMMA EmptyBuffer ==
  /\ [i \in 1..Capacity |-> Garbage] \in Seq(Urls \cup {Garbage})
  /\ Len([i \in 1..Capacity |-> Garbage]) = Capacity
  BY ListFilesAssumption

LEMMA ListInitIInv == ListInit => ListIInv
  <1> SUFFICES ASSUME ListInit PROVE ListIInv
    OBVIOUS
  <1>1. ListTypeOK
    BY EmptyBuffer, ListFilesAssumption DEF ListInit, ListTypeOK
  <1>2. RowsDone /\ SlicesHold /\ ChunkReturned /\ NoChunk
    BY EmptyBuffer, ListFilesAssumption
    DEF ListInit, RowsDone, SlicesHold, ChunkReturned, NoChunk
  <1> QED
    BY <1>1, <1>2 DEF ListIInv

LEMMA AnswerRowIInv ==
  ASSUME ListIInv, NEW files \in Answers, AnswerRow(files)
  PROVE  ListIInv'
  <1> USE DEF ListIInv
  <1>1. /\ state = "rows" /\ state' = state /\ count' = count /\ list_size' = list_size
        /\ list_data' = Append(list_data, [offset |-> total_size, length |-> Len(files)])
        /\ child' = Written(child, total_size, files)
        /\ total_size' = total_size + Len(files)
        /\ query_results' = Append(query_results, files)
        /\ Len(list_data) < count
    BY DEF AnswerRow
  <1>2. /\ files \in Seq(Urls) /\ Len(files) \in Nat
        /\ total_size \in Nat /\ child \in Seq(Urls \cup {Garbage})
        /\ list_data \in Seq(Entries) /\ query_results \in Seq(Seq(Urls))
        /\ count \in Nat
        /\ total_size <= Len(child) /\ Len(query_results) = Len(list_data)
    BY ListFilesAssumption DEF ListTypeOK, RowsDone
  <1>3. /\ child' \in Seq(Urls \cup {Garbage})
        /\ total_size + Len(files) <= Len(child')
        /\ \A i \in 1..total_size : child'[i] = child[i]
        /\ \A i \in 1..Len(files) : child'[total_size + i] = files[i]
    BY <1>1, <1>2, WrittenKeeps
  <1>4. ListTypeOK'
    <2>1. [offset |-> total_size, length |-> Len(files)] \in Entries
      BY <1>2 DEF Entries
    <2>2. list_data' \in Seq(Entries) /\ query_results' \in Seq(Seq(Urls))
      BY <1>1, <1>2, <2>1
    <2> QED
      BY <1>1, <1>2, <1>3, <2>2 DEF ListTypeOK
  <1>5. RowsDone'
    BY <1>1, <1>2, <1>3 DEF RowsDone
  <1>6. SlicesHold'
    <2> SUFFICES ASSUME NEW row \in 1..Len(list_data')
                 PROVE  /\ list_data'[row].length = Len(query_results'[row])
                        /\ list_data'[row].offset + list_data'[row].length <= total_size'
                        /\ \A i \in 1..Len(query_results'[row]) :
                              child'[list_data'[row].offset + i] = query_results'[row][i]
      BY DEF SlicesHold
    <2>1. CASE row = Len(list_data) + 1
      <3>1. list_data'[row] = [offset |-> total_size, length |-> Len(files)]
        BY <1>1, <1>2, <2>1
      <3>2. query_results'[row] = files
        BY <1>1, <1>2, <2>1
      <3>3. list_data'[row].offset = total_size /\ list_data'[row].length = Len(files)
        BY <3>1
      <3>4. list_data'[row].offset + list_data'[row].length <= total_size'
        BY <1>1, <1>2, <3>3
      <3>5. ASSUME NEW i \in 1..Len(files)
            PROVE  child'[list_data'[row].offset + i] = files[i]
        BY <1>3, <3>3
      <3> QED
        BY <3>2, <3>3, <3>4, <3>5
    <2>2. CASE row \in 1..Len(list_data)
      <3>1. list_data'[row] = list_data[row] /\ query_results'[row] = query_results[row]
        BY <1>1, <1>2, <2>2
      <3>2. list_data[row] \in Entries /\ query_results[row] \in Seq(Urls)
        BY <1>2, <2>2
      <3>3. /\ list_data[row].offset \in Nat /\ list_data[row].length \in Nat
            /\ list_data[row].length = Len(query_results[row])
            /\ list_data[row].offset + list_data[row].length <= total_size
        BY <2>2, <3>2 DEF SlicesHold, Entries
      <3>4. ASSUME NEW i \in 1..Len(query_results[row])
            PROVE  child'[list_data[row].offset + i] = query_results[row][i]
        <4>1. list_data[row].offset + i \in 1..total_size
          <5>1. Len(query_results[row]) \in Nat /\ i \in Nat /\ i >= 1
                /\ i <= Len(query_results[row])
            BY <3>2
          <5>2. total_size \in Nat
            BY <1>2
          <5> QED
            BY <3>3, <5>1, <5>2
        <4>2. child[list_data[row].offset + i] = query_results[row][i]
          BY <2>2 DEF SlicesHold
        <4>3. \A j \in 1..total_size : child'[j] = child[j]
          BY <1>3
        <4>4. child'[list_data[row].offset + i] = child[list_data[row].offset + i]
          BY <4>1, <4>3
        <4> QED
          BY <4>2, <4>4
      <3>5. list_data[row].offset + list_data[row].length <= total_size'
        BY <1>1, <1>2, <3>3
      <3> QED
        BY <3>1, <3>3, <3>4, <3>5
    <2>3. row = Len(list_data) + 1 \/ row \in 1..Len(list_data)
      BY <1>1, <1>2
    <2> QED
      BY <2>1, <2>2, <2>3
  <1>7. ChunkReturned' /\ NoChunk'
    BY <1>1 DEF ChunkReturned, NoChunk
  <1> QED
    BY <1>4, <1>5, <1>6, <1>7

LEMMA ListStepIInv == ListIInv /\ [ListNext]_listVars => ListIInv'
  <1> SUFFICES ASSUME ListIInv, [ListNext]_listVars PROVE ListIInv'
    OBVIOUS
  <1>1. ASSUME NEW rows \in 0..ChunkSize, BeginChunk(rows)
        PROVE  ListIInv'
    <2>1. list_data = <<>>
      BY <1>1 DEF BeginChunk, ListIInv, NoChunk
    <2>2. ListTypeOK'
      BY <1>1 DEF BeginChunk, ListIInv, ListTypeOK
    <2>3. RowsDone' /\ SlicesHold' /\ ChunkReturned' /\ NoChunk'
      BY <1>1, <2>1, ListFilesAssumption
      DEF BeginChunk, ListIInv, ListTypeOK, RowsDone, SlicesHold, ChunkReturned, NoChunk
    <2> QED
      BY <2>2, <2>3 DEF ListIInv
  <1>2. ASSUME NEW files \in Answers, AnswerRow(files)
        PROVE  ListIInv'
    BY <1>2, AnswerRowIInv
  <1>3. CASE FailRow
    BY <1>3 DEF FailRow, ListIInv, ListTypeOK, RowsDone, SlicesHold, ChunkReturned, NoChunk
  <1>4. CASE ReturnChunk
    BY <1>4 DEF ReturnChunk, ListIInv, ListTypeOK, RowsDone, SlicesHold, ChunkReturned, NoChunk
  <1>5. CASE ReleaseChunk
    <2>1. ListTypeOK'
      BY <1>5, EmptyBuffer, ListFilesAssumption DEF ReleaseChunk, ListTypeOK
    <2>2. RowsDone' /\ SlicesHold' /\ ChunkReturned' /\ NoChunk'
      BY <1>5, EmptyBuffer, ListFilesAssumption
      DEF ReleaseChunk, RowsDone, SlicesHold, ChunkReturned, NoChunk
    <2> QED
      BY <2>1, <2>2 DEF ListIInv
  <1>6. CASE UNCHANGED listVars
    BY <1>6 DEF listVars, ListIInv, ListTypeOK, RowsDone, SlicesHold, ChunkReturned, NoChunk
  <1> QED
    BY <1>1, <1>2, <1>3, <1>4, <1>5, <1>6 DEF ListNext

-------------------------------------------------------------------------------
\* Theorems about ListFiles

\* Type correctness, for every chunk size, capacity and set of answers.
THEOREM ListTypeCorrect == ListSpec => []ListTypeOK
  <1>1. ListIInv => ListTypeOK
    BY DEF ListIInv
  <1> QED
    BY <1>1, ListInitIInv, ListStepIInv, PTL DEF ListSpec

\* Every row of a returned chunk has the files of its own query, whatever was appended
\* after it and however often the child vector moved.
THEOREM RowsCorrect == ListSpec => []RowsOwnFiles
  <1>1. ListIInv => RowsOwnFiles
    BY DEF ListIInv, ChunkReturned, SlicesHold, RowsOwnFiles
  <1> QED
    BY <1>1, ListInitIInv, ListStepIInv, PTL DEF ListSpec

-------------------------------------------------------------------------------
\* ExtensionLoad: the invariant

PastSecretType == \A d \in secretTypes : at[d] >= 3

GlobalsAssigned ==
    \A d \in Databases :
        /\ at[d] >= 5 => base_parquet_scan_function # NoFunction
        /\ at[d] >= 6 => g_read_parquet_function # NoFunction

LoadIInv ==
    /\ LoadTypeOK
    /\ PastSecretType
    /\ GlobalsAssigned
    /\ BindsFindFunction
    /\ LoadCanBeRetried

USE DEF LoadCanBeRetried

-------------------------------------------------------------------------------

\* The steps of a load by their numbers.
LEMMA Steps ==
  ASSUME NEW d \in Databases, LoadTypeOK
  PROVE  /\ Len(LoadOrder) = 8
         /\ at[d] \in 0..9
         /\ AtStep(d, "parquet") => at[d] = 1
         /\ AtStep(d, "secret_type") => at[d] = 2
         /\ AtStep(d, "listings") => at[d] = 3
         /\ AtStep(d, "scan_function") => at[d] = 4
         /\ AtStep(d, "read_parquet") => at[d] = 5
         /\ AtStep(d, "delta_share_read") => at[d] = 6
         /\ AtStep(d, "delta_share_change_data_feed") => at[d] = 7
         /\ AtStep(d, "delta_share_list_files") => at[d] = 8
  <1>1. Len(LoadOrder) = 8 /\ DOMAIN LoadOrder = 1..8
    BY DEF LoadOrder
  <1>2. at[d] \in 0..9
    BY <1>1 DEF LoadTypeOK
  <1>3. /\ LoadOrder[1] = "parquet" /\ LoadOrder[2] = "secret_type"
        /\ LoadOrder[3] = "listings" /\ LoadOrder[4] = "scan_function"
        /\ LoadOrder[5] = "read_parquet" /\ LoadOrder[6] = "delta_share_read"
        /\ LoadOrder[7] = "delta_share_change_data_feed"
        /\ LoadOrder[8] = "delta_share_list_files"
    BY DEF LoadOrder
  <1> QED
    BY <1>1, <1>2, <1>3 DEF AtStep

\* A load that goes on one step.
LEMMA GoesOn ==
  ASSUME NEW d \in Databases, LoadTypeOK, at[d] < 9, Go(d)
  PROVE  /\ at' \in [Databases -> 0..Len(LoadOrder) + 1]
         /\ at'[d] = at[d] + 1
         /\ \A e \in Databases \ {d} : at'[e] = at[e]
  <1>1. Len(LoadOrder) = 8 /\ at[d] \in 0..9
    BY Steps
  <1> QED
    BY <1>1 DEF Go, LoadTypeOK

LEMMA LoadInitIInv == LoadInit => LoadIInv
  BY ExtensionLoadAssumption
  DEF LoadInit, LoadIInv, LoadTypeOK, PastSecretType, GlobalsAssigned,
      BindsFindFunction, Functions, LoadOrder

\* Registering functions other than scans, or scans once the globals are assigned.
LEMMA RegisterIInv ==
  ASSUME LoadIInv, NEW d \in Databases, NEW names \in SUBSET Functions,
         at[d] >= 3, at[d] < 9, at[d] # 4, at[d] # 5,
         names \cap Scans # {} => at[d] >= 6,
         RegisterFunctions(d, names)
  PROVE  LoadIInv'
  <1> USE DEF LoadIInv, RegisterFunctions
  <1>1. Go(d) /\ UNCHANGED <<available, secretTypes, refused, globals>>
    OBVIOUS
  <1>2. /\ at' \in [Databases -> 0..Len(LoadOrder) + 1]
        /\ at'[d] = at[d] + 1
        /\ \A e \in Databases \ {d} : at'[e] = at[e]
    BY <1>1, GoesOn
  <1>3. at[d] \in 0..9
    BY Steps
  <1>4. registered' \in [Databases -> SUBSET Functions]
    BY DEF LoadTypeOK
  <1>5. LoadTypeOK'
    BY <1>2, <1>4 DEF LoadTypeOK, globals
  <1>6. PastSecretType'
    <2>1. secretTypes' = secretTypes /\ secretTypes \subseteq Databases
      BY <1>1 DEF LoadTypeOK
    <2>2. \A e \in Databases : at[e] >= 3 => at'[e] >= 3
      BY <1>2, <1>3
    <2> QED
      BY <2>1, <2>2 DEF PastSecretType
  <1>7. GlobalsAssigned'
    BY <1>2, <1>3 DEF GlobalsAssigned, globals
  <1>8. BindsFindFunction'
    <2>1. \A e \in Databases \ {d} : registered'[e] = registered[e]
      BY DEF LoadTypeOK
    <2>2. registered'[d] = registered[d] \cup names
      BY DEF LoadTypeOK
    <2>3. names \cap Scans # {} =>
             base_parquet_scan_function # NoFunction /\ g_read_parquet_function # NoFunction
      BY <1>3 DEF GlobalsAssigned
    <2> QED
      BY <2>1, <2>2, <2>3 DEF BindsFindFunction, globals
  <1> QED
    BY <1>5, <1>6, <1>7, <1>8

\* A load that goes on, or an attempt that ends, without registering anything.
LEMMA PlainIInv ==
  ASSUME LoadIInv, NEW d \in Databases,
         available' \in SUBSET Databases,
         \/ Go(d) /\ at[d] < 4
         \/ Fail(d) /\ at[d] = 1
         \/ at' = at,
         UNCHANGED <<secretTypes, registered, refused, globals>>
  PROVE  LoadIInv'
  <1> USE DEF LoadIInv, globals
  <1>1. at[d] \in 0..9
    BY Steps
  <1>2. /\ at' \in [Databases -> 0..Len(LoadOrder) + 1]
        /\ \A e \in Databases \ {d} : at'[e] = at[e]
        /\ \/ at'[d] = at[d]
           \/ at'[d] = at[d] + 1 /\ at[d] < 4
           \/ at'[d] = 0 /\ at[d] = 1
    <2>1. CASE Go(d) /\ at[d] < 4
      BY <1>1, <2>1, GoesOn
    <2>2. CASE Fail(d) /\ at[d] = 1
      BY <1>1, <2>2, Steps DEF Fail, LoadTypeOK
    <2>3. CASE at' = at
      BY <1>1, <2>3 DEF LoadTypeOK
    <2> QED
      BY <2>1, <2>2, <2>3
  <1>3. LoadTypeOK'
    BY <1>2 DEF LoadTypeOK
  <1>4. PastSecretType'
    <2>1. secretTypes' = secretTypes /\ secretTypes \subseteq Databases
      BY DEF LoadTypeOK
    <2>2. \A e \in Databases : at[e] >= 3 => at'[e] >= 3
      BY <1>1, <1>2
    <2> QED
      BY <2>1, <2>2 DEF PastSecretType
  <1>5. GlobalsAssigned'
    BY <1>1, <1>2 DEF GlobalsAssigned
  <1>6. BindsFindFunction'
    BY DEF BindsFindFunction
  <1> QED
    BY <1>3, <1>4, <1>5, <1>6

LEMMA LoadStepIInv == LoadIInv /\ [LoadNext]_loadVars => LoadIInv'
  <1> SUFFICES ASSUME LoadIInv, [LoadNext]_loadVars PROVE LoadIInv'
    OBVIOUS
  <1>0. LoadTypeOK
    BY DEF LoadIInv
  <1>1. ASSUME NEW d \in Databases, LoadStep(d)
        PROVE  LoadIInv'
    <2>0. at[d] \in 0..9
      BY <1>0, Steps
    <2>1. CASE BeginLoad(d)
      BY <1>0, <2>1, PlainIInv DEF BeginLoad, LoadTypeOK
    <2>2. CASE EnsureParquet(d)
      BY <1>0, <2>2, Steps, PlainIInv DEF EnsureParquet, LoadTypeOK
    <2>3. CASE ParquetMissing(d)
      BY <1>0, <2>3, Steps, PlainIInv DEF ParquetMissing, LoadTypeOK
    <2>4. CASE RegisterSecretType(d)
      <3>0. at[d] = 2
        BY <1>0, <2>4, Steps DEF RegisterSecretType
      <3>1. d \notin secretTypes /\ Go(d) /\ refused' = refused
        BY <2>4, <3>0 DEF RegisterSecretType, LoadIInv, PastSecretType
      <3>2. /\ at' \in [Databases -> 0..Len(LoadOrder) + 1]
            /\ at'[d] = 3
            /\ \A e \in Databases \ {d} : at'[e] = at[e]
        BY <1>0, <3>0, <3>1, GoesOn
      <3>3. LoadTypeOK'
        BY <2>4, <3>1, <3>2 DEF RegisterSecretType, LoadIInv, LoadTypeOK, globals
      <3>4. PastSecretType'
        BY <2>4, <3>2 DEF RegisterSecretType, LoadIInv, LoadTypeOK, PastSecretType
      <3>5. GlobalsAssigned'
        BY <2>4, <3>2 DEF RegisterSecretType, LoadIInv, GlobalsAssigned, globals
      <3>6. BindsFindFunction' /\ LoadCanBeRetried'
        BY <2>4, <3>1 DEF RegisterSecretType, LoadIInv, BindsFindFunction, globals
      <3> QED
        BY <3>3, <3>4, <3>5, <3>6 DEF LoadIInv
    <2>5. CASE RegisterListings(d)
      <3>1. {"delta_share_list", "delta_share_list_all_tables"} \in SUBSET Functions
        BY DEF Functions
      <3>2. {"delta_share_list", "delta_share_list_all_tables"} \cap Scans = {}
        BY DEF Scans
      <3>3. at[d] = 3
        BY <1>0, <2>5, Steps DEF RegisterListings
      <3> QED
        BY <2>5, <3>1, <3>2, <3>3, RegisterIInv DEF RegisterListings
    <2>6. CASE CopyScanFunction(d)
      <3>1. at[d] = 4 /\ Go(d)
        BY <1>0, <2>6, Steps DEF CopyScanFunction
      <3>2. /\ at' \in [Databases -> 0..Len(LoadOrder) + 1]
            /\ at'[d] = 5
            /\ \A e \in Databases \ {d} : at'[e] = at[e]
        BY <1>0, <3>1, GoesOn
      <3>3. base_parquet_scan_function' # NoFunction
        BY <2>6, ExtensionLoadAssumption DEF CopyScanFunction
      <3>4. LoadTypeOK'
        BY <2>6, <3>2 DEF CopyScanFunction, LoadIInv, LoadTypeOK
      <3>5. PastSecretType'
        BY <2>6, <3>2 DEF CopyScanFunction, LoadIInv, LoadTypeOK, PastSecretType
      <3>6. GlobalsAssigned'
        BY <2>6, <3>2, <3>3 DEF CopyScanFunction, LoadIInv, GlobalsAssigned
      <3>7. BindsFindFunction' /\ LoadCanBeRetried'
        BY <2>6, <3>3 DEF CopyScanFunction, LoadIInv, BindsFindFunction
      <3> QED
        BY <3>4, <3>5, <3>6, <3>7 DEF LoadIInv
    <2>7. CASE CopyReadParquet(d)
      <3>1. at[d] = 5 /\ Go(d)
        BY <1>0, <2>7, Steps DEF CopyReadParquet
      <3>2. /\ at' \in [Databases -> 0..Len(LoadOrder) + 1]
            /\ at'[d] = 6
            /\ \A e \in Databases \ {d} : at'[e] = at[e]
        BY <1>0, <3>1, GoesOn
      <3>3. /\ g_read_parquet_function' # NoFunction
            /\ base_parquet_scan_function' # NoFunction
        BY <2>7, <3>1, ExtensionLoadAssumption
        DEF CopyReadParquet, LoadIInv, GlobalsAssigned
      <3>4. LoadTypeOK'
        BY <2>7, <3>2 DEF CopyReadParquet, LoadIInv, LoadTypeOK
      <3>5. PastSecretType'
        BY <2>7, <3>2 DEF CopyReadParquet, LoadIInv, LoadTypeOK, PastSecretType
      <3>6. GlobalsAssigned'
        BY <3>3 DEF GlobalsAssigned
      <3>7. BindsFindFunction' /\ LoadCanBeRetried'
        BY <2>7, <3>3 DEF CopyReadParquet, LoadIInv, BindsFindFunction
      <3> QED
        BY <3>4, <3>5, <3>6, <3>7 DEF LoadIInv
    <2>8. CASE RegisterScan(d)
      <3>1. PICK name \in Scans \cup {"delta_share_list_files"} :
               AtStep(d, name) /\ RegisterFunctions(d, {name})
        BY <2>8 DEF RegisterScan
      <3>2. at[d] \in 6..8
        BY <1>0, <3>1, Steps DEF Scans
      <3>3. {name} \in SUBSET Functions
        BY DEF Functions
      <3> QED
        BY <2>0, <3>1, <3>2, <3>3, RegisterIInv
    <2>9. CASE InstallParquet(d)
      BY <1>0, <2>9, PlainIInv DEF InstallParquet, LoadTypeOK
    <2> QED
      BY <1>1, <2>1, <2>2, <2>3, <2>4, <2>5, <2>6, <2>7, <2>8, <2>9 DEF LoadStep
  <1>2. ASSUME NEW d \in Databases, Reopen(d)
        PROVE  LoadIInv'
    <2>1. /\ at' \in [Databases -> 0..Len(LoadOrder) + 1]
          /\ at'[d] = 0
          /\ \A e \in Databases \ {d} : at'[e] = at[e]
      BY <1>0, <1>2, Steps DEF Reopen, LoadTypeOK
    <2>2. /\ registered' \in [Databases -> SUBSET Functions]
          /\ registered'[d] = {}
          /\ \A e \in Databases \ {d} : registered'[e] = registered[e]
      BY <1>0, <1>2 DEF Reopen, LoadTypeOK
    <2>3. LoadTypeOK'
      BY <1>0, <1>2, <2>1, <2>2 DEF Reopen, LoadTypeOK, globals
    <2>4. PastSecretType'
      BY <1>2, <2>1 DEF Reopen, LoadIInv, LoadTypeOK, PastSecretType
    <2>5. GlobalsAssigned'
      BY <1>2, <2>1 DEF Reopen, LoadIInv, GlobalsAssigned, globals
    <2>6. BindsFindFunction' /\ LoadCanBeRetried'
      BY <1>2, <2>2 DEF Reopen, LoadIInv, BindsFindFunction, globals
    <2> QED
      BY <2>3, <2>4, <2>5, <2>6 DEF LoadIInv
  <1>3. CASE UNCHANGED loadVars
    BY <1>3 DEF loadVars, globals, LoadIInv, LoadTypeOK, PastSecretType,
                GlobalsAssigned, BindsFindFunction
  <1> QED
    BY <1>1, <1>2, <1>3 DEF LoadNext

-------------------------------------------------------------------------------
\* Theorems about ExtensionLoad

LEMMA LoadInductive == LoadSpec => []LoadIInv
  BY LoadInitIInv, LoadStepIInv, PTL DEF LoadSpec

\* Type correctness, for any set of databases.
THEOREM LoadTypeCorrect == LoadSpec => []LoadTypeOK
  <1>1. LoadIInv => LoadTypeOK
    BY DEF LoadIInv
  <1> QED
    BY <1>1, LoadInductive, PTL

\* No scan is to be had before both globals are assigned, whatever loads, closes and
\* opens are under way in however many databases.
THEOREM GlobalsCorrect == LoadSpec => []BindsFindFunction
  <1>1. LoadIInv => BindsFindFunction
    BY DEF LoadIInv
  <1> QED
    BY <1>1, LoadInductive, PTL

\* A load that failed never stands in the way of the next one.
THEOREM RetryCorrect == LoadSpec => []LoadCanBeRetried
  <1>1. LoadIInv => LoadCanBeRetried
    BY DEF LoadIInv
  <1> QED
    BY <1>1, LoadInductive, PTL

-------------------------------------------------------------------------------
\* TableCalls: its steps are steps of the load, or of the list, or of neither

LEMMA CallsLoadStep == [TCNext]_tcVars => [LoadNext]_loadVars
  BY DEF TCNext, tcVars, Load, Close, LoadNext, BeginRead, BeginChanges, BeginListFiles, Begin,
         AskForSnapshot, AskForChanges, ChangesRefused, Answer, AnswerFails, EndScan,
         Refuse, Ask, AnswerListedRow, FailListedRow, ReturnListed, EndListFiles

LEMMA CallsListStep == [TCNext]_tcVars => [ListNext]_listVars
  <1> SUFFICES ASSUME [TCNext]_tcVars PROVE [ListNext]_listVars
    OBVIOUS
  <1>1. ASSUME NEW d \in Databases, BeginListFiles(d)
        PROVE  ListNext
    BY <1>1 DEF BeginListFiles, ListNext
  <1>2. CASE AnswerListedRow
    BY <1>2 DEF AnswerListedRow, Returned, ListNext
  <1>3. CASE FailListedRow \/ ReturnListed \/ EndListFiles
    BY <1>3 DEF FailListedRow, ReturnListed, EndListFiles, ListNext
  <1>4. ASSUME NEW d \in Databases, Load(d) \/ Close(d) \/ BeginRead(d) \/ BeginChanges(d)
        PROVE  UNCHANGED listVars
    BY <1>4 DEF Load, Close, BeginRead, BeginChanges
  <1>5. CASE AskForSnapshot \/ AskForChanges \/ ChangesRefused \/ Answer \/ AnswerFails \/ EndScan
    BY <1>5 DEF AskForSnapshot, AskForChanges, ChangesRefused, Answer, AnswerFails, EndScan,
                Refuse, Ask
  <1>6. CASE UNCHANGED tcVars
    BY <1>6 DEF tcVars
  <1> QED
    BY <1>1, <1>2, <1>3, <1>4, <1>5, <1>6 DEF TCNext

\* What the calls do to the databases is a run of the loads, and what they do to the
\* child vector one of the listed chunks: the theorems above hold of the whole.
THEOREM CallsCompose == TCSpec => LoadSpec /\ ListSpec
  <1>1. TCInit => LoadInit /\ ListInit
    BY DEF TCInit
  <1> QED
    BY <1>1, CallsLoadStep, CallsListStep, PTL DEF TCSpec, LoadSpec, ListSpec

-------------------------------------------------------------------------------
\* TableCalls: the invariant

ListedRows == {Row(t, p) : t \in Tables, p \in Predicates}

CallTypeOK ==
    /\ call \in {"none", "read", "changes", "list_files"}
    /\ caller \in Databases \cup {NoFunction}
    /\ caller = NoFunction <=> Idle
    /\ outcome \in {"running", "answered", "refused"}
    /\ request \in [kind : {"none", "query", "changes"}, start : Bounds, end : Bounds]
    /\ answer \in SUBSET Versions
    /\ outcome = "running" => answer = {}

GivenInv ==
    /\ call = "read" => given[1] \in Arguments /\ ReadTypes(given[1])
    /\ call = "changes" => given[1] \in Arguments /\ given[2] \in Arguments
    /\ call = "list_files" => given \in [1..count -> ListedRows]

\* What the server is asked for is what the arguments become.
RequestInv ==
    /\ call \in {"none", "list_files"} => request = NoRequest /\ outcome = "running"
    /\ request # NoRequest =>
          \/ call = "read" /\ request = QueryRequest(ReadTime(given[1]))
          \/ /\ call = "changes"
             /\ Convertible
             /\ HasStart(StartOf(given[1]))
             /\ request = ChangesRequest(StartOf(given[1]), EndOf(given[2]))

AnswerInv ==
    outcome = "answered" =>
        /\ request # NoRequest
        /\ MayRead(request.start.text) /\ MayRead(request.end.text)
        /\ answer = Served(request)
        /\ answer # {}

\* Every row answered so far got one of the answers that its hint allows.
ListedInv ==
    /\ state = "idle" <=> call # "list_files"
    /\ call = "list_files" =>
          \A row \in 1..Len(query_results) :
              /\ given[row].predicate # Unparsable
              /\ query_results[row] \in
                    Returned(given[row], ParsePredicateStringToJson(given[row].predicate))

CallInv == CallTypeOK /\ GivenInv /\ RequestInv /\ AnswerInv /\ ListedInv

-------------------------------------------------------------------------------
\* Requests

LEMMA BoundTypes ==
  /\ NoText \in Texts
  /\ NoBound \in Bounds
  /\ NoRequest \in [kind : {"none", "query", "changes"}, start : Bounds, end : Bounds]
  /\ \A arg \in Arguments :
        /\ ReadTime(arg) \in Texts
        /\ StartOf(arg) \in Bounds
        /\ EndOf(arg) \in Bounds
  <1>1. NoText \in Texts
    BY DEF NoText, Text, Texts
  <1>2. NoBound \in Bounds
    BY <1>1 DEF NoBound, Bound, Bounds
  <1>3. NoRequest \in [kind : {"none", "query", "changes"}, start : Bounds, end : Bounds]
    BY <1>2 DEF NoRequest, Request
  <1>4. ASSUME NEW arg \in Arguments
        PROVE  /\ ReadTime(arg) \in Texts
               /\ StartOf(arg) \in Bounds
               /\ EndOf(arg) \in Bounds
    <2>1. arg.value \in Int
      BY TableCallsAssumption
    <2>2. IsoText(arg) \in Texts
      BY <2>1 DEF IsoText, Text, Texts
    <2> QED
      BY <1>1, <1>2, <2>1, <2>2 DEF ReadTime, StartOf, EndOf, Bound, Bounds
  <1> QED
    BY <1>1, <1>2, <1>3, <1>4

LEMMA InQueryType ==
  ASSUME NEW bound \in Bounds
  PROVE  InQuery(bound) \in Bounds
  BY BoundTypes DEF InQuery, Bound, Bounds, Text, Texts

LEMMA RequestTypes ==
  /\ \A arg \in Arguments :
        QueryRequest(ReadTime(arg))
            \in [kind : {"none", "query", "changes"}, start : Bounds, end : Bounds]
  /\ \A start, end \in Arguments :
        ChangesRequest(StartOf(start), EndOf(end))
            \in [kind : {"none", "query", "changes"}, start : Bounds, end : Bounds]
  <1>1. ASSUME NEW arg \in Arguments
        PROVE  QueryRequest(ReadTime(arg))
                  \in [kind : {"none", "query", "changes"}, start : Bounds, end : Bounds]
    <2>1. Bound(-1, ReadTime(arg)) \in Bounds /\ NoBound \in Bounds
      BY BoundTypes DEF Bound, Bounds
    <2> QED
      BY <2>1 DEF QueryRequest, Request
  <1>2. ASSUME NEW start \in Arguments, NEW end \in Arguments
        PROVE  ChangesRequest(StartOf(start), EndOf(end))
                  \in [kind : {"none", "query", "changes"}, start : Bounds, end : Bounds]
    <2>1. InQuery(StartOf(start)) \in Bounds /\ InQuery(EndOf(end)) \in Bounds
      BY BoundTypes, InQueryType
    <2> QED
      BY <2>1 DEF ChangesRequest, Request
  <1> QED
    BY <1>1, <1>2

LEMMA ServedType == \A req : Served(req) \in SUBSET Versions
  <1> SUFFICES ASSUME NEW req PROVE Served(req) \in SUBSET Versions
    OBVIOUS
  <1>1. \A text : SnapshotAt(text) \in SUBSET Versions
    <2> SUFFICES ASSUME NEW text PROVE SnapshotAt(text) \in SUBSET Versions
      OBVIOUS
    <2> DEFINE before == {v \in Versions : Committed(v) <= text.time}
    <2>1. Latest \in Versions
      BY TableCallsAssumption DEF Versions
    <2>2. before # {} => Max(before) \in before
      <3>1. before \in SUBSET Int /\ Latest \in Int /\ \A v \in before : v <= Latest
        BY TableCallsAssumption DEF Versions
      <3> HIDE DEF before
      <3> QED
        BY <3>1, MaxOfBounded
    <2> QED
      BY <2>1, <2>2 DEF SnapshotAt
  <1>2. Changes(req) \in SUBSET Versions
    BY DEF Changes
  <1> QED
    BY <1>1, <1>2 DEF Served

-------------------------------------------------------------------------------
\* What is served is what was asked for

\* The latest version committed by a time is the one that all later ones are behind.
LEMMA SnapshotAsked ==
  ASSUME NEW arg \in Arguments, ReadTypes(arg),
         NEW S, S = SnapshotAt(ReadTime(arg)), S # {}
  PROVE  S = AskedSnapshot(arg)
  <1>1. CASE arg = Absent \/ IsNull(arg)
    BY <1>1 DEF ReadTime, SnapshotAt, AskedSnapshot
  <1>2. CASE ~(arg = Absent \/ IsNull(arg))
    <2>1. arg.value \in Int
      BY TableCallsAssumption
    <2>2. ReadTime(arg).time = arg.value /\ ReadTime(arg) # NoText
      BY <1>2, <2>1 DEF ReadTime, IsoText, Text, NoText
    <2> DEFINE before == {v \in Versions : Committed(v) <= arg.value}
    <2>3. before # {} /\ S = {Max(before)}
      BY <2>2 DEF SnapshotAt
    <2>4. Max(before) \in before /\ \A v \in before : v <= Max(before)
      <3>1. before \in SUBSET Int /\ Latest \in Int /\ \A v \in before : v <= Latest
        BY TableCallsAssumption DEF Versions
      <3> HIDE DEF before
      <3> QED
        BY <2>3, <3>1, MaxOfBounded
    <2>5. PICK m : m = Max(before)
      OBVIOUS
    <2>6. ASSUME NEW v \in Versions
          PROVE  v = m <=> /\ Committed(v) <= arg.value
                           /\ \A w \in Versions : w > v => Committed(w) > arg.value
      <3>1. m \in Versions /\ Committed(m) <= arg.value
        BY <2>4, <2>5
      <3>2. \A w \in Versions : Committed(w) <= arg.value => w <= m
        BY <2>4, <2>5
      <3>3. v \in Int /\ m \in Int
        BY <3>1 DEF Versions
      <3>4. ASSUME NEW w \in Versions, ~(Committed(w) <= arg.value) PROVE Committed(w) > arg.value
        BY <3>4, <2>1 DEF Versions, Committed
      <3>5. ASSUME NEW w \in Versions, Committed(w) > arg.value PROVE ~(Committed(w) <= arg.value)
        BY <3>5, <2>1 DEF Versions, Committed
      <3>6. v = m => \A w \in Versions : w > v => Committed(w) > arg.value
        <4> SUFFICES ASSUME v = m, NEW w \in Versions, w > v PROVE Committed(w) > arg.value
          OBVIOUS
        <4>1. w \in Int /\ ~(w <= m)
          BY <3>3 DEF Versions
        <4> QED
          BY <3>2, <3>4, <4>1
      <3>7. (/\ Committed(v) <= arg.value
             /\ \A w \in Versions : w > v => Committed(w) > arg.value) => v = m
        <4> SUFFICES ASSUME Committed(v) <= arg.value,
                            \A w \in Versions : w > v => Committed(w) > arg.value
                     PROVE  v = m
          OBVIOUS
        <4>1. v <= m
          BY <3>2
        <4>2. ~(m > v)
          BY <3>1, <3>5
        <4> QED
          BY <3>3, <4>1, <4>2
      <3> QED
        BY <3>1, <3>6, <3>7
    <2>7. m \in Versions
      BY <2>4, <2>5
    <2>8. S = {m}
      BY <2>3, <2>5
    <2>9. AskedSnapshot(arg) =
             {v \in Versions : /\ Committed(v) <= arg.value
                               /\ \A w \in Versions : w > v => Committed(w) > arg.value}
      BY <1>2 DEF AskedSnapshot
    <2> QED
      BY <2>6, <2>7, <2>8, <2>9
  <1> QED
    BY <1>1, <1>2

\* A start that a server can read begins at the argument it was made of.
LEMMA StartAsked ==
  ASSUME NEW arg \in Arguments, ~Refused(arg), HasStart(StartOf(arg)),
         NEW start, start = InQuery(StartOf(arg)), MayRead(start.text),
         NEW v \in Versions
  PROVE  From(start, v) <=> (arg # Absent => IsFrom(arg, v))
  <1>0. arg.value \in Int /\ v \in Nat
    BY TableCallsAssumption DEF Versions
  <1>1. CASE arg.type \in Timestamps
    <2>1. StartOf(arg) = Bound(-1, IsoText(arg))
      BY <1>1 DEF StartOf
    <2>2. IsoText(arg).time = arg.value
      BY DEF IsoText, Text
    <2>3. start.version = -1 /\ start.text.time = arg.value
      BY <2>1, <2>2 DEF InQuery, Bound, Text
    <2>4. arg # Absent
      BY <1>1 DEF Absent, Argument, Timestamps
    <2> QED
      BY <1>1, <2>3, <2>4 DEF From, IsFrom
  <1>2. CASE arg = Absent
    <2>1. StartOf(arg) = Bound(0, NoText)
      BY <1>2 DEF StartOf, Absent, Argument, Timestamps
    <2>2. start.version = 0
      BY <2>1 DEF InQuery, Bound
    <2> QED
      BY <1>0, <1>2, <2>2 DEF From
  <1>3. CASE arg.type \notin Timestamps /\ arg # Absent
    <2>1. StartOf(arg) = Bound(arg.value, NoText)
      BY <1>3 DEF StartOf
    <2>2. arg.value >= 0
      BY <1>0, <2>1 DEF HasStart, Bound
    <2>3. start.version = arg.value
      BY <2>1, <2>2 DEF InQuery, Bound
    <2> QED
      BY <1>3, <2>2, <2>3 DEF From, IsFrom
  <1> QED
    BY <1>1, <1>2, <1>3

\* Likewise an end, unless it is below 0.
LEMMA EndAsked ==
  ASSUME NEW arg \in Arguments, ~Refused(arg), arg = Absent \/ arg.value >= 0,
         NEW end, end = InQuery(EndOf(arg)), MayRead(end.text),
         NEW v \in Versions
  PROVE  Until(end, v) <=> (arg # Absent => IsUntil(arg, v))
  <1>0. arg.value \in Int /\ v \in Nat
    BY TableCallsAssumption DEF Versions
  <1>1. CASE arg.type \in Timestamps
    <2>1. EndOf(arg) = Bound(-1, IsoText(arg))
      BY <1>1 DEF EndOf
    <2>2. IsoText(arg).time = arg.value /\ IsoText(arg).suffix \in {"Z", "+00"}
      BY DEF IsoText, Text
    <2>3. end.version = -1 /\ end.text.time = arg.value /\ end.text.suffix # "none"
      BY <2>1, <2>2 DEF InQuery, Bound, Text
    <2>4. arg # Absent /\ end.text # NoText
      BY <1>1, <2>3 DEF Absent, Argument, Timestamps, NoText, Text
    <2> QED
      BY <1>1, <2>3, <2>4 DEF Until, IsUntil
  <1>2. CASE arg = Absent
    <2>1. EndOf(arg) = NoBound
      BY <1>2 DEF EndOf, Absent, Argument, Timestamps
    <2>2. end.version = -1 /\ end.text = NoText
      BY <2>1 DEF InQuery, NoBound, Bound, NoText, Text
    <2> QED
      BY <1>2, <2>2 DEF Until
  <1>3. CASE arg.type \notin Timestamps /\ arg # Absent
    <2>1. EndOf(arg) = Bound(arg.value, NoText)
      BY <1>3 DEF EndOf
    <2>2. arg.value >= 0
      BY <1>3
    <2>3. end.version = arg.value
      BY <2>1, <2>2 DEF InQuery, Bound
    <2> QED
      BY <1>3, <2>2, <2>3 DEF Until, IsUntil
  <1> QED
    BY <1>1, <1>2, <1>3

LEMMA AnswerAsked == CallInv => AnswerAsAsked
  <1> SUFFICES ASSUME CallInv, outcome = "answered"
               PROVE  /\ call = "read" => answer = AskedSnapshot(given[1])
                      /\ call = "changes" =>
                            LET start == given[1]
                                end   == given[2]
                            IN  end = Absent \/ end.value >= 0 =>
                                   answer = {v \in Versions :
                                                /\ start # Absent => IsFrom(start, v)
                                                /\ end # Absent => IsUntil(end, v)}
    BY DEF AnswerAsAsked
  <1>1. /\ request # NoRequest /\ answer = Served(request) /\ answer # {}
        /\ MayRead(request.start.text) /\ MayRead(request.end.text)
    BY DEF CallInv, AnswerInv
  <1>2. ASSUME call = "read"
        PROVE  answer = AskedSnapshot(given[1])
    <2>1. request = QueryRequest(ReadTime(given[1]))
      BY <1>1, <1>2 DEF CallInv, RequestInv
    <2>2. given[1] \in Arguments /\ ReadTypes(given[1])
      BY <1>2 DEF CallInv, GivenInv
    <2>3. request.kind = "query" /\ request.start.text = ReadTime(given[1])
      BY <2>1 DEF QueryRequest, Request, Bound
    <2>4. answer = SnapshotAt(ReadTime(given[1]))
      BY <1>1, <2>3 DEF Served
    <2> QED
      BY <1>1, <2>2, <2>4, SnapshotAsked
  <1>3. ASSUME call = "changes", given[2] = Absent \/ given[2].value >= 0
        PROVE  answer = {v \in Versions : /\ given[1] # Absent => IsFrom(given[1], v)
                                          /\ given[2] # Absent => IsUntil(given[2], v)}
    <2>1. /\ Convertible /\ HasStart(StartOf(given[1]))
          /\ request = ChangesRequest(StartOf(given[1]), EndOf(given[2]))
      BY <1>1, <1>3 DEF CallInv, RequestInv
    <2>2. given[1] \in Arguments /\ given[2] \in Arguments
      BY <1>3 DEF CallInv, GivenInv
    <2>3. PICK start, end : start = request.start /\ end = request.end
      OBVIOUS
    <2>4. /\ request.kind = "changes"
          /\ start = InQuery(StartOf(given[1]))
          /\ end = InQuery(EndOf(given[2]))
      BY <2>1, <2>3 DEF ChangesRequest, Request
    <2>5. answer = {v \in Versions : From(start, v) /\ Until(end, v)}
      BY <1>1, <2>3, <2>4 DEF Served, Changes
    <2>6. \A v \in Versions : From(start, v) <=> (given[1] # Absent => IsFrom(given[1], v))
      BY <1>1, <2>1, <2>2, <2>3, <2>4, StartAsked DEF Convertible
    <2>7. \A v \in Versions : Until(end, v) <=> (given[2] # Absent => IsUntil(given[2], v))
      BY <1>1, <1>3, <2>1, <2>2, <2>3, <2>4, EndAsked DEF Convertible
    <2> QED
      BY <2>5, <2>6, <2>7
  <1> QED
    BY <1>2, <1>3

-------------------------------------------------------------------------------
\* TableCalls: the invariant is inductive

LEMMA CallInitInv == TCInit => CallInv
  <1> SUFFICES ASSUME TCInit PROVE CallInv
    OBVIOUS
  <1>1. CallTypeOK
    BY BoundTypes DEF TCInit, CallInit, CallTypeOK, Idle
  <1>2. GivenInv /\ RequestInv /\ AnswerInv
    BY DEF TCInit, CallInit, GivenInv, RequestInv, AnswerInv
  <1>3. ListedInv
    BY DEF TCInit, CallInit, ListInit, ListedInv
  <1> QED
    BY <1>1, <1>2, <1>3 DEF CallInv

\* What a database does beside the call.
LEMMA OutsideInv ==
  ASSUME CallInv, UNCHANGED <<listVars, callVars>>
  PROVE  CallInv'
  BY DEF listVars, callVars, CallInv, CallTypeOK, GivenInv, RequestInv, AnswerInv, ListedInv,
         Idle, Convertible

\* A scan begins.
LEMMA BeginScanInv ==
  ASSUME CallInv, NEW d \in Databases, NEW kind \in {"read", "changes"}, NEW name,
         Begin(d, kind, name), UNCHANGED listVars, GivenInv'
  PROVE  CallInv'
  <1>1. /\ call = "none" /\ call' = kind /\ caller' = d
        /\ UNCHANGED <<request, outcome, answer>>
    BY DEF Begin, Idle
  <1>2. request = NoRequest /\ outcome = "running"
    BY <1>1 DEF CallInv, RequestInv
  <1>3. CallTypeOK'
    BY <1>1, ExtensionLoadAssumption DEF CallInv, CallTypeOK, Idle
  <1>4. RequestInv' /\ AnswerInv'
    BY <1>1, <1>2 DEF RequestInv, AnswerInv
  <1>5. ListedInv'
    BY <1>1 DEF CallInv, ListedInv, listVars
  <1> QED
    BY <1>3, <1>4, <1>5 DEF CallInv

\* A scan is refused, whatever it has asked for.
LEMMA RefuseInv ==
  ASSUME CallInv, call \in {"read", "changes"}, outcome = "running", Refuse
  PROVE  CallInv'
  BY DEF Refuse, listVars, CallInv, CallTypeOK, GivenInv, RequestInv, AnswerInv, ListedInv,
         Idle, Convertible

LEMMA AskInv ==
  ASSUME CallInv, call \in {"read", "changes"}, outcome = "running", NEW req, Ask(req),
         req \in [kind : {"none", "query", "changes"}, start : Bounds, end : Bounds],
         \/ call = "read" /\ req = QueryRequest(ReadTime(given[1]))
         \/ /\ call = "changes"
            /\ Convertible
            /\ HasStart(StartOf(given[1]))
            /\ req = ChangesRequest(StartOf(given[1]), EndOf(given[2]))
  PROVE  CallInv'
  <1>1. request' = req /\ UNCHANGED <<call, caller, given, outcome, answer, listVars>>
    BY DEF Ask
  <1>2. CallTypeOK' /\ GivenInv' /\ ListedInv'
    BY <1>1 DEF listVars, CallInv, CallTypeOK, GivenInv, ListedInv, Idle
  <1>3. RequestInv'
    BY <1>1 DEF RequestInv, Convertible
  <1>4. AnswerInv'
    BY <1>1 DEF AnswerInv
  <1> QED
    BY <1>2, <1>3, <1>4 DEF CallInv

LEMMA AnswerStepInv == CallInv /\ Answer => CallInv'
  <1> SUFFICES ASSUME CallInv, Answer PROVE CallInv'
    OBVIOUS
  <1>1. /\ outcome = "running" /\ outcome' = "answered"
        /\ request # NoRequest
        /\ MayRead(request.start.text) /\ MayRead(request.end.text)
        /\ Served(request) # {} /\ answer' = Served(request)
        /\ UNCHANGED <<call, caller, given, request, listVars>>
    BY DEF Answer
  <1>2. call \in {"read", "changes"}
    BY <1>1 DEF CallInv, CallTypeOK, RequestInv
  <1>3. CallTypeOK'
    BY <1>1, ServedType DEF CallInv, CallTypeOK, Idle
  <1>4. GivenInv' /\ RequestInv' /\ ListedInv'
    BY <1>1, <1>2 DEF listVars, CallInv, GivenInv, RequestInv, ListedInv, Convertible
  <1>5. AnswerInv'
    BY <1>1 DEF AnswerInv
  <1> QED
    BY <1>3, <1>4, <1>5 DEF CallInv

LEMMA EndScanInv == CallInv /\ EndScan => CallInv'
  <1> SUFFICES ASSUME CallInv, EndScan PROVE CallInv'
    OBVIOUS
  <1>1. /\ call \in {"read", "changes"} /\ call' = "none" /\ caller' = NoFunction
        /\ request' = NoRequest /\ outcome' = "running" /\ answer' = {}
        /\ UNCHANGED listVars
    BY DEF EndScan
  <1>2. CallTypeOK'
    BY <1>1, BoundTypes DEF CallTypeOK, Idle
  <1>3. GivenInv' /\ RequestInv' /\ AnswerInv'
    BY <1>1 DEF GivenInv, RequestInv, AnswerInv
  <1>4. ListedInv'
    BY <1>1 DEF listVars, CallInv, ListedInv
  <1> QED
    BY <1>2, <1>3, <1>4 DEF CallInv

LEMMA BeginListFilesInv ==
  ASSUME CallInv, ListIInv, NEW d \in Databases, BeginListFiles(d)
  PROVE  CallInv'
  <1>1. PICK n \in 0..ChunkSize :
           /\ BeginChunk(n)
           /\ given' \in [1..n -> ListedRows]
    BY DEF BeginListFiles, ListedRows
  <1>2. /\ call = "none" /\ call' = "list_files" /\ caller' = d
        /\ UNCHANGED <<request, outcome, answer>>
    BY DEF BeginListFiles, Begin, Idle
  <1>3. request = NoRequest /\ outcome = "running"
    BY <1>2 DEF CallInv, RequestInv
  <1>4. count' = n /\ state = "idle" /\ state' = "rows" /\ query_results' = query_results
    BY <1>1 DEF BeginChunk
  <1>5. CallTypeOK'
    BY <1>2, ExtensionLoadAssumption DEF CallInv, CallTypeOK, Idle
  <1>6. GivenInv' /\ RequestInv' /\ AnswerInv'
    BY <1>1, <1>2, <1>3, <1>4 DEF GivenInv, RequestInv, AnswerInv
  <1>7. Len(query_results) = 0
    <2>1. list_data = <<>>
      BY <1>4 DEF ListIInv, NoChunk
    <2> QED
      BY <2>1 DEF ListIInv, RowsDone
  <1>8. ListedInv'
    BY <1>2, <1>4, <1>7 DEF ListedInv
  <1> QED
    BY <1>5, <1>6, <1>8 DEF CallInv

LEMMA AnswerListedRowInv ==
  ASSUME CallInv, ListIInv, AnswerListedRow
  PROVE  CallInv'
  <1>1. PICK files \in Returned(ThisRow, ParsePredicateStringToJson(ThisRow.predicate)) :
           AnswerRow(files)
    BY DEF AnswerListedRow
  <1>2. /\ call = "list_files" /\ ThisRow.predicate # Unparsable
        /\ UNCHANGED callVars
    BY DEF AnswerListedRow
  <1>3. /\ state = "rows" /\ state' = state /\ count' = count
        /\ query_results' = Append(query_results, files)
    BY <1>1 DEF AnswerRow
  <1>4. CallTypeOK' /\ GivenInv' /\ RequestInv' /\ AnswerInv'
    BY <1>2, <1>3 DEF callVars, CallInv, CallTypeOK, GivenInv, RequestInv, AnswerInv, Idle
  <1>5. /\ query_results \in Seq(Seq(Urls)) /\ Len(query_results) = Len(list_data)
        /\ files \in Seq(Urls)
    BY ListFilesAssumption DEF ListIInv, ListTypeOK, RowsDone, Returned
  <1>6. ThisRow = given[Len(query_results) + 1]
    BY <1>5 DEF ThisRow
  <1>7. ASSUME NEW row \in 1..Len(query_results')
        PROVE  /\ given[row].predicate # Unparsable
               /\ query_results'[row] \in
                     Returned(given[row], ParsePredicateStringToJson(given[row].predicate))
    <2>1. CASE row = Len(query_results) + 1
      <3>1. query_results'[row] = files /\ given[row] = ThisRow
        BY <1>3, <1>5, <1>6, <2>1
      <3> QED
        BY <1>1, <1>2, <3>1
    <2>2. CASE row \in 1..Len(query_results)
      <3>1. query_results'[row] = query_results[row]
        BY <1>3, <1>5, <2>2
      <3> QED
        BY <1>2, <2>2, <3>1 DEF CallInv, ListedInv
    <2> QED
      BY <1>3, <1>5, <2>1, <2>2
  <1>8. ListedInv'
    BY <1>2, <1>3, <1>7 DEF callVars, ListedInv
  <1> QED
    BY <1>4, <1>8 DEF CallInv

\* A row fails, or the chunk is returned: no row gets another answer.
LEMMA ListedEndsInv ==
  ASSUME CallInv, FailListedRow \/ ReturnListed
  PROVE  CallInv'
  <1>1. /\ call = "list_files" /\ UNCHANGED callVars
        /\ state' # "idle" /\ count' = count /\ query_results' = query_results
    BY DEF FailListedRow, FailRow, ReturnListed, ReturnChunk
  <1>2. CallTypeOK' /\ GivenInv' /\ RequestInv' /\ AnswerInv'
    BY <1>1 DEF callVars, CallInv, CallTypeOK, GivenInv, RequestInv, AnswerInv, Idle
  <1>3. ListedInv'
    BY <1>1 DEF callVars, CallInv, ListedInv
  <1> QED
    BY <1>2, <1>3 DEF CallInv

LEMMA EndListFilesInv == CallInv /\ EndListFiles => CallInv'
  <1> SUFFICES ASSUME CallInv, EndListFiles PROVE CallInv'
    OBVIOUS
  <1>1. /\ call = "list_files" /\ call' = "none" /\ caller' = NoFunction
        /\ state' = "idle" /\ UNCHANGED <<request, outcome, answer>>
    BY DEF EndListFiles, ReleaseChunk
  <1>2. CallTypeOK'
    BY <1>1 DEF CallInv, CallTypeOK, Idle
  <1>3. GivenInv' /\ RequestInv' /\ AnswerInv' /\ ListedInv'
    BY <1>1 DEF CallInv, GivenInv, RequestInv, AnswerInv, ListedInv
  <1> QED
    BY <1>2, <1>3 DEF CallInv

LEMMA CallStepInv == CallInv /\ ListIInv /\ [TCNext]_tcVars => CallInv'
  <1> SUFFICES ASSUME CallInv, ListIInv, [TCNext]_tcVars PROVE CallInv'
    OBVIOUS
  <1>1. ASSUME NEW d \in Databases, Load(d) \/ Close(d)
        PROVE  CallInv'
    BY <1>1, OutsideInv DEF Load, Close
  <1>2. ASSUME NEW d \in Databases, BeginRead(d)
        PROVE  CallInv'
    <2>1. GivenInv'
      BY <1>2 DEF BeginRead, Begin, GivenInv
    <2> QED
      BY <1>2, <2>1, BeginScanInv DEF BeginRead
  <1>3. ASSUME NEW d \in Databases, BeginChanges(d)
        PROVE  CallInv'
    <2>1. GivenInv'
      BY <1>3 DEF BeginChanges, Begin, GivenInv
    <2> QED
      BY <1>3, <2>1, BeginScanInv DEF BeginChanges
  <1>4. ASSUME NEW d \in Databases, BeginListFiles(d)
        PROVE  CallInv'
    BY <1>4, BeginListFilesInv
  <1>5. CASE AskForSnapshot
    <2>1. call = "read" /\ outcome = "running" /\ given[1] \in Arguments
      BY <1>5 DEF AskForSnapshot, Asking, CallInv, GivenInv
    <2>2. Refuse \/ Ask(QueryRequest(ReadTime(given[1])))
      BY <1>5 DEF AskForSnapshot
    <2> QED
      BY <2>1, <2>2, RefuseInv, AskInv, RequestTypes
  <1>6. CASE AskForChanges
    <2>1. /\ call = "changes" /\ outcome = "running"
          /\ given[1] \in Arguments /\ given[2] \in Arguments
          /\ Convertible /\ HasStart(StartOf(given[1]))
          /\ Ask(ChangesRequest(StartOf(given[1]), EndOf(given[2])))
      BY <1>6 DEF AskForChanges, Asking, CallInv, GivenInv
    <2> QED
      BY <2>1, AskInv, RequestTypes
  <1>7. CASE ChangesRefused
    BY <1>7, RefuseInv DEF ChangesRefused, Asking
  <1>8. CASE Answer
    BY <1>8, AnswerStepInv
  <1>9. CASE AnswerFails
    <2>1. call \in {"read", "changes"}
      BY <1>9 DEF AnswerFails, CallInv, CallTypeOK, RequestInv
    <2> QED
      BY <1>9, <2>1, RefuseInv DEF AnswerFails
  <1>10. CASE EndScan
    BY <1>10, EndScanInv
  <1>11. CASE AnswerListedRow
    BY <1>11, AnswerListedRowInv
  <1>12. CASE FailListedRow \/ ReturnListed
    BY <1>12, ListedEndsInv
  <1>13. CASE EndListFiles
    BY <1>13, EndListFilesInv
  <1>14. CASE UNCHANGED tcVars
    BY <1>14, OutsideInv DEF tcVars
  <1> QED
    BY <1>1, <1>2, <1>3, <1>4, <1>5, <1>6, <1>7, <1>8, <1>9, <1>10, <1>11, <1>12, <1>13, <1>14
    DEF TCNext

LEMMA CallsInductive == TCSpec => [](CallInv /\ ListIInv /\ LoadIInv)
  <1>1. TCInit => CallInv /\ ListIInv /\ LoadIInv
    BY CallInitInv, ListInitIInv, LoadInitIInv DEF TCInit
  <1>2. CallInv /\ ListIInv /\ LoadIInv /\ [TCNext]_tcVars => (CallInv /\ ListIInv /\ LoadIInv)'
    BY CallStepInv, CallsListStep, CallsLoadStep, ListStepIInv, LoadStepIInv
  <1> QED
    BY <1>1, <1>2, PTL DEF TCSpec

-------------------------------------------------------------------------------
\* Theorems about TableCalls

\* Type correctness, for every set of databases, arguments, tables and predicates.
THEOREM CallsTypeCorrect == TCSpec => []TCTypeOK
  <1>1. CallInv /\ ListIInv /\ LoadIInv => TCTypeOK
    <2> SUFFICES ASSUME CallInv, ListIInv, LoadIInv PROVE TCTypeOK
      OBVIOUS
    <2>1. call = "list_files" => Len(given) = count
      <3> SUFFICES ASSUME call = "list_files" PROVE Len(given) = count
        OBVIOUS
      <3>1. given \in [1..count -> ListedRows] /\ count \in Nat
        BY ListFilesAssumption DEF CallInv, GivenInv, ListIInv, ListTypeOK
      <3> QED
        BY <3>1
    <2> QED
      BY <2>1 DEF CallInv, CallTypeOK, GivenInv, ListIInv, LoadIInv, TCTypeOK
  <1> QED
    BY <1>1, CallsInductive, PTL

\* Whatever is loaded and closed meanwhile, a scan that is answered has what its
\* arguments say, for every history of versions and arguments of every value.
THEOREM AskedCorrect == TCSpec => []AnswerAsAsked
  BY AnswerAsked, CallsInductive, PTL

-------------------------------------------------------------------------------
\* PredicateHints: trees

\* F holds the trees of each nesting up to m.
Levels(F, leaves, m) ==
    F = [n \in 0..m |-> IF n = 0 THEN leaves ELSE leaves \cup Compound(F[n - 1])]

LEMMA LevelsExist ==
  ASSUME NEW leaves
  PROVE  \A m \in Nat : \E F : Levels(F, leaves, m)
  <1> DEFINE S == {m \in Nat : \E F : Levels(F, leaves, m)}
  <1>1. 0 \in S
    <2> DEFINE G == [n \in 0..0 |-> leaves]
    <2>1. G = [n \in 0..0 |-> IF n = 0 THEN leaves ELSE leaves \cup Compound(G[n - 1])]
      OBVIOUS
    <2>2. Levels(G, leaves, 0)
      BY <2>1 DEF Levels
    <2> QED
      BY <2>2
  <1>2. ASSUME NEW m \in Nat, m \in S PROVE m + 1 \in S
    <2>1. PICK F : Levels(F, leaves, m)
      BY <1>2
    <2> DEFINE G == [n \in 0..m + 1 |-> IF n <= m THEN F[n] ELSE leaves \cup Compound(F[m])]
    <2>2. \A n \in 0..m : F[n] = IF n = 0 THEN leaves ELSE leaves \cup Compound(F[n - 1])
      BY <2>1 DEF Levels
    <2>3. \A n \in 0..m + 1 : G[n] = IF n = 0 THEN leaves ELSE leaves \cup Compound(G[n - 1])
      <3> SUFFICES ASSUME NEW n \in 0..m + 1
                   PROVE  G[n] = IF n = 0 THEN leaves ELSE leaves \cup Compound(G[n - 1])
        OBVIOUS
      <3>1. CASE n = 0
        <4>1. 0 \in 0..m + 1 /\ 0 \in 0..m /\ 0 <= m
          OBVIOUS
        <4>2. G[0] = F[0] /\ F[0] = leaves
          BY <2>2, <4>1
        <4> QED
          BY <3>1, <4>2
      <3>2. CASE n # 0 /\ n <= m
        <4>1. n \in 0..m /\ n - 1 \in 0..m + 1 /\ n - 1 <= m
          BY <3>2
        <4>2. G[n] = F[n] /\ G[n - 1] = F[n - 1]
          BY <4>1
        <4> QED
          BY <2>2, <3>2, <4>1, <4>2
      <3>3. CASE n = m + 1
        <4>1. n # 0 /\ n - 1 = m /\ m \in 0..m + 1 /\ ~(n <= m) /\ m <= m
          BY <3>3
        <4>2. G[n] = leaves \cup Compound(F[m]) /\ G[m] = F[m]
          BY <4>1
        <4> QED
          BY <4>1, <4>2
      <3> QED
        BY <3>1, <3>2, <3>3
    <2>4. Levels(G, leaves, m + 1)
      BY <2>3 DEF Levels
    <2> QED
      BY <2>4
  <1> HIDE DEF S
  <1>3. \A m \in Nat : m \in S
    BY <1>1, <1>2, SetInduction
  <1> QED
    BY <1>3 DEF S

LEMMA LevelsAgree ==
  ASSUME NEW leaves, NEW m \in Nat, NEW k \in Nat, NEW F, NEW G,
         Levels(F, leaves, m), Levels(G, leaves, k)
  PROVE  \A n \in Nat : n <= m /\ n <= k => F[n] = G[n]
  <1> DEFINE S == {n \in Nat : n <= m /\ n <= k => F[n] = G[n]}
  <1>1. /\ \A n \in 0..m : F[n] = IF n = 0 THEN leaves ELSE leaves \cup Compound(F[n - 1])
        /\ \A n \in 0..k : G[n] = IF n = 0 THEN leaves ELSE leaves \cup Compound(G[n - 1])
    BY DEF Levels
  <1>2. 0 \in S
    <2>1. 0 \in 0..m /\ 0 \in 0..k
      OBVIOUS
    <2>2. F[0] = leaves /\ G[0] = leaves
      BY <1>1, <2>1
    <2> QED
      BY <2>2
  <1>3. ASSUME NEW n \in Nat, n \in S PROVE n + 1 \in S
    <2> SUFFICES ASSUME n + 1 <= m, n + 1 <= k PROVE F[n + 1] = G[n + 1]
      OBVIOUS
    <2>1. F[n] = G[n]
      BY <1>3
    <2>2. n + 1 \in 0..m /\ n + 1 \in 0..k /\ n + 1 # 0 /\ (n + 1) - 1 = n
      OBVIOUS
    <2> QED
      BY <1>1, <2>1, <2>2
  <1> HIDE DEF S
  <1>4. \A n \in Nat : n \in S
    BY <1>2, <1>3, SetInduction
  <1> QED
    BY <1>4 DEF S

\* What is nested n + 1 deep is a leaf, or made of what is nested n deep.
LEMMA NestedDef ==
  ASSUME NEW leaves
  PROVE  /\ Nested(leaves, 0) = leaves
         /\ \A n \in Nat : Nested(leaves, n + 1) = leaves \cup Compound(Nested(leaves, n))
  <1> DEFINE C == CHOOSE F : F = [n \in Nat |-> IF n = 0 THEN leaves ELSE leaves \cup Compound(F[n - 1])]
             Level(n) == CHOOSE F : Levels(F, leaves, n)
             G == [n \in Nat |-> Level(n)[n]]
  <1>1. \A n \in Nat : Levels(Level(n), leaves, n)
    BY LevelsExist
  <1>2. ASSUME NEW n \in Nat
        PROVE  Level(n + 1)[n] = Level(n)[n]
    <2>1. PICK F, H : /\ F = Level(n + 1) /\ H = Level(n)
                      /\ Levels(F, leaves, n + 1) /\ Levels(H, leaves, n)
      BY <1>1
    <2> HIDE DEF Level
    <2>2. n <= n + 1 /\ n <= n /\ n + 1 \in Nat
      OBVIOUS
    <2>3. F[n] = H[n]
      BY <2>1, <2>2, LevelsAgree
    <2> QED
      BY <2>1, <2>3
  <1>3. ASSUME NEW n \in Nat
        PROVE  Level(n)[n] = IF n = 0 THEN leaves ELSE leaves \cup Compound(Level(n)[n - 1])
    <2>1. PICK F : F = Level(n) /\ Levels(F, leaves, n)
      BY <1>1
    <2> HIDE DEF Level
    <2>2. n \in 0..n
      OBVIOUS
    <2>3. F[n] = IF n = 0 THEN leaves ELSE leaves \cup Compound(F[n - 1])
      BY <2>1, <2>2 DEF Levels
    <2> QED
      BY <2>1, <2>3
  <1> HIDE DEF Level
  <1>4. \A n \in Nat : G[n] = IF n = 0 THEN leaves ELSE leaves \cup Compound(G[n - 1])
    <2> SUFFICES ASSUME NEW n \in Nat
                 PROVE  G[n] = IF n = 0 THEN leaves ELSE leaves \cup Compound(G[n - 1])
      OBVIOUS
    <2>1. CASE n = 0
      BY <1>3, <2>1
    <2>2. CASE n # 0
      <3>1. n - 1 \in Nat /\ (n - 1) + 1 = n
        BY <2>2
      <3>2. Level(n)[n - 1] = Level(n - 1)[n - 1]
        BY <1>2, <3>1
      <3>3. G[n] = Level(n)[n] /\ G[n - 1] = Level(n - 1)[n - 1]
        BY <3>1
      <3> QED
        BY <1>3, <2>2, <3>2, <3>3
    <2> QED
      BY <2>1, <2>2
  <1>5. G = [n \in Nat |-> IF n = 0 THEN leaves ELSE leaves \cup Compound(G[n - 1])]
    BY <1>4
  <1> HIDE DEF G
  <1>6. C = [n \in Nat |-> IF n = 0 THEN leaves ELSE leaves \cup Compound(C[n - 1])]
    BY <1>5
  <1>7. \A n : Nested(leaves, n) = C[n]
    BY DEF Nested
  <1> HIDE DEF C
  <1>8. Nested(leaves, 0) = leaves
    BY <1>6, <1>7
  <1>9. ASSUME NEW n \in Nat
        PROVE  Nested(leaves, n + 1) = leaves \cup Compound(Nested(leaves, n))
    <2>1. n + 1 \in Nat /\ n + 1 # 0 /\ (n + 1) - 1 = n
      OBVIOUS
    <2>2. C[n + 1] = leaves \cup Compound(C[n])
      BY <1>6, <2>1
    <2> QED
      BY <1>7, <2>2
  <1> QED
    BY <1>8, <1>9

IsCompound(tree) == tree.op \in {"and", "or", "not"}

LEMMA CompoundMonotone ==
  ASSUME NEW S, NEW T, S \subseteq T
  PROVE  Compound(S) \subseteq Compound(T)
  <1>1. Seq(S) \subseteq Seq(T)
    OBVIOUS
  <1>2. [{1} -> S] \subseteq [{1} -> T]
    OBVIOUS
  <1> QED
    BY <1>1, <1>2 DEF Compound

LEMMA NestedMonotone ==
  ASSUME NEW leaves, NEW m \in Nat
  PROVE  \A n \in Nat : n <= m => Nested(leaves, n) \subseteq Nested(leaves, m)
  <1> DEFINE S == {k \in Nat : Nested(leaves, k) \subseteq Nested(leaves, k + 1)}
  <1>1. 0 \in S
    BY NestedDef
  <1>2. ASSUME NEW k \in Nat, k \in S PROVE k + 1 \in S
    <2>1. Nested(leaves, k) \subseteq Nested(leaves, k + 1)
      BY <1>2
    <2>2. /\ Nested(leaves, k + 1) = leaves \cup Compound(Nested(leaves, k))
          /\ Nested(leaves, (k + 1) + 1) = leaves \cup Compound(Nested(leaves, k + 1))
      BY NestedDef
    <2>3. Compound(Nested(leaves, k)) \subseteq Compound(Nested(leaves, k + 1))
      BY <2>1, CompoundMonotone
    <2> QED
      BY <2>2, <2>3
  <1> HIDE DEF S
  <1>3. \A k \in Nat : Nested(leaves, k) \subseteq Nested(leaves, k + 1)
    <2>1. \A k \in Nat : k \in S
      BY <1>1, <1>2, SetInduction
    <2> QED
      BY <2>1 DEF S
  <1> DEFINE R == {d \in Nat : \A n \in Nat : Nested(leaves, n) \subseteq Nested(leaves, n + d)}
  <1>4. 0 \in R
    OBVIOUS
  <1>5. ASSUME NEW d \in Nat, d \in R PROVE d + 1 \in R
    <2> SUFFICES ASSUME NEW n \in Nat
                 PROVE  Nested(leaves, n) \subseteq Nested(leaves, n + (d + 1))
      OBVIOUS
    <2>1. n + (d + 1) = (n + d) + 1 /\ n + d \in Nat
      OBVIOUS
    <2>2. Nested(leaves, n) \subseteq Nested(leaves, n + d)
      BY <1>5
    <2> QED
      BY <1>3, <2>1, <2>2
  <1> HIDE DEF R
  <1>6. \A d \in Nat : d \in R
    BY <1>4, <1>5, SetInduction
  <1> SUFFICES ASSUME NEW n \in Nat, n <= m
               PROVE  Nested(leaves, n) \subseteq Nested(leaves, m)
    OBVIOUS
  <1>7. m - n \in Nat /\ n + (m - n) = m
    OBVIOUS
  <1>8. Nested(leaves, n) \subseteq Nested(leaves, n + (m - n))
    BY <1>6, <1>7 DEF R
  <1> QED
    BY <1>7, <1>8

LEMMA NestedLeaves ==
  ASSUME NEW leaves, NEW n \in Nat
  PROVE  leaves \subseteq Nested(leaves, n)
  BY NestedDef, NestedMonotone

\* More leaves, more trees.
LEMMA NestedMoreLeaves ==
  ASSUME NEW fewer, NEW leaves, fewer \subseteq leaves
  PROVE  \A n \in Nat : Nested(fewer, n) \subseteq Nested(leaves, n)
  <1> DEFINE S == {n \in Nat : Nested(fewer, n) \subseteq Nested(leaves, n)}
  <1>1. 0 \in S
    BY NestedDef
  <1>2. ASSUME NEW n \in Nat, n \in S PROVE n + 1 \in S
    <2>1. Compound(Nested(fewer, n)) \subseteq Compound(Nested(leaves, n))
      BY <1>2, CompoundMonotone
    <2>2. /\ Nested(fewer, n + 1) = fewer \cup Compound(Nested(fewer, n))
          /\ Nested(leaves, n + 1) = leaves \cup Compound(Nested(leaves, n))
      BY NestedDef
    <2> QED
      BY <2>1, <2>2
  <1> HIDE DEF S
  <1>3. \A n \in Nat : n \in S
    BY <1>1, <1>2, SetInduction
  <1> QED
    BY <1>3 DEF S

\* A compound tree has children that are nested less deep, any other is a leaf.
LEMMA NestedParts ==
  ASSUME NEW leaves, \A leaf \in leaves : ~IsCompound(leaf),
         NEW n \in Nat, NEW tree \in Nested(leaves, n)
  PROVE  /\ ~IsCompound(tree) => tree \in leaves
         /\ IsCompound(tree) =>
               /\ n - 1 \in Nat
               /\ tree \in Compound(Nested(leaves, n - 1))
               /\ \A i \in DOMAIN tree.children : tree.children[i] \in Nested(leaves, n - 1)
               /\ tree.op = "not" => 1 \in DOMAIN tree.children
  <1>1. CASE tree \in leaves
    BY <1>1
  <1>2. CASE tree \notin leaves
    <2>1. n # 0
      BY <1>2, NestedDef
    <2>2. PICK m \in Nat : n = m + 1 /\ m = n - 1
      BY <2>1
    <2>3. tree \in Compound(Nested(leaves, m))
      BY <1>2, <2>2, NestedDef
    <2> DEFINE T == Nested(leaves, m)
    <2>4. tree \in [op : {"and", "or"}, children : Seq(T)] \cup [op : {"not"}, children : [{1} -> T]]
      BY <2>3 DEF Compound
    <2> HIDE DEF T
    <2>5. IsCompound(tree)
      BY <2>4 DEF IsCompound
    <2>6. \A i \in DOMAIN tree.children : tree.children[i] \in T
      BY <2>4
    <2>7. tree.op = "not" => 1 \in DOMAIN tree.children
      BY <2>4
    <2> QED
      BY <2>2, <2>3, <2>5, <2>6, <2>7 DEF T
  <1> QED
    BY <1>1, <1>2

-------------------------------------------------------------------------------
\* PredicateHints: what the recursive definitions say

LEMMA TestsAreLeaves ==
  /\ \A test \in Tests : ~IsCompound(test)
  /\ \A test \in HintTests : ~IsCompound(test)
  BY DEF Tests, Comparisons, HintTests, NullHint, IsCompound

\* Each definition's right-hand side, with F for the function it defines.
ParsedFrom(F, expr) ==
    IF expr.op \in {"and", "or"}
    THEN Hint(expr.op, [i \in DOMAIN expr.children |-> F[expr.children[i]]])
    ELSE TestHint(expr)

SqlFrom(F, expr) == [row \in PossibleRows |->
    LET all == {F[expr.children[i]][row] : i \in DOMAIN expr.children}
    IN  CASE expr.op = "and" -> Conj(all)
          [] expr.op = "or"  -> Disj(all)
          [] expr.op = "not" -> Neg(F[expr.children[1]][row])
          [] OTHER           -> SqlTest(expr, row)]

TakenFrom(F, hint) == [row \in PossibleRows |->
    LET choices == {f \in [DOMAIN hint.children -> Truths] :
                       \A i \in DOMAIN f : f[i] \in F[hint.children[i]][row]}
    IN  CASE hint.op = "not" -> {Neg(t) : t \in F[hint.children[1]][row]}
          [] hint.op = "and" -> {Conj({f[i] : i \in DOMAIN f}) : f \in choices}
          [] hint.op = "or"  -> {Disj({f[i] : i \in DOMAIN f}) : f \in choices}
          [] OTHER           -> TestTakenFor(hint, row)]

\* They look at a tree's children only, and only if it is compound.
Alike(F, G, tree) ==
    IsCompound(tree) =>
        /\ \A i \in DOMAIN tree.children : F[tree.children[i]] = G[tree.children[i]]
        /\ tree.op = "not" => 1 \in DOMAIN tree.children

LEMMA ParsedAlike ==
  ASSUME NEW F, NEW G, NEW expr, Alike(F, G, expr)
  PROVE  ParsedFrom(F, expr) = ParsedFrom(G, expr)
  <1>1. CASE expr.op \in {"and", "or"}
    <2>1. [i \in DOMAIN expr.children |-> F[expr.children[i]]]
            = [i \in DOMAIN expr.children |-> G[expr.children[i]]]
      BY <1>1 DEF Alike, IsCompound
    <2> QED
      BY <1>1, <2>1 DEF ParsedFrom
  <1>2. CASE expr.op \notin {"and", "or"}
    BY <1>2 DEF ParsedFrom
  <1> QED
    BY <1>1, <1>2

LEMMA SqlAlike ==
  ASSUME NEW F, NEW G, NEW expr, Alike(F, G, expr)
  PROVE  SqlFrom(F, expr) = SqlFrom(G, expr)
  <1>1. CASE IsCompound(expr)
    <2>1. \A row : {F[expr.children[i]][row] : i \in DOMAIN expr.children}
                     = {G[expr.children[i]][row] : i \in DOMAIN expr.children}
      BY <1>1 DEF Alike
    <2>2. expr.op = "not" => F[expr.children[1]] = G[expr.children[1]]
      BY <1>1 DEF Alike
    <2> QED
      BY <2>1, <2>2 DEF SqlFrom
  <1>2. CASE ~IsCompound(expr)
    BY <1>2 DEF SqlFrom, IsCompound
  <1> QED
    BY <1>1, <1>2

LEMMA TakenAlike ==
  ASSUME NEW F, NEW G, NEW hint, Alike(F, G, hint)
  PROVE  TakenFrom(F, hint) = TakenFrom(G, hint)
  <1>1. CASE IsCompound(hint)
    <2>1. \A row : {f \in [DOMAIN hint.children -> Truths] :
                       \A i \in DOMAIN f : f[i] \in F[hint.children[i]][row]}
                   = {f \in [DOMAIN hint.children -> Truths] :
                       \A i \in DOMAIN f : f[i] \in G[hint.children[i]][row]}
      BY <1>1 DEF Alike
    <2>2. hint.op = "not" => F[hint.children[1]] = G[hint.children[1]]
      BY <1>1 DEF Alike
    <2> QED
      BY <2>1, <2>2 DEF TakenFrom
  <1>2. CASE ~IsCompound(hint)
    BY <1>2 DEF TakenFrom, IsCompound
  <1> QED
    BY <1>1, <1>2

LEMMA AgreeBelow ==
  ASSUME NEW leaves, \A leaf \in leaves : ~IsCompound(leaf), NEW n \in Nat,
         NEW F, NEW G, \A tree \in Nested(leaves, n) : F[tree] = G[tree]
  PROVE  \A tree \in Nested(leaves, n + 1) : Alike(F, G, tree)
  <1> SUFFICES ASSUME NEW tree \in Nested(leaves, n + 1), IsCompound(tree)
               PROVE  /\ \A i \in DOMAIN tree.children : F[tree.children[i]] = G[tree.children[i]]
                      /\ tree.op = "not" => 1 \in DOMAIN tree.children
    BY DEF Alike
  <1>1. n + 1 \in Nat /\ (n + 1) - 1 = n
    OBVIOUS
  <1>2. /\ \A i \in DOMAIN tree.children : tree.children[i] \in Nested(leaves, n)
        /\ tree.op = "not" => 1 \in DOMAIN tree.children
    BY <1>1, NestedParts
  <1> QED
    BY <1>2

LEMMA ParseDef ==
  \A tree \in Expressions : ParseParsedExpressionHint[tree] = ParsedFrom(ParseParsedExpressionHint, tree)
  <1> DEFINE S == {n \in Nat : n <= Nesting =>
                        \E F : \A tree \in Nested(Tests, n) : F[tree] = ParsedFrom(F, tree)}
  <1>0. Nesting \in Nat /\ Expressions = Nested(Tests, Nesting)
    BY PredicateHintsAssumption DEF Expressions
  <1>1. 0 \in S
    <2> DEFINE F == [tree \in Tests |-> ParsedFrom(<<>>, tree)]
    <2>1. \A tree \in Tests : ParsedFrom(<<>>, tree) = ParsedFrom(F, tree)
      BY TestsAreLeaves, ParsedAlike DEF Alike
    <2>2. \A tree \in Tests : F[tree] = ParsedFrom(F, tree)
      BY <2>1
    <2> HIDE DEF F
    <2>3. \A tree \in Nested(Tests, 0) : F[tree] = ParsedFrom(F, tree)
      BY <2>2, NestedDef
    <2> QED
      BY <2>3
  <1>2. ASSUME NEW n \in Nat, n \in S PROVE n + 1 \in S
    <2> SUFFICES ASSUME n + 1 <= Nesting
                 PROVE  \E F : \A tree \in Nested(Tests, n + 1) : F[tree] = ParsedFrom(F, tree)
      OBVIOUS
    <2>1. PICK F : \A tree \in Nested(Tests, n) : F[tree] = ParsedFrom(F, tree)
      BY <1>0, <1>2
    <2> DEFINE G == [tree \in Nested(Tests, n + 1) |-> ParsedFrom(F, tree)]
    <2>2. \A tree \in Nested(Tests, n) : F[tree] = G[tree]
      <3>1. Nested(Tests, n) \subseteq Nested(Tests, n + 1)
        BY NestedMonotone
      <3> QED
        BY <2>1, <3>1
    <2> HIDE DEF G
    <2>3. \A tree \in Nested(Tests, n + 1) : ParsedFrom(F, tree) = ParsedFrom(G, tree)
      BY <2>2, TestsAreLeaves, AgreeBelow, ParsedAlike
    <2>4. \A tree \in Nested(Tests, n + 1) : G[tree] = ParsedFrom(G, tree)
      BY <2>3 DEF G
    <2> QED
      BY <2>4
  <1> HIDE DEF S
  <1>3. Nesting \in S
    BY <1>0, <1>1, <1>2, SetInduction
  <1>4. PICK F : \A tree \in Nested(Tests, Nesting) : F[tree] = ParsedFrom(F, tree)
    BY <1>0, <1>3 DEF S
  <1> DEFINE G == [tree \in Expressions |-> F[tree]]
  <1>5. \A tree \in Nested(Tests, Nesting) : F[tree] = G[tree]
    BY <1>0
  <1> HIDE DEF G
  <1>6. \A tree \in Expressions : ParsedFrom(F, tree) = ParsedFrom(G, tree)
    <2>1. Nested(Tests, Nesting) \subseteq Nested(Tests, Nesting + 1)
      BY <1>0, NestedMonotone
    <2> QED
      BY <1>0, <1>5, <2>1, TestsAreLeaves, AgreeBelow, ParsedAlike
  <1>7. G = [tree \in Expressions |-> ParsedFrom(G, tree)]
    BY <1>0, <1>4, <1>5, <1>6 DEF G
  <1>8. \E H : H = [tree \in Expressions |-> ParsedFrom(H, tree)]
    BY <1>7
  <1>9. ParseParsedExpressionHint = CHOOSE H : H = [tree \in Expressions |-> ParsedFrom(H, tree)]
    BY Zenon DEF ParseParsedExpressionHint, ParsedFrom
  <1>10. ParseParsedExpressionHint = [tree \in Expressions |-> ParsedFrom(ParseParsedExpressionHint, tree)]
    BY <1>8, <1>9, Zenon
  <1> QED
    BY <1>10

LEMMA SqlDef ==
  \A tree \in Expressions : Sql[tree] = SqlFrom(Sql, tree)
  <1> DEFINE S == {n \in Nat : n <= Nesting =>
                        \E F : \A tree \in Nested(Tests, n) : F[tree] = SqlFrom(F, tree)}
  <1>0. Nesting \in Nat /\ Expressions = Nested(Tests, Nesting)
    BY PredicateHintsAssumption DEF Expressions
  <1>1. 0 \in S
    <2> DEFINE F == [tree \in Tests |-> SqlFrom(<<>>, tree)]
    <2>1. \A tree \in Tests : SqlFrom(<<>>, tree) = SqlFrom(F, tree)
      BY TestsAreLeaves, SqlAlike DEF Alike
    <2>2. \A tree \in Tests : F[tree] = SqlFrom(F, tree)
      BY <2>1
    <2> HIDE DEF F
    <2>3. \A tree \in Nested(Tests, 0) : F[tree] = SqlFrom(F, tree)
      BY <2>2, NestedDef
    <2> QED
      BY <2>3
  <1>2. ASSUME NEW n \in Nat, n \in S PROVE n + 1 \in S
    <2> SUFFICES ASSUME n + 1 <= Nesting
                 PROVE  \E F : \A tree \in Nested(Tests, n + 1) : F[tree] = SqlFrom(F, tree)
      OBVIOUS
    <2>1. PICK F : \A tree \in Nested(Tests, n) : F[tree] = SqlFrom(F, tree)
      BY <1>0, <1>2
    <2> DEFINE G == [tree \in Nested(Tests, n + 1) |-> SqlFrom(F, tree)]
    <2>2. \A tree \in Nested(Tests, n) : F[tree] = G[tree]
      <3>1. Nested(Tests, n) \subseteq Nested(Tests, n + 1)
        BY NestedMonotone
      <3> QED
        BY <2>1, <3>1
    <2> HIDE DEF G
    <2>3. \A tree \in Nested(Tests, n + 1) : SqlFrom(F, tree) = SqlFrom(G, tree)
      BY <2>2, TestsAreLeaves, AgreeBelow, SqlAlike
    <2>4. \A tree \in Nested(Tests, n + 1) : G[tree] = SqlFrom(G, tree)
      BY <2>3 DEF G
    <2> QED
      BY <2>4
  <1> HIDE DEF S
  <1>3. Nesting \in S
    BY <1>0, <1>1, <1>2, SetInduction
  <1>4. PICK F : \A tree \in Nested(Tests, Nesting) : F[tree] = SqlFrom(F, tree)
    BY <1>0, <1>3 DEF S
  <1> DEFINE G == [tree \in Expressions |-> F[tree]]
  <1>5. \A tree \in Nested(Tests, Nesting) : F[tree] = G[tree]
    BY <1>0
  <1> HIDE DEF G
  <1>6. \A tree \in Expressions : SqlFrom(F, tree) = SqlFrom(G, tree)
    <2>1. Nested(Tests, Nesting) \subseteq Nested(Tests, Nesting + 1)
      BY <1>0, NestedMonotone
    <2> QED
      BY <1>0, <1>5, <2>1, TestsAreLeaves, AgreeBelow, SqlAlike
  <1>7. G = [tree \in Expressions |-> SqlFrom(G, tree)]
    BY <1>0, <1>4, <1>5, <1>6 DEF G
  <1>8. \E H : H = [tree \in Expressions |-> SqlFrom(H, tree)]
    BY <1>7
  <1>9. Sql = CHOOSE H : H = [tree \in Expressions |-> SqlFrom(H, tree)]
    BY Zenon DEF Sql, SqlFrom
  <1>10. Sql = [tree \in Expressions |-> SqlFrom(Sql, tree)]
    BY <1>8, <1>9, Zenon
  <1> QED
    BY <1>10

LEMMA TakenDef ==
  \A tree \in Hints : TakenFor[tree] = TakenFrom(TakenFor, tree)
  <1> DEFINE S == {n \in Nat : n <= (Nesting + 2) =>
                        \E F : \A tree \in Nested(HintTests, n) : F[tree] = TakenFrom(F, tree)}
  <1>0. (Nesting + 2) \in Nat /\ Hints = Nested(HintTests, (Nesting + 2))
    BY PredicateHintsAssumption DEF Hints
  <1>1. 0 \in S
    <2> DEFINE F == [tree \in HintTests |-> TakenFrom(<<>>, tree)]
    <2>1. \A tree \in HintTests : TakenFrom(<<>>, tree) = TakenFrom(F, tree)
      BY TestsAreLeaves, TakenAlike DEF Alike
    <2>2. \A tree \in HintTests : F[tree] = TakenFrom(F, tree)
      BY <2>1
    <2> HIDE DEF F
    <2>3. \A tree \in Nested(HintTests, 0) : F[tree] = TakenFrom(F, tree)
      BY <2>2, NestedDef
    <2> QED
      BY <2>3
  <1>2. ASSUME NEW n \in Nat, n \in S PROVE n + 1 \in S
    <2> SUFFICES ASSUME n + 1 <= (Nesting + 2)
                 PROVE  \E F : \A tree \in Nested(HintTests, n + 1) : F[tree] = TakenFrom(F, tree)
      OBVIOUS
    <2>1. PICK F : \A tree \in Nested(HintTests, n) : F[tree] = TakenFrom(F, tree)
      BY <1>0, <1>2
    <2> DEFINE G == [tree \in Nested(HintTests, n + 1) |-> TakenFrom(F, tree)]
    <2>2. \A tree \in Nested(HintTests, n) : F[tree] = G[tree]
      <3>1. Nested(HintTests, n) \subseteq Nested(HintTests, n + 1)
        BY NestedMonotone
      <3> QED
        BY <2>1, <3>1
    <2> HIDE DEF G
    <2>3. \A tree \in Nested(HintTests, n + 1) : TakenFrom(F, tree) = TakenFrom(G, tree)
      BY <2>2, TestsAreLeaves, AgreeBelow, TakenAlike
    <2>4. \A tree \in Nested(HintTests, n + 1) : G[tree] = TakenFrom(G, tree)
      BY <2>3 DEF G
    <2> QED
      BY <2>4
  <1> HIDE DEF S
  <1>3. (Nesting + 2) \in S
    BY <1>0, <1>1, <1>2, SetInduction
  <1>4. PICK F : \A tree \in Nested(HintTests, (Nesting + 2)) : F[tree] = TakenFrom(F, tree)
    BY <1>0, <1>3 DEF S
  <1> DEFINE G == [tree \in Hints |-> F[tree]]
  <1>5. \A tree \in Nested(HintTests, (Nesting + 2)) : F[tree] = G[tree]
    BY <1>0
  <1> HIDE DEF G
  <1>6. \A tree \in Hints : TakenFrom(F, tree) = TakenFrom(G, tree)
    <2>1. Nested(HintTests, (Nesting + 2)) \subseteq Nested(HintTests, (Nesting + 2) + 1)
      BY <1>0, NestedMonotone
    <2> QED
      BY <1>0, <1>5, <2>1, TestsAreLeaves, AgreeBelow, TakenAlike
  <1>7. G = [tree \in Hints |-> TakenFrom(G, tree)]
    BY <1>0, <1>4, <1>5, <1>6 DEF G
  <1>8. \E H : H = [tree \in Hints |-> TakenFrom(H, tree)]
    BY <1>7
  <1>9. TakenFor = CHOOSE H : H = [tree \in Hints |-> TakenFrom(H, tree)]
    BY Zenon DEF TakenFor, TakenFrom
  <1>10. TakenFor = [tree \in Hints |-> TakenFrom(TakenFor, tree)]
    BY <1>8, <1>9, Zenon
  <1> QED
    BY <1>10

-------------------------------------------------------------------------------
\* PredicateHints: single tests

LEMMA TruthsClosed ==
  /\ \A holds \in BOOLEAN : Truth(holds) \in Truths
  /\ \A t : Neg(t) \in Truths
  /\ \A ts : Conj(ts) \in Truths /\ Disj(ts) \in Truths
  BY DEF Truth, Neg, Conj, Disj, Truths

LEMMA OperandHint ==
  ASSUME NEW x \in Operands
  PROVE  ParsedOperandJSON(x) \in HintOperands
  <1>1. CASE x.op = "column"
    <2>1. x.name \in Columns
      BY <1>1 DEF Operands, Constant
    <2> QED
      BY <1>1, <2>1 DEF ParsedOperandJSON, HintOperands
  <1>2. CASE x.op = "constant"
    <2>1. x.value \in Values \cup {Null}
      BY <1>2 DEF Operands, Constant
    <2>2. ValueType(x.type) \in {"int", "string"}
      BY DEF ValueType
    <2> QED
      BY <1>2, <2>1, <2>2 DEF ParsedOperandJSON, HintOperands
  <1>3. CASE x.op \notin {"column", "constant"}
    BY <1>3 DEF ParsedOperandJSON, HintOperands
  <1> QED
    BY <1>1, <1>2, <1>3

\* A leaf that a server can read: a column, called a text, or a literal.
LEMMA OperandRead ==
  ASSUME NEW x \in Operands, NEW row \in PossibleRows, ParsedOperandJSON(x) # NullHint
  PROVE  /\ Leaf(ParsedOperandJSON(x), row) = Operand(x, row)
         /\ ParsedOperandJSON(x).valueType \in {"int", "string"}
         /\ ParsedOperandJSON(x).valueType = "string" => CalledText(x)
         /\ ParsedOperandJSON(x).valueType = "int" => ~IsText(x)
  <1>1. CASE x.op = "column"
    BY <1>1 DEF ParsedOperandJSON, Leaf, Operand, CalledText
  <1>2. CASE x.op = "constant"
    <2>1. ValueType(x.type) = "int" => x.type = "number"
      BY DEF ValueType
    <2>2. ValueType(x.type) \in {"int", "string"}
      BY DEF ValueType
    <2> QED
      BY <1>2, <2>1, <2>2 DEF ParsedOperandJSON, Leaf, Operand, CalledText, IsText
  <1>3. CASE x.op \notin {"column", "constant"}
    BY <1>3 DEF ParsedOperandJSON
  <1> QED
    BY <1>1, <1>2, <1>3

\* A comparison of two values that are not NULL may be taken for what SQL says of it,
\* unless they are called texts and compared as numbers.
LEMMA ComparisonTaken ==
  ASSUME NEW x \in Operands, NEW y \in Operands, NEW row \in PossibleRows,
         NEW op \in Comparisons, NEW texts \in BOOLEAN,
         CalledText(x) /\ CalledText(y) => texts,
         texts => IsText(x) /\ IsText(y),
         Null \notin {Operand(x, row), Operand(y, row)},
         NEW hint, hint = Hint(op, <<ParsedOperandJSON(x), ParsedOperandJSON(y)>>)
  PROVE  SqlCompare(texts, op, Operand(x, row), Operand(y, row)) \in TestTakenFor(hint, row)
  <1>1. PICK left, right : left = ParsedOperandJSON(x) /\ right = ParsedOperandJSON(y)
    OBVIOUS
  <1>2. hint.op = op /\ hint.children[1] = left /\ hint.children[2] = right
    BY <1>1 DEF Hint
  <1>3. op # "isNull"
    BY DEF Comparisons
  <1>4. CASE Readable(left, right)
    <2>1. left # NullHint /\ right # NullHint /\ left.valueType = right.valueType
      BY <1>4 DEF Readable
    <2>2. /\ Leaf(left, row) = Operand(x, row)
          /\ left.valueType \in {"int", "string"}
          /\ left.valueType = "string" => CalledText(x)
          /\ left.valueType = "int" => ~IsText(x)
      BY <1>1, <2>1, OperandRead
    <2>3. /\ Leaf(right, row) = Operand(y, row)
          /\ right.valueType = "string" => CalledText(y)
      BY <1>1, <2>1, OperandRead
    <2>4. (left.valueType = "string") <=> texts
      BY <2>1, <2>2, <2>3
    <2>5. Leaf(left, row) # Null /\ Leaf(right, row) # Null
      BY <2>2, <2>3
    <2>6. ReadAs(hint, row)
             = Truth(ComparedAs(left.valueType = "string", op, Leaf(left, row), Leaf(right, row)))
      BY <1>2, <2>5 DEF ReadAs
    <2>7. ComparedAs(left.valueType = "string", op, Leaf(left, row), Leaf(right, row))
             = ComparedAs(texts, op, Operand(x, row), Operand(y, row))
      BY <2>2, <2>3, <2>4 DEF ComparedAs
    <2>8. SqlCompare(texts, op, Operand(x, row), Operand(y, row)) = ReadAs(hint, row)
      BY <2>6, <2>7 DEF SqlCompare
    <2>9. TestTakenFor(hint, row) = {ReadAs(hint, row)}
      BY <1>2, <1>3, <1>4 DEF TestTakenFor
    <2> QED
      BY <2>8, <2>9
  <1>5. CASE ~Readable(left, right)
    <2>1. TestTakenFor(hint, row) = Truths
      BY <1>2, <1>3, <1>5 DEF TestTakenFor
    <2>2. SqlCompare(texts, op, Operand(x, row), Operand(y, row)) \in Truths
      BY DEF SqlCompare, Truth, Truths
    <2> QED
      BY <2>1, <2>2
  <1> QED
    BY <1>4, <1>5

\* The same of a test for NULL.
LEMMA NullTestTaken ==
  ASSUME NEW x \in Operands, NEW row \in PossibleRows,
         NEW hint, hint = Hint("isNull", <<ParsedOperandJSON(x)>>)
  PROVE  Truth(Operand(x, row) = Null) \in TestTakenFor(hint, row)
  <1>1. hint.op = "isNull" /\ hint.children[1] = ParsedOperandJSON(x)
    BY DEF Hint
  <1>2. "isNull" \notin Comparisons
    BY DEF Comparisons
  <1>3. CASE x.op = "column"
    <2>1. /\ ParsedOperandJSON(x).op = "column" /\ ParsedOperandJSON(x).name = x.name
          /\ Operand(x, row) = row[x.name]
      BY <1>3 DEF ParsedOperandJSON, Operand
    <2> QED
      BY <1>1, <1>2, <2>1 DEF TestTakenFor
  <1>4. CASE x.op # "column"
    <2>1. ParsedOperandJSON(x).op # "column"
      BY <1>4 DEF ParsedOperandJSON, NullHint
    <2>2. TestTakenFor(hint, row) = Truths
      BY <1>1, <1>2, <2>1 DEF TestTakenFor
    <2> QED
      BY <2>2 DEF Truth, Truths
  <1> QED
    BY <1>3, <1>4

-------------------------------------------------------------------------------
\* PredicateHints: hints and what they may be taken for

\* A test becomes a leaf, or one level more.
LEMMA TestHintType ==
  ASSUME NEW test \in Tests
  PROVE  TestHint(test) \in HintTests \cup Compound(HintTests)
  <1>1. NullHint \in HintTests
    BY DEF HintTests
  <1>2. ASSUME NEW h \in HintTests
        PROVE  Hint("not", <<h>>) \in Compound(HintTests)
    <2>1. <<h>> \in [{1} -> HintTests]
      OBVIOUS
    <2> QED
      BY <2>1 DEF Compound, Hint
  <1>3. ASSUME NEW h \in HintTests, NEW g \in HintTests
        PROVE  Hint("and", <<h, g>>) \in Compound(HintTests)
    <2>1. <<h, g>> \in Seq(HintTests)
      OBVIOUS
    <2> QED
      BY <2>1 DEF Compound, Hint
  <1>4. ASSUME NEW op \in Comparisons, NEW x \in Operands, NEW y \in Operands
        PROVE  Hint(op, <<ParsedOperandJSON(x), ParsedOperandJSON(y)>>) \in HintTests
    <2>1. ParsedOperandJSON(x) \in HintOperands /\ ParsedOperandJSON(y) \in HintOperands
      BY OperandHint
    <2>2. <<ParsedOperandJSON(x), ParsedOperandJSON(y)>> \in [1..2 -> HintOperands]
      BY <2>1
    <2> QED
      BY <2>2 DEF HintTests, Hint
  <1>5. ASSUME NEW x \in Operands
        PROVE  Hint("isNull", <<ParsedOperandJSON(x)>>) \in HintTests
    <2>1. ParsedOperandJSON(x) \in HintOperands
      BY OperandHint
    <2>2. <<ParsedOperandJSON(x)>> \in [{1} -> HintOperands]
      BY <2>1
    <2> QED
      BY <2>2 DEF HintTests, Hint
  <1>6. CASE test.op \in Comparisons
    <2>1. test.children[1] \in Operands /\ test.children[2] \in Operands
      BY <1>6 DEF Tests, Comparisons
    <2>2. "equal" \in Comparisons
      BY DEF Comparisons
    <2>3. ParsedBinaryOpJSON(test, "equal") \in HintTests
      BY <1>4, <2>1, <2>2 DEF ParsedBinaryOpJSON
    <2>4. ParsedBinaryOpJSON(test, test.op) \in HintTests
      BY <1>4, <1>6, <2>1 DEF ParsedBinaryOpJSON
    <2>5. TestHint(test) = ComparisonHint(test)
      BY <1>6 DEF TestHint, Comparisons
    <2> QED
      BY <1>2, <2>3, <2>4, <2>5 DEF ComparisonHint
  <1>7. CASE test.op \in {"isNull", "isNotNull"}
    <2>1. test.children[1] \in Operands
      BY <1>7 DEF Tests, Comparisons
    <2>2. IsNullHint(test) \in HintTests
      BY <1>5, <2>1 DEF IsNullHint
    <2>3. TestHint(test) \in {IsNullHint(test), Hint("not", <<IsNullHint(test)>>)}
      BY <1>7 DEF TestHint, Comparisons
    <2> QED
      BY <1>2, <2>2, <2>3
  <1>8. CASE test.op = "between"
    <2>1. /\ test.children[1] \in Operands /\ test.children[2] \in Operands
          /\ test.children[3] \in Operands
      BY <1>8 DEF Tests, Comparisons
    <2>2. "greaterThanOrEqual" \in Comparisons /\ "lessThanOrEqual" \in Comparisons
      BY DEF Comparisons
    <2>3. TestHint(test) = BetweenHint(test)
      BY <1>8 DEF TestHint, Comparisons
    <2>4. PICK h, g : /\ h = Hint("greaterThanOrEqual", <<ParsedOperandJSON(test.children[1]),
                                                         ParsedOperandJSON(test.children[2])>>)
                      /\ g = Hint("lessThanOrEqual", <<ParsedOperandJSON(test.children[1]),
                                                       ParsedOperandJSON(test.children[3])>>)
      OBVIOUS
    <2>5. h \in HintTests /\ g \in HintTests
      BY <1>4, <2>1, <2>2, <2>4
    <2>6. BetweenHint(test) = Hint("and", <<h, g>>)
      BY <2>4 DEF BetweenHint
    <2> QED
      BY <1>3, <2>3, <2>5, <2>6
  <1>9. test.op \in Comparisons \cup {"isNull", "isNotNull", "between"}
    BY DEF Tests
  <1> QED
    BY <1>6, <1>7, <1>8, <1>9

\* An expression becomes a hint that is nested by one level more at most.
LEMMA ParsedNesting ==
  \A n \in Nat : n <= Nesting =>
      \A expr \in Nested(Tests, n) :
          ParseParsedExpressionHint[expr] \in Nested(HintTests, n + 1)
  <1> DEFINE P == ParseParsedExpressionHint
             S == {n \in Nat : n <= Nesting =>
                        \A expr \in Nested(Tests, n) : P[expr] \in Nested(HintTests, n + 1)}
  <1>1. Nesting \in Nat /\ Expressions = Nested(Tests, Nesting)
    BY PredicateHintsAssumption DEF Expressions
  <1>2. \A n \in Nat : n <= Nesting => Nested(Tests, n) \subseteq Expressions
    BY <1>1, NestedMonotone
  <1>3. \A expr \in Expressions : P[expr] = ParsedFrom(P, expr)
    BY ParseDef
  <1> HIDE DEF P
  <1>4. ASSUME NEW n \in Nat, NEW test \in Tests
        PROVE  TestHint(test) \in Nested(HintTests, n + 1)
    <2>1. Nested(HintTests, n + 1) = HintTests \cup Compound(Nested(HintTests, n))
      BY NestedDef
    <2>2. Compound(HintTests) \subseteq Compound(Nested(HintTests, n))
      BY NestedLeaves, CompoundMonotone
    <2> QED
      BY <2>1, <2>2, TestHintType
  <1>5. ASSUME NEW test \in Tests
        PROVE  ParsedFrom(P, test) = TestHint(test)
    <2>1. test.op \notin {"and", "or"}
      BY TestsAreLeaves DEF IsCompound
    <2> QED
      BY <2>1 DEF ParsedFrom
  <1>6. 0 \in S
    <2>1. Nested(Tests, 0) = Tests
      BY NestedDef
    <2> QED
      BY <1>1, <1>2, <1>3, <1>4, <1>5, <2>1
  <1>7. ASSUME NEW n \in Nat, n \in S PROVE n + 1 \in S
    <2> SUFFICES ASSUME n + 1 <= Nesting, NEW expr \in Nested(Tests, n + 1)
                 PROVE  P[expr] \in Nested(HintTests, (n + 1) + 1)
      OBVIOUS
    <2>1. P[expr] = ParsedFrom(P, expr)
      BY <1>2, <1>3
    <2>2. n + 1 \in Nat /\ (n + 1) - 1 = n
      OBVIOUS
    <2>3. /\ ~IsCompound(expr) => expr \in Tests
          /\ IsCompound(expr) => expr \in Compound(Nested(Tests, n))
      BY <2>2, TestsAreLeaves, NestedParts
    <2>4. Nested(HintTests, (n + 1) + 1) = HintTests \cup Compound(Nested(HintTests, n + 1))
      BY <2>2, NestedDef
    <2>5. CASE ~IsCompound(expr)
      BY <1>4, <1>5, <2>1, <2>2, <2>3, <2>5
    <2>6. CASE expr.op = "not"
      <3>1. P[expr] = NullHint
        BY <2>1, <2>6 DEF ParsedFrom, TestHint, Comparisons
      <3> QED
        BY <2>4, <3>1 DEF HintTests
    <2>7. CASE expr.op \in {"and", "or"}
      <3>1. expr.children \in Seq(Nested(Tests, n))
        BY <2>3, <2>7 DEF IsCompound, Compound
      <3> DEFINE children == [i \in DOMAIN expr.children |-> P[expr.children[i]]]
      <3>2. \A e \in Nested(Tests, n) : P[e] \in Nested(HintTests, n + 1)
        BY <1>1, <1>7
      <3>3. children \in Seq(Nested(HintTests, n + 1))
        BY <3>1, <3>2
      <3>4. P[expr] = Hint(expr.op, children)
        BY <2>1, <2>7 DEF ParsedFrom
      <3> HIDE DEF children
      <3>5. Hint(expr.op, children) \in Compound(Nested(HintTests, n + 1))
        BY <2>7, <3>3 DEF Compound, Hint
      <3> QED
        BY <2>4, <3>4, <3>5
    <2> QED
      BY <2>5, <2>6, <2>7 DEF IsCompound
  <1> HIDE DEF S
  <1>8. \A n \in Nat : n \in S
    BY <1>6, <1>7, SetInduction
  <1> QED
    BY <1>8 DEF S, P

\* What a hint is taken for is a truth, and there is always one.
LEMMA TakenSome ==
  \A hint \in Hints, row \in PossibleRows :
      TakenFor[hint][row] \subseteq Truths /\ TakenFor[hint][row] # {}
  <1> DEFINE Some(hint) == \A row \in PossibleRows :
                              TakenFor[hint][row] \subseteq Truths /\ TakenFor[hint][row] # {}
             S == {n \in Nat : n <= Nesting + 2 => \A hint \in Nested(HintTests, n) : Some(hint)}
  <1>1. Nesting \in Nat /\ Nesting + 2 \in Nat /\ Hints = Nested(HintTests, Nesting + 2)
    BY PredicateHintsAssumption DEF Hints
  <1>2. \A n \in Nat : n <= Nesting + 2 => Nested(HintTests, n) \subseteq Hints
    BY <1>1, NestedMonotone
  <1>3. \A hint \in Hints : TakenFor[hint] = TakenFrom(TakenFor, hint)
    BY TakenDef
  <1>4. ASSUME NEW hint \in Hints, ~IsCompound(hint) PROVE Some(hint)
    <2> TAKE row \in PossibleRows
    <2>1. TakenFor[hint][row] = TestTakenFor(hint, row)
      BY <1>3, <1>4 DEF TakenFrom, IsCompound
    <2>2. ReadAs(hint, row) \in Truths
      BY DEF ReadAs, Truth, Truths
    <2> QED
      BY <2>1, <2>2 DEF TestTakenFor, Truth, Truths
  <1>5. 0 \in S
    <2>1. Nested(HintTests, 0) = HintTests
      BY NestedDef
    <2> QED
      BY <1>1, <1>2, <1>4, <2>1, TestsAreLeaves
  <1>6. ASSUME NEW n \in Nat, n \in S PROVE n + 1 \in S
    <2> SUFFICES ASSUME n + 1 <= Nesting + 2, NEW hint \in Nested(HintTests, n + 1)
                 PROVE  Some(hint)
      OBVIOUS
    <2>1. hint \in Hints /\ n + 1 \in Nat /\ (n + 1) - 1 = n
      BY <1>2
    <2>2. IsCompound(hint) =>
             /\ \A i \in DOMAIN hint.children : hint.children[i] \in Nested(HintTests, n)
             /\ hint.op = "not" => 1 \in DOMAIN hint.children
      BY <2>1, TestsAreLeaves, NestedParts
    <2>3. IsCompound(hint) => \A i \in DOMAIN hint.children : Some(hint.children[i])
      <3>1. \A part \in Nested(HintTests, n) : Some(part)
        BY <1>1, <1>6
      <3> HIDE DEF Some
      <3> QED
        BY <2>2, <3>1
    <2>4. CASE IsCompound(hint)
      <3> TAKE row \in PossibleRows
      <3>1. \A i \in DOMAIN hint.children :
                /\ TakenFor[hint.children[i]][row] \subseteq Truths
                /\ TakenFor[hint.children[i]][row] # {}
        BY <2>3, <2>4
      <3> DEFINE f == [i \in DOMAIN hint.children |->
                          CHOOSE t \in Truths : t \in TakenFor[hint.children[i]][row]]
                 choices == {g \in [DOMAIN hint.children -> Truths] :
                                \A i \in DOMAIN g : g[i] \in TakenFor[hint.children[i]][row]}
      <3>2. f \in choices
        <4>1. \A i \in DOMAIN hint.children :
                  \E t \in Truths : t \in TakenFor[hint.children[i]][row]
          BY <3>1
        <4> QED
          BY <4>1
      <3> HIDE DEF f, choices
      <3>3. TakenFor[hint][row]
              = CASE hint.op = "not" -> {Neg(t) : t \in TakenFor[hint.children[1]][row]}
                  [] hint.op = "and" -> {Conj({g[i] : i \in DOMAIN g}) : g \in choices}
                  [] hint.op = "or"  -> {Disj({g[i] : i \in DOMAIN g}) : g \in choices}
                  [] OTHER           -> TestTakenFor(hint, row)
        BY <1>3, <2>1 DEF TakenFrom, choices
      <3>4. CASE hint.op = "not"
        <4>1. TakenFor[hint][row] = {Neg(t) : t \in TakenFor[hint.children[1]][row]}
          BY <3>3, <3>4
        <4>2. TakenFor[hint.children[1]][row] # {}
          BY <2>2, <2>4, <3>1, <3>4
        <4> QED
          BY <4>1, <4>2, TruthsClosed
      <3>5. CASE hint.op = "and"
        <4>1. TakenFor[hint][row] = {Conj({g[i] : i \in DOMAIN g}) : g \in choices}
          BY <3>3, <3>5
        <4>2. \A g \in choices : Conj({g[i] : i \in DOMAIN g}) \in Truths
          BY TruthsClosed
        <4>3. Conj({f[i] : i \in DOMAIN f}) \in TakenFor[hint][row]
          BY <3>2, <4>1
        <4> QED
          BY <4>1, <4>2, <4>3
      <3>6. CASE hint.op = "or"
        <4>1. TakenFor[hint][row] = {Disj({g[i] : i \in DOMAIN g}) : g \in choices}
          BY <3>3, <3>6
        <4>2. \A g \in choices : Disj({g[i] : i \in DOMAIN g}) \in Truths
          BY TruthsClosed
        <4>3. Disj({f[i] : i \in DOMAIN f}) \in TakenFor[hint][row]
          BY <3>2, <4>1
        <4> QED
          BY <4>1, <4>2, <4>3
      <3> QED
        BY <2>4, <3>4, <3>5, <3>6 DEF IsCompound
    <2> QED
      BY <1>4, <2>1, <2>4
  <1> HIDE DEF S
  <1>7. Nesting + 2 \in S
    BY <1>1, <1>5, <1>6, SetInduction
  <1> QED
    BY <1>1, <1>7 DEF S

\* A leaf.
LEMMA LeafTaken ==
  ASSUME NEW hint \in HintTests, NEW row \in PossibleRows
  PROVE  hint \in Hints /\ TakenFor[hint][row] = TestTakenFor(hint, row)
  <1>1. hint \in Hints
    BY PredicateHintsAssumption, NestedLeaves DEF Hints
  <1>2. hint.op \notin {"and", "or", "not"}
    BY TestsAreLeaves DEF IsCompound
  <1>3. TakenFor[hint] = TakenFrom(TakenFor, hint)
    BY <1>1, TakenDef
  <1> QED
    BY <1>1, <1>2, <1>3 DEF TakenFrom

\* A negated leaf.
LEMMA NegationTaken ==
  ASSUME NEW h \in HintTests, NEW row \in PossibleRows, NEW t \in TestTakenFor(h, row),
         Hint("not", <<h>>) \in Hints
  PROVE  Neg(t) \in TakenFor[Hint("not", <<h>>)][row]
  <1>1. PICK hint : hint = Hint("not", <<h>>)
    OBVIOUS
  <1>2. hint.op = "not" /\ hint.children[1] = h /\ hint \in Hints
    BY <1>1 DEF Hint
  <1>3. TakenFor[hint] = TakenFrom(TakenFor, hint)
    BY <1>2, TakenDef
  <1>4. TakenFor[hint][row] = {Neg(s) : s \in TakenFor[h][row]}
    BY <1>2, <1>3 DEF TakenFrom
  <1> QED
    BY <1>1, <1>4, LeafTaken

\* A conjunction whose parts may all be taken for true may be taken for true.
LEMMA ConjunctionTaken ==
  ASSUME NEW hint \in Hints, hint.op = "and", NEW row \in PossibleRows,
         \A i \in DOMAIN hint.children : "T" \in TakenFor[hint.children[i]][row]
  PROVE  "T" \in TakenFor[hint][row]
  <1> DEFINE f == [i \in DOMAIN hint.children |-> "T"]
             choices == {g \in [DOMAIN hint.children -> Truths] :
                            \A i \in DOMAIN g : g[i] \in TakenFor[hint.children[i]][row]}
  <1>1. f \in choices
    BY DEF Truths
  <1>2. Conj({f[i] : i \in DOMAIN f}) = "T"
    BY DEF Conj
  <1> HIDE DEF f, choices
  <1>3. TakenFor[hint] = TakenFrom(TakenFor, hint)
    BY TakenDef
  <1>4. TakenFor[hint][row] = {Conj({g[i] : i \in DOMAIN g}) : g \in choices}
    BY <1>3 DEF TakenFrom, choices
  <1> QED
    BY <1>1, <1>2, <1>4

\* So may a disjunction with one such part.
LEMMA DisjunctionTaken ==
  ASSUME NEW hint \in Hints, hint.op = "or", NEW row \in PossibleRows,
         \A i \in DOMAIN hint.children : hint.children[i] \in Hints,
         NEW k \in DOMAIN hint.children, "T" \in TakenFor[hint.children[k]][row]
  PROVE  "T" \in TakenFor[hint][row]
  <1> DEFINE f == [i \in DOMAIN hint.children |->
                      IF i = k THEN "T"
                      ELSE CHOOSE t \in Truths : t \in TakenFor[hint.children[i]][row]]
             choices == {g \in [DOMAIN hint.children -> Truths] :
                            \A i \in DOMAIN g : g[i] \in TakenFor[hint.children[i]][row]}
  <1>1. f \in choices
    <2>1. \A i \in DOMAIN hint.children :
              \E t \in Truths : t \in TakenFor[hint.children[i]][row]
      BY TakenSome
    <2> QED
      BY <2>1 DEF Truths
  <1>2. Disj({f[i] : i \in DOMAIN f}) = "T"
    <2>1. k \in DOMAIN f /\ f[k] = "T"
      OBVIOUS
    <2> HIDE DEF f
    <2> QED
      BY <2>1 DEF Disj
  <1> HIDE DEF f, choices
  <1>3. TakenFor[hint] = TakenFrom(TakenFor, hint)
    BY TakenDef
  <1>4. TakenFor[hint][row] = {Disj({g[i] : i \in DOMAIN g}) : g \in choices}
    BY <1>3 DEF TakenFrom, choices
  <1> QED
    BY <1>1, <1>2, <1>4

-------------------------------------------------------------------------------
\* PredicateHints: what SQL says may be read out of the hint

LEMMA SqlTestType ==
  ASSUME NEW test \in Tests, NEW row \in PossibleRows
  PROVE  SqlTest(test, row) \in Truths
  <1>1. \A texts, op, x, y : SqlCompare(texts, op, x, y) \in Truths
    BY DEF SqlCompare, Truth, Truths
  <1>2. test.op \in Comparisons \cup {"isNull", "isNotNull", "between"}
    BY DEF Tests
  <1>3. CASE test.op \in Comparisons
    <2>1. test.op \notin {"isNull", "isNotNull", "between"}
      BY <1>3 DEF Comparisons
    <2> QED
      BY <1>1, <1>3, <2>1 DEF SqlTest
  <1>4. CASE test.op \in {"isNull", "isNotNull"}
    BY <1>4 DEF SqlTest, Comparisons, Truth, Truths
  <1>5. CASE test.op = "between"
    BY <1>5, TruthsClosed DEF SqlTest, Comparisons
  <1> QED
    BY <1>2, <1>3, <1>4, <1>5

LEMMA SqlType ==
  \A expr \in Expressions, row \in PossibleRows : Sql[expr][row] \in Truths
  <1> TAKE expr \in Expressions, row \in PossibleRows
  <1>1. Sql[expr] = SqlFrom(Sql, expr)
    BY SqlDef
  <1>2. ~IsCompound(expr) => expr \in Tests
    BY TestsAreLeaves, NestedParts, PredicateHintsAssumption DEF Expressions
  <1>3. CASE IsCompound(expr)
    BY <1>1, <1>3, TruthsClosed DEF SqlFrom, IsCompound
  <1>4. CASE ~IsCompound(expr)
    <2>1. Sql[expr][row] = SqlTest(expr, row)
      BY <1>1, <1>4 DEF SqlFrom, IsCompound
    <2> QED
      BY <1>2, <1>4, <2>1, SqlTestType
  <1> QED
    BY <1>3, <1>4

\* What a comparison says is said of two values, neither of them NULL.
LEMMA ComparisonHolds ==
  ASSUME NEW texts, NEW op, NEW x, NEW y, SqlCompare(texts, op, x, y) = "T"
  PROVE  Null \notin {x, y} /\ ComparedAs(texts, op, x, y)
  BY DEF SqlCompare, Truth

\* Two operands of a test that is called right, in a comparison.
LEMMA CalledRightPair ==
  ASSUME NEW test \in Tests, CalledRight(test),
         NEW i \in DOMAIN test.children, NEW j \in DOMAIN test.children, i # j
  PROVE  /\ AmongTexts(test) \in BOOLEAN
         /\ CalledText(test.children[i]) /\ CalledText(test.children[j]) => AmongTexts(test)
         /\ AmongTexts(test) => IsText(test.children[i]) /\ IsText(test.children[j])
  <1>1. AmongTexts(test) \in BOOLEAN
    BY DEF AmongTexts
  <1>2. CalledText(test.children[i]) /\ CalledText(test.children[j]) => AmongTexts(test)
    BY DEF CalledRight
  <1>3. AmongTexts(test) => IsText(test.children[i]) /\ IsText(test.children[j])
    BY DEF AmongTexts
  <1> QED
    BY <1>1, <1>2, <1>3

\* A comparison.
LEMMA ComparisonReadOut ==
  ASSUME NEW test \in Tests, CalledRight(test), test.op \in Comparisons,
         NEW row \in PossibleRows, SqlTest(test, row) = "T", TestHint(test) \in Hints
  PROVE  "T" \in TakenFor[TestHint(test)][row]
  <1>1. PICK x, y, texts : /\ x = test.children[1] /\ y = test.children[2]
                           /\ texts = AmongTexts(test)
    OBVIOUS
  <1>2. /\ DOMAIN test.children = 1..2 /\ 1 \in 1..2 /\ 2 \in 1..2 /\ 1 # 2
        /\ x \in Operands /\ y \in Operands
    BY <1>1 DEF Tests, Comparisons
  <1>3. /\ texts \in BOOLEAN
        /\ CalledText(x) /\ CalledText(y) => texts
        /\ texts => IsText(x) /\ IsText(y)
    BY <1>1, <1>2, CalledRightPair
  <1>4. SqlCompare(texts, test.op, Operand(x, row), Operand(y, row)) = "T"
    BY <1>1 DEF SqlTest, Comparisons
  <1>5. /\ Null \notin {Operand(x, row), Operand(y, row)}
        /\ ComparedAs(texts, test.op, Operand(x, row), Operand(y, row))
    BY <1>4, ComparisonHolds
  <1>6. TestHint(test) = ComparisonHint(test)
    BY DEF TestHint, Comparisons
  <1>7. ASSUME NEW op \in Comparisons
        PROVE  /\ ParsedBinaryOpJSON(test, op) \in HintTests
               /\ SqlCompare(texts, op, Operand(x, row), Operand(y, row))
                      \in TestTakenFor(ParsedBinaryOpJSON(test, op), row)
    <2>1. ParsedBinaryOpJSON(test, op) = Hint(op, <<ParsedOperandJSON(x), ParsedOperandJSON(y)>>)
      BY <1>1 DEF ParsedBinaryOpJSON
    <2>2. ParsedOperandJSON(x) \in HintOperands /\ ParsedOperandJSON(y) \in HintOperands
      BY <1>2, OperandHint
    <2>3. <<ParsedOperandJSON(x), ParsedOperandJSON(y)>> \in [1..2 -> HintOperands]
      BY <2>2
    <2>4. ParsedBinaryOpJSON(test, op) \in HintTests
      BY <2>1, <2>3 DEF HintTests, Hint
    <2> QED
      BY <1>2, <1>3, <1>5, <2>1, <2>4, ComparisonTaken
  <1>8. CASE test.op # "notEqual"
    <2>1. TestHint(test) = ParsedBinaryOpJSON(test, test.op)
      BY <1>6, <1>8 DEF ComparisonHint
    <2> QED
      BY <1>4, <1>7, <2>1, LeafTaken
  <1>9. CASE test.op = "notEqual"
    <2>1. TestHint(test) = Hint("not", <<ParsedBinaryOpJSON(test, "equal")>>)
      BY <1>6, <1>9 DEF ComparisonHint
    <2>2. "equal" \in Comparisons
      BY DEF Comparisons
    <2>3. ~ComparedAs(texts, "equal", Operand(x, row), Operand(y, row))
      BY <1>3, <1>5, <1>9 DEF ComparedAs, Compared
    <2>4. SqlCompare(texts, "equal", Operand(x, row), Operand(y, row)) = "F"
      BY <1>5, <2>3 DEF SqlCompare, Truth
    <2>5. Neg("F") = "T"
      BY DEF Neg
    <2>6. PICK h : h = ParsedBinaryOpJSON(test, "equal")
      OBVIOUS
    <2>7. h \in HintTests /\ "F" \in TestTakenFor(h, row) /\ Hint("not", <<h>>) \in Hints
      BY <1>7, <2>1, <2>2, <2>4, <2>6
    <2>8. Neg("F") \in TakenFor[Hint("not", <<h>>)][row]
      BY <2>7, NegationTaken
    <2> QED
      BY <2>1, <2>5, <2>6, <2>8
  <1> QED
    BY <1>8, <1>9

\* A test for NULL.
LEMMA NullTestReadOut ==
  ASSUME NEW test \in Tests, test.op \in {"isNull", "isNotNull"},
         NEW row \in PossibleRows, SqlTest(test, row) = "T", TestHint(test) \in Hints
  PROVE  "T" \in TakenFor[TestHint(test)][row]
  <1>1. PICK x, h : x = test.children[1] /\ h = IsNullHint(test)
    OBVIOUS
  <1>2. x \in Operands
    BY <1>1 DEF Tests, Comparisons
  <1>3. h = Hint("isNull", <<ParsedOperandJSON(x)>>)
    BY <1>1 DEF IsNullHint
  <1>4. h \in HintTests
    <2>1. <<ParsedOperandJSON(x)>> \in [{1} -> HintOperands]
      BY <1>2, OperandHint
    <2> QED
      BY <1>3, <2>1 DEF HintTests, Hint
  <1>5. Truth(Operand(x, row) = Null) \in TestTakenFor(h, row)
    BY <1>2, <1>3, NullTestTaken
  <1>6. CASE test.op = "isNull"
    <2>1. TestHint(test) = h
      BY <1>1, <1>6 DEF TestHint, Comparisons
    <2>2. Truth(Operand(x, row) = Null) = "T"
      BY <1>1, <1>6 DEF SqlTest, Comparisons
    <2> QED
      BY <1>4, <1>5, <2>1, <2>2, LeafTaken
  <1>7. CASE test.op = "isNotNull"
    <2>1. TestHint(test) = Hint("not", <<h>>)
      BY <1>1, <1>7 DEF TestHint, Comparisons
    <2>2. Truth(Operand(x, row) # Null) = "T"
      BY <1>1, <1>7 DEF SqlTest, Comparisons
    <2>3. Truth(Operand(x, row) = Null) = "F"
      BY <2>2 DEF Truth
    <2>4. Neg("F") = "T"
      BY DEF Neg
    <2>5. Neg("F") \in TakenFor[Hint("not", <<h>>)][row]
      BY <1>4, <1>5, <2>1, <2>3, NegationTaken
    <2> QED
      BY <2>1, <2>4, <2>5
  <1> QED
    BY <1>6, <1>7

\* A between.
LEMMA BetweenReadOut ==
  ASSUME NEW test \in Tests, CalledRight(test), test.op = "between",
         NEW row \in PossibleRows, SqlTest(test, row) = "T", TestHint(test) \in Hints
  PROVE  "T" \in TakenFor[TestHint(test)][row]
  <1>1. PICK x, y, z, texts : /\ x = test.children[1] /\ y = test.children[2]
                              /\ z = test.children[3] /\ texts = AmongTexts(test)
    OBVIOUS
  <1>2. /\ DOMAIN test.children = 1..3 /\ 1 \in 1..3 /\ 2 \in 1..3 /\ 3 \in 1..3
        /\ 1 # 2 /\ 1 # 3
        /\ x \in Operands /\ y \in Operands /\ z \in Operands
    BY <1>1 DEF Tests, Comparisons
  <1>3. /\ texts \in BOOLEAN
        /\ CalledText(x) /\ CalledText(y) => texts
        /\ CalledText(x) /\ CalledText(z) => texts
        /\ texts => IsText(x) /\ IsText(y) /\ IsText(z)
    BY <1>1, <1>2, CalledRightPair
  <1>4. /\ SqlCompare(texts, "greaterThanOrEqual", Operand(x, row), Operand(y, row)) = "T"
        /\ SqlCompare(texts, "lessThanOrEqual", Operand(x, row), Operand(z, row)) = "T"
    <2>1. PICK s, t : /\ s = SqlCompare(texts, "greaterThanOrEqual", Operand(x, row), Operand(y, row))
                      /\ t = SqlCompare(texts, "lessThanOrEqual", Operand(x, row), Operand(z, row))
      OBVIOUS
    <2>2. Conj({s, t}) = "T"
      BY <1>1, <2>1 DEF SqlTest, Comparisons
    <2>3. s \in Truths /\ t \in Truths
      BY <2>1 DEF SqlCompare, Truth, Truths
    <2> QED
      BY <2>1, <2>2, <2>3 DEF Conj, Truths
  <1>5. /\ Null \notin {Operand(x, row), Operand(y, row)}
        /\ Null \notin {Operand(x, row), Operand(z, row)}
    BY <1>4, ComparisonHolds
  <1>6. "greaterThanOrEqual" \in Comparisons /\ "lessThanOrEqual" \in Comparisons
    BY DEF Comparisons
  <1>7. PICK h, g : /\ h = Hint("greaterThanOrEqual", <<ParsedOperandJSON(x), ParsedOperandJSON(y)>>)
                    /\ g = Hint("lessThanOrEqual", <<ParsedOperandJSON(x), ParsedOperandJSON(z)>>)
    OBVIOUS
  <1>8. h \in HintTests /\ g \in HintTests
    <2>1. /\ ParsedOperandJSON(x) \in HintOperands /\ ParsedOperandJSON(y) \in HintOperands
          /\ ParsedOperandJSON(z) \in HintOperands
      BY <1>2, OperandHint
    <2>2. /\ <<ParsedOperandJSON(x), ParsedOperandJSON(y)>> \in [1..2 -> HintOperands]
          /\ <<ParsedOperandJSON(x), ParsedOperandJSON(z)>> \in [1..2 -> HintOperands]
      BY <2>1
    <2> QED
      BY <1>6, <1>7, <2>2 DEF HintTests, Hint
  <1>9. "T" \in TestTakenFor(h, row)
    BY <1>2, <1>3, <1>4, <1>5, <1>6, <1>7, ComparisonTaken
  <1>10. "T" \in TestTakenFor(g, row)
    BY <1>2, <1>3, <1>4, <1>5, <1>6, <1>7, ComparisonTaken
  <1>11. "T" \in TakenFor[h][row] /\ "T" \in TakenFor[g][row]
    BY <1>8, <1>9, <1>10, LeafTaken
  <1>12. TestHint(test) = Hint("and", <<h, g>>)
    BY <1>1, <1>7 DEF TestHint, BetweenHint, Comparisons
  <1>13. PICK hint : hint = Hint("and", <<h, g>>)
    OBVIOUS
  <1>14. /\ hint \in Hints /\ hint.op = "and"
         /\ \A i \in DOMAIN hint.children : hint.children[i] \in {h, g}
    BY <1>12, <1>13 DEF Hint
  <1>15. "T" \in TakenFor[hint][row]
    BY <1>11, <1>14, ConjunctionTaken
  <1> QED
    BY <1>12, <1>13, <1>15

LEMMA TestReadOut ==
  ASSUME NEW test \in Tests, CalledRight(test),
         NEW row \in PossibleRows, SqlTest(test, row) = "T", TestHint(test) \in Hints
  PROVE  "T" \in TakenFor[TestHint(test)][row]
  <1>1. test.op \in Comparisons \cup {"isNull", "isNotNull", "between"}
    BY DEF Tests
  <1> QED
    BY <1>1, ComparisonReadOut, NullTestReadOut, BetweenReadOut

LEMMA RightTests ==
  /\ {test \in Tests : CalledRight(test)} \subseteq Tests
  /\ \A test \in {t \in Tests : CalledRight(t)} : ~IsCompound(test)
  BY TestsAreLeaves

LEMMA NullTaken ==
  ASSUME NEW row \in PossibleRows
  PROVE  "T" \in TakenFor[NullHint][row]
  <1>1. NullHint \in HintTests
    BY DEF HintTests
  <1>2. TestTakenFor(NullHint, row) = Truths
    BY DEF TestTakenFor, NullHint, Comparisons
  <1> QED
    BY <1>1, <1>2, LeafTaken DEF Truths

\* Whenever an expression without a misleading type is true of a row, its hint may be
\* taken for true. A negation becomes a null node, so that it does not matter here what
\* else its operand may be taken for.
LEMMA ReadOut ==
  \A expr \in ExpressionsCalledRight, row \in PossibleRows :
      Sql[expr][row] = "T" => "T" \in TakenFor[ParseParsedExpressionHint[expr]][row]
  <1> DEFINE Right == {test \in Tests : CalledRight(test)}
             P == ParseParsedExpressionHint
             Allowed(expr) == \A row \in PossibleRows :
                                  Sql[expr][row] = "T" => "T" \in TakenFor[P[expr]][row]
             S == {n \in Nat : n <= Nesting => \A expr \in Nested(Right, n) : Allowed(expr)}
  <1>1. /\ Nesting \in Nat /\ Expressions = Nested(Tests, Nesting)
        /\ ExpressionsCalledRight = Nested(Right, Nesting) /\ Hints = Nested(HintTests, Nesting + 2)
    BY PredicateHintsAssumption DEF Expressions, ExpressionsCalledRight, Hints
  <1>2. /\ Right \subseteq Tests
        /\ \A test \in Right : test \in Tests /\ CalledRight(test) /\ ~IsCompound(test)
    BY RightTests
  <1>3. \A expr \in Expressions : P[expr] = ParsedFrom(P, expr) /\ Sql[expr] = SqlFrom(Sql, expr)
    BY ParseDef, SqlDef
  <1> HIDE DEF Right, P
  <1>4. \A n \in Nat : n <= Nesting => /\ Nested(Right, n) \subseteq Nested(Tests, n)
                                       /\ Nested(Right, n) \subseteq Expressions
    <2>1. \A n \in Nat : Nested(Right, n) \subseteq Nested(Tests, n)
      BY <1>2, NestedMoreLeaves
    <2>2. \A n \in Nat : n <= Nesting => Nested(Tests, n) \subseteq Expressions
      BY <1>1, NestedMonotone
    <2> QED
      BY <2>1, <2>2
  <1>5. \A n \in Nat : n <= Nesting => \A expr \in Nested(Right, n) : P[expr] \in Hints
    <2> SUFFICES ASSUME NEW n \in Nat, n <= Nesting, NEW expr \in Nested(Right, n)
                 PROVE  P[expr] \in Hints
      OBVIOUS
    <2>1. P[expr] \in Nested(HintTests, n + 1)
      BY <1>4, ParsedNesting DEF P
    <2>2. n + 1 \in Nat /\ Nesting + 2 \in Nat /\ n + 1 <= Nesting + 2
      BY <1>1
    <2>3. Nested(HintTests, n + 1) \subseteq Nested(HintTests, Nesting + 2)
      BY <2>2, NestedMonotone
    <2> QED
      BY <1>1, <2>1, <2>3
  <1>6. ASSUME NEW test \in Right, test \in Expressions, P[test] \in Hints
        PROVE  Allowed(test)
    <2> TAKE row \in PossibleRows
    <2>1. P[test] = TestHint(test) /\ Sql[test][row] = SqlTest(test, row)
      BY <1>2, <1>3, <1>6 DEF ParsedFrom, SqlFrom, IsCompound
    <2> QED
      BY <1>2, <1>6, <2>1, TestReadOut
  <1>7. 0 \in S
    <2>1. Nested(Right, 0) = Right /\ 0 <= Nesting
      BY <1>1, NestedDef
    <2>2. \A expr \in Right : expr \in Expressions /\ P[expr] \in Hints
      BY <1>4, <1>5, <2>1
    <2> HIDE DEF Allowed
    <2> QED
      BY <1>6, <2>1, <2>2
  <1>8. ASSUME NEW n \in Nat, n \in S PROVE n + 1 \in S
    <2> SUFFICES ASSUME n + 1 <= Nesting, NEW expr \in Nested(Right, n + 1)
                 PROVE  Allowed(expr)
      OBVIOUS
    <2>1. expr \in Expressions /\ P[expr] \in Hints /\ n <= Nesting
      BY <1>1, <1>4, <1>5
    <2>2. n + 1 \in Nat /\ (n + 1) - 1 = n
      OBVIOUS
    <2>3. /\ ~IsCompound(expr) => expr \in Right
          /\ IsCompound(expr) =>
                \A i \in DOMAIN expr.children : expr.children[i] \in Nested(Right, n)
      BY <1>2, <2>2, NestedParts
    <2>4. \A part \in Nested(Right, n) : Allowed(part)
      BY <1>8, <2>1
    <2> HIDE DEF Allowed
    <2>5. CASE ~IsCompound(expr)
      BY <1>6, <2>1, <2>3, <2>5
    <2>6. CASE expr.op = "not"
      <3>1. P[expr] = NullHint
        BY <1>3, <2>1, <2>6 DEF ParsedFrom, TestHint, Comparisons
      <3> QED
        BY <3>1, NullTaken DEF Allowed
    <2>7. CASE expr.op \in {"and", "or"}
      <3> SUFFICES ASSUME NEW row \in PossibleRows, Sql[expr][row] = "T"
                   PROVE  "T" \in TakenFor[P[expr]][row]
        BY DEF Allowed
      <3>1. \A i \in DOMAIN expr.children :
                /\ expr.children[i] \in Expressions /\ P[expr.children[i]] \in Hints
                /\ Sql[expr.children[i]][row] \in Truths
                /\ Sql[expr.children[i]][row] = "T" => "T" \in TakenFor[P[expr.children[i]]][row]
        <4>1. \A i \in DOMAIN expr.children : expr.children[i] \in Nested(Right, n)
          BY <2>3, <2>7 DEF IsCompound
        <4>2. \A part \in Nested(Right, n) : part \in Expressions /\ P[part] \in Hints
          BY <1>4, <1>5, <2>1
        <4> QED
          BY <2>4, <4>1, <4>2, SqlType DEF Allowed
      <3> DEFINE parts == [i \in DOMAIN expr.children |-> P[expr.children[i]]]
                 all   == {Sql[expr.children[i]][row] : i \in DOMAIN expr.children}
      <3>2. PICK hint : hint = P[expr]
        OBVIOUS
      <3>3. hint = Hint(expr.op, parts)
        BY <1>3, <2>1, <2>7, <3>2 DEF ParsedFrom
      <3>4. /\ hint \in Hints /\ hint.op = expr.op
            /\ DOMAIN hint.children = DOMAIN expr.children
            /\ \A i \in DOMAIN expr.children : hint.children[i] = P[expr.children[i]]
        BY <2>1, <3>2, <3>3 DEF Hint
      <3>5. CASE expr.op = "and"
        <4>1. Conj(all) = "T"
          BY <1>3, <2>1, <3>5 DEF SqlFrom
        <4>2. \A i \in DOMAIN expr.children : Sql[expr.children[i]][row] = "T"
          <5>1. "F" \notin all /\ "N" \notin all
            BY <4>1 DEF Conj
          <5> QED
            BY <3>1, <5>1 DEF Truths
        <4>3. \A i \in DOMAIN hint.children : "T" \in TakenFor[hint.children[i]][row]
          BY <3>1, <3>4, <4>2
        <4>4. "T" \in TakenFor[hint][row]
          BY <3>4, <3>5, <4>3, ConjunctionTaken
        <4> QED
          BY <3>2, <4>4
      <3>6. CASE expr.op = "or"
        <4>1. Disj(all) = "T"
          BY <1>3, <2>1, <3>6 DEF SqlFrom
        <4>2. PICK k \in DOMAIN expr.children : Sql[expr.children[k]][row] = "T"
          <5>1. "T" \in all
            BY <4>1 DEF Disj
          <5> QED
            BY <5>1
        <4>3. /\ k \in DOMAIN hint.children /\ "T" \in TakenFor[hint.children[k]][row]
              /\ \A i \in DOMAIN hint.children : hint.children[i] \in Hints
          BY <3>1, <3>4, <4>2
        <4>4. "T" \in TakenFor[hint][row]
          BY <3>4, <3>6, <4>3, DisjunctionTaken
        <4> QED
          BY <3>2, <4>4
      <3> QED
        BY <2>7, <3>5, <3>6
    <2> QED
      BY <2>5, <2>6, <2>7 DEF IsCompound
  <1> HIDE DEF S
  <1>9. Nesting \in S
    BY <1>1, <1>7, <1>8, SetInduction
  <1> QED
    BY <1>1, <1>9 DEF S, P

\* No server drops a file for a row that such a predicate selects.
LEMMA HintAllows ==
  ASSUME NEW predicate \in ParsedTexts, NumbersAmongNumbers(predicate),
         NEW row \in PossibleRows, Selects(predicate, row)
  PROVE  ~MayDrop(ParsePredicateStringToJson(predicate), row)
  <1>1. Nesting \in Nat /\ Expressions = Nested(Tests, Nesting)
        /\ ExpressionsCalledRight \subseteq Expressions
    BY PredicateHintsAssumption, RightTests, NestedMoreLeaves DEF Expressions, ExpressionsCalledRight
  <1>2. CASE predicate = NoPredicate
    <2>1. ParsePredicateStringToJson(predicate) = NullHint
      BY <1>2 DEF ParsePredicateStringToJson, NoPredicate
    <2> QED
      BY <2>1, NullTaken DEF MayDrop
  <1>3. CASE predicate \in ExpressionsCalledRight
    <2>1. predicate \in Expressions
      BY <1>1, <1>3
    <2>2. predicate.op \notin {"none", "list"}
      <3>1. ~IsCompound(predicate) => predicate \in Tests
        BY <1>1, <2>1, TestsAreLeaves, NestedParts
      <3>2. predicate \in Tests => predicate.op \notin {"none", "list"}
        BY DEF Tests, Comparisons
      <3> QED
        BY <3>1, <3>2 DEF IsCompound
    <2>3. Sql[predicate][row] = "T"
      BY <2>2 DEF Selects
    <2>4. ParsePredicateStringToJson(predicate) = ParseParsedExpressionHint[predicate]
      BY <2>2 DEF ParsePredicateStringToJson
    <2> QED
      BY <1>3, <2>3, <2>4, ReadOut DEF MayDrop
  <1>4. CASE predicate.op = "list" /\ predicate.children \in Seq(ExpressionsCalledRight)
    <2> DEFINE parts == [i \in DOMAIN predicate.children |->
                            ParseParsedExpressionHint[predicate.children[i]]]
    <2>1. ParsePredicateStringToJson(predicate) = Hint("and", parts)
      BY <1>4 DEF ParsePredicateStringToJson
    <2>2. \A i \in DOMAIN predicate.children : predicate.children[i] \in ExpressionsCalledRight
      BY <1>4
    <2>3. \A expr \in Expressions : ParseParsedExpressionHint[expr] \in Nested(HintTests, Nesting + 1)
      BY <1>1, ParsedNesting
    <2>4. parts \in Seq(Nested(HintTests, Nesting + 1))
      BY <1>1, <1>4, <2>2, <2>3
    <2>5. \A i \in DOMAIN parts : "T" \in TakenFor[parts[i]][row]
      <3>1. \A i \in DOMAIN predicate.children : Sql[predicate.children[i]][row] = "T"
        BY <1>4 DEF Selects
      <3> QED
        BY <2>2, <3>1, ReadOut
    <2> HIDE DEF parts
    <2>6. PICK hint : hint = Hint("and", parts)
      OBVIOUS
    <2>7. hint \in Hints
      <3>1. hint \in Compound(Nested(HintTests, Nesting + 1))
        BY <2>4, <2>6 DEF Compound, Hint
      <3>2. Nesting + 1 \in Nat /\ (Nesting + 1) + 1 = Nesting + 2
        BY <1>1
      <3>3. Nested(HintTests, (Nesting + 1) + 1)
               = HintTests \cup Compound(Nested(HintTests, Nesting + 1))
        BY <3>2, NestedDef
      <3> QED
        BY <3>1, <3>2, <3>3 DEF Hints
    <2>8. hint.op = "and" /\ hint.children = parts
      BY <2>6 DEF Hint
    <2>9. "T" \in TakenFor[hint][row]
      BY <2>5, <2>7, <2>8, ConjunctionTaken
    <2> QED
      BY <2>1, <2>6, <2>9 DEF MayDrop
  <1> QED
    BY <1>2, <1>3, <1>4 DEF NumbersAmongNumbers

-------------------------------------------------------------------------------

\* A row's list has every file of its table that has a row the predicate holds of.
LEMMA MatchesKept == CallInv /\ ListIInv => HintsKeepMatches
  <1> SUFFICES ASSUME CallInv, ListIInv, state = "returned", NEW row \in 1..count,
                      NumbersAmongNumbers(given[row].predicate),
                      NEW i \in DOMAIN TableFiles[given[row].table],
                      Selects(given[row].predicate, Rows[TableFiles[given[row].table][i]])
               PROVE  \E j \in 1..list_data[row].length :
                          child[list_data[row].offset + j] = TableFiles[given[row].table][i]
    BY DEF HintsKeepMatches
  <1>1. call = "list_files"
    BY DEF CallInv, ListedInv
  <1>2. /\ Len(list_data) = count /\ Len(query_results) = count /\ count \in Nat
        /\ query_results \in Seq(Seq(Urls))
    BY ListFilesAssumption DEF ListIInv, ListTypeOK, RowsDone, ChunkReturned
  <1>3. PICK table, predicate, files, url :
           /\ table = given[row].table /\ predicate = given[row].predicate
           /\ files = query_results[row] /\ url = TableFiles[table][i]
    OBVIOUS
  <1>4. given[row] \in ListedRows
    BY <1>1 DEF CallInv, GivenInv
  <1>5. table \in Tables /\ predicate \in Predicates
    BY <1>3, <1>4 DEF ListedRows, Row
  <1>6. files \in Returned(given[row], ParsePredicateStringToJson(predicate))
    BY <1>1, <1>2, <1>3 DEF CallInv, ListedInv
  <1>7. /\ files \in Seq(Urls) /\ Len(files) \in Nat
        /\ \A u \in Range(TableFiles[table]) \ Range(files) :
               MayDrop(ParsePredicateStringToJson(predicate), Rows[u])
    <2>1. files \in Seq(Urls)
      BY <1>2, <1>3
    <2> QED
      BY <1>3, <1>6, <2>1 DEF Returned
  <1>8. url \in Range(TableFiles[table]) /\ Rows[url] \in PossibleRows
    <2>1. TableFiles[table] \in Seq(Urls) /\ i \in DOMAIN TableFiles[table]
      BY <1>3, <1>5, TableCallsAssumption DEF Tables
    <2>2. url \in Urls
      BY <1>3, <2>1
    <2> QED
      BY <1>3, <2>1, <2>2, TableCallsAssumption DEF Range
  <1>9. ~MayDrop(ParsePredicateStringToJson(predicate), Rows[url])
    <2>1. predicate \in ParsedTexts
      BY <1>5, TableCallsAssumption
    <2> QED
      BY <1>3, <1>8, <2>1, HintAllows
  <1>10. PICK j \in 1..Len(files) : files[j] = url
    <2>1. url \in Range(files)
      BY <1>7, <1>8, <1>9
    <2> QED
      BY <1>7, <2>1 DEF Range
  <1>11. /\ list_data[row].length = Len(files)
         /\ child[list_data[row].offset + j] = files[j]
    BY <1>2, <1>3 DEF ListIInv, SlicesHold
  <1> QED
    BY <1>3, <1>10, <1>11

\* For every table, every predicate of any nesting that compares numbers with numbers
\* only, and every server that goes by the hint it is sent: no file with a row that the
\* predicate holds of is missing from the list of delta_share_list_files.
THEOREM HintsCorrect == TCSpec => []HintsKeepMatches
  BY MatchesKept, CallsInductive, PTL

===============================================================================
