----------------------------- MODULE FileScanProofs -----------------------------
(***************************************************************************)
(* Proofs about FileScan: whatever the tables, the files, the chunk size   *)
(* and the width of row numbers, and in whatever order files are opened    *)
(* and chunks read, live rows are returned once, filters hold, and the     *)
(* constants of a file are its own.                                        *)
(*                                                                         *)
(* How often a row was returned is a matter of history; the invariant      *)
(* makes it one of the state: a row has been returned if and only if the   *)
(* chunk it lies in has been read and the filter of its file keeps it.     *)
(*                                                                         *)
(* The second half is about the columns of a bind: both paths bind the     *)
(* same ones, whatever the order of a hash set, and a schema whose mapping *)
(* can be applied twice is read as it is written.                          *)
(***************************************************************************)
EXTENDS FileScan, DataLemmas, FiniteSetTheorems

\* The first row of the chunk that row r lies in.
ChunkOf(r) == r - (r % ChunkSize)

KeptByFilter(f, r) == filter[f] = NoFilter \/ r % RowIds \notin filter[f]

IsReturned(f, r) == ChunkOf(r) \in scanned[f] /\ KeptByFilter(f, r)

-------------------------------------------------------------------------------
\* Arithmetic of chunks

\* Division with remainder.
LEMMA DivMod ==
    ASSUME NEW r \in Nat, NEW k \in Nat \ {0}
    PROVE  /\ r \div k \in Nat
           /\ r % k \in 0..k - 1
           /\ r = k * (r \div k) + (r % k)
OBVIOUS

\* Multiples of a number grow by steps of at least that number.
LEMMA MultiplesApart ==
    ASSUME NEW a \in Nat, NEW b \in Nat, NEW k \in Nat \ {0}, a < b
    PROVE  k * a + k <= k * b
<1>1. b = a + 1 + (b - a - 1) /\ b - a - 1 \in Nat
  OBVIOUS
<1>2. k * (b - a - 1) >= 0
  BY <1>1
<1>3. k * b = k * a + k + k * (b - a - 1)
  BY <1>1
<1>4. k * a \in Int /\ k * b \in Int /\ k * (b - a - 1) \in Int
  BY <1>1
<1>. QED BY <1>2, <1>3, <1>4

\* A multiple leaves no remainder.
LEMMA MultipleMod ==
    ASSUME NEW q \in Nat, NEW k \in Nat \ {0}
    PROVE  (k * q) % k = 0
OBVIOUS

\* A number below the divisor is its own remainder.
LEMMA SmallMod ==
    ASSUME NEW r \in Nat, NEW k \in Nat \ {0}, r < k
    PROVE  r % k = r
OBVIOUS

\* A row lies in one chunk: the one whose first row is a multiple of the chunk size,
\* at or below the row, by less than a chunk.
LEMMA OneChunk ==
    ASSUME NEW r \in Nat, NEW start \in Nat, NEW k \in Nat \ {0}, start % k = 0
    PROVE  (start <= r /\ r < start + k) <=> start = r - (r % k)
<1> DEFINE q == r \div k
           p == start \div k
<1>1. q \in Nat /\ r % k \in 0..k - 1 /\ r = k * q + (r % k)
  BY DivMod
<1>2. p \in Nat /\ start = k * p
  BY DivMod
<1>3. k * q \in Nat /\ k * p \in Nat
  BY <1>1, <1>2
<1>. HIDE DEF q, p
<1>4. CASE p < q
  <2>1. k * p + k <= k * q
    BY <1>1, <1>2, <1>4, MultiplesApart
  <2>. QED BY <2>1, <1>1, <1>2, <1>3
<1>5. CASE q < p
  <2>1. k * q + k <= k * p
    BY <1>1, <1>2, <1>5, MultiplesApart
  <2>. QED BY <2>1, <1>1, <1>2, <1>3
<1>6. CASE p = q
  BY <1>1, <1>2, <1>3, <1>6
<1>. QED BY <1>1, <1>2, <1>4, <1>5, <1>6

\* The chunk a row of a file lies in is one of the file's.
LEMMA ChunkInFile ==
    ASSUME NEW k \in Nat \ {0}, NEW n \in Nat, NEW r \in 0..n - 1
    PROVE  r - (r % k) \in 0..n - 1 /\ (r - (r % k)) % k = 0
<1>0. r \in Nat
  OBVIOUS
<1>1. r \div k \in Nat /\ r % k \in 0..k - 1 /\ r = k * (r \div k) + (r % k)
  BY <1>0, DivMod
<1>2. k * (r \div k) \in Nat /\ r - (r % k) = k * (r \div k)
  BY <1>1
<1>3. (k * (r \div k)) % k = 0
  BY <1>1, MultipleMod
<1>. QED BY <1>1, <1>2, <1>3

-------------------------------------------------------------------------------
\* The inductive invariant

\* What a reader holds is what its own file says, and no reader is there without its
\* deletion vector and its partition values.
ReaderInv ==
    /\ opened \subseteq FileIds
    /\ constants = [f \in FileIds |-> IF f \in opened THEN ConstantMap(files[f]) ELSE <<>>]
    /\ filter = [f \in FileIds |-> IF f \in opened THEN DeletionFilter(files[f]) ELSE NoFilter]
    /\ \A f \in opened : CanFilter(files[f]) /\ CanInject(files[f])

\* A row has been returned if its chunk was read and its filter keeps it.
ChunkInv ==
    /\ scanned \in [FileIds -> SUBSET Nat]
    /\ \A f \in FileIds : scanned[f] \subseteq Chunks(f)
    /\ \A f \in FileIds \ opened : scanned[f] = {}
    /\ returned = [f \in FileIds |-> [r \in Rows(f) |-> IF IsReturned(f, r) THEN 1 ELSE 0]]

StatusInv ==
    /\ status = "unbound" => opened = {}
    /\ status = "ok" => opened = FileIds /\ \A f \in FileIds : scanned[f] = Chunks(f)

IInv ==
    /\ files \in FileLists
    /\ ReaderInv
    /\ ChunkInv
    /\ StatusInv

\* What the assumption says of the files of the query.
LEMMA FileFacts ==
    ASSUME files \in FileLists
    PROVE  /\ ChunkSize \in Nat \ {0}
           /\ RowIds \in Nat \ {0}
           /\ \A f \in FileIds : files[f].rows \in Nat
           /\ \A f \in FileIds : files[f].dv # NoDV => files[f].dv.deleted \subseteq 0..RowIds - 1
BY FileScanAssumption DEF FileIds

\* The rows of a chunk are those whose chunk it is.
LEMMA RowsOfChunk ==
    ASSUME files \in FileLists, NEW f \in FileIds, NEW start \in Chunks(f), NEW r \in Rows(f)
    PROVE  r \in Kept(f, start) <=> ChunkOf(r) = start /\ KeptByFilter(f, r)
<1>1. ChunkSize \in Nat \ {0} /\ files[f].rows \in Nat
  BY FileFacts
<1>2. r \in Nat /\ start \in Nat /\ start % ChunkSize = 0
  BY <1>1 DEF Rows, Chunks
<1>3. (start <= r /\ r < start + ChunkSize) <=> start = ChunkOf(r)
  BY <1>1, <1>2, OneChunk DEF ChunkOf
<1>. QED BY <1>3 DEF Kept, ChunkRows, KeptByFilter

\* The chunk of a row is a chunk of its file.
LEMMA ChunkOfRow ==
    ASSUME files \in FileLists, NEW f \in FileIds, NEW r \in Rows(f)
    PROVE  ChunkOf(r) \in Chunks(f)
<1>1. ChunkSize \in Nat \ {0} /\ files[f].rows \in Nat
  BY FileFacts
<1>2. r \in 0..files[f].rows - 1
  BY DEF Rows
<1>. QED BY <1>1, <1>2, ChunkInFile DEF ChunkOf, Chunks, Rows

\* The filter keeps a live row whose number the bitmap can tell apart, and drops a
\* marked one if there is a filter.
LEMMA FilterOfFile ==
    ASSUME files \in FileLists, ReaderInv, NEW f \in opened, NEW r \in Rows(f)
    PROVE  /\ r \notin Deleted(f) /\ InWidth(r) => KeptByFilter(f, r)
           /\ r \in Deleted(f) /\ filter[f] # NoFilter => ~KeptByFilter(f, r)
<1>1. f \in FileIds /\ filter[f] = DeletionFilter(files[f])
  BY DEF ReaderInv
<1>2. filter[f] = NoFilter \/ (files[f].dv # NoDV /\ filter[f] = Deleted(f))
  BY <1>1 DEF DeletionFilter, Deserialize, Deleted
<1>3. r \in Nat /\ RowIds \in Nat \ {0} /\ files[f].rows \in Nat
  BY <1>1, FileFacts DEF Rows
<1>4. r < RowIds => r % RowIds = r
  BY <1>3, SmallMod
<1>5. r \in Deleted(f) => r < RowIds
  BY <1>1, <1>3, FileFacts DEF Deleted
<1>. QED BY <1>2, <1>4, <1>5 DEF KeptByFilter, InWidth

LEMMA Initially == Init => IInv
<1>. SUFFICES ASSUME Init PROVE IInv
  OBVIOUS
<1>1. files \in FileLists /\ status = "unbound"
  BY DEF Init, BindInit
<1>2. ReaderInv
  BY DEF Init, ReaderInv
<1>3. ChunkInv
  <2>1. \A f \in FileIds : \A r \in Rows(f) : ~IsReturned(f, r)
    BY DEF Init, IsReturned
  <2>. QED BY <2>1 DEF Init, ChunkInv
<1>4. StatusInv
  BY <1>1 DEF Init, StatusInv
<1>. QED BY <1>1, <1>2, <1>3, <1>4 DEF IInv

\* What a file is given depends on the bound columns and the table alone.
LEMMA SameConstants ==
    ASSUME UNCHANGED <<table, files, columns>>
    PROVE  \A f : /\ ConstantMap(files[f])' = ConstantMap(files[f])
                  /\ CanInject(files[f])' = CanInject(files[f])
<1>1. Columns' = Columns /\ files' = files
  BY DEF Columns
<1>2. \A f : MissingColumns(files[f])' = MissingColumns(files[f])
  BY <1>1 DEF MissingColumns, MappedName
<1>3. \A f : InjectedColumns(files[f])' = InjectedColumns(files[f])
  BY <1>1 DEF InjectedColumns
<1>4. \A c : ColumnType(c)' = ColumnType(c)
  BY DEF ColumnType
<1>5. \A f, c : PartitionValue(files[f], c)' = PartitionValue(files[f], c)
  BY <1>1, <1>4 DEF PartitionValue
<1>6. ASSUME NEW f, NEW c PROVE Injected(files[f], c)' = Injected(files[f], c)
  <2>1. CASE c \in DOMAIN files[f].values
    BY <1>1, <1>5, <2>1 DEF Injected
  <2>2. CASE c \notin DOMAIN files[f].values
    BY <1>1, <2>2 DEF Injected
  <2>. QED BY <2>1, <2>2
<1>7. \A f : ConstantMap(files[f])' = ConstantMap(files[f])
  BY <1>1, <1>2, <1>3, <1>6 DEF ConstantMap
<1>8. ASSUME NEW f PROVE CanInject(files[f])' = CanInject(files[f])
  <2>1. CanInject(files[f])' <=> CanInject(files[f])
    BY <1>1, <1>3, <1>5 DEF CanInject
  <2>. QED BY <2>1 DEF CanInject
<1>. QED BY <1>7, <1>8

\* The chunks and the rows are those of the file list, which never changes.
LEMMA SameFiles ==
    ASSUME files' = files
    PROVE  /\ FileIds' = FileIds
           /\ \A f : Rows(f)' = Rows(f)
           /\ \A f : Chunks(f)' = Chunks(f)
BY DEF FileIds, Rows, Chunks

\* A step that opens no file and reads no chunk keeps the readers and the rows.
LEMMA SameScan ==
    ASSUME IInv, files' = files, UNCHANGED scanVars,
           opened = {} \/ UNCHANGED <<table, columns>>, StatusInv'
    PROVE  IInv'
<1>1. FileIds' = FileIds /\ (\A f : Rows(f)' = Rows(f)) /\ (\A f : Chunks(f)' = Chunks(f))
  BY SameFiles
<1>2. UNCHANGED <<opened, constants, filter, scanned, returned>>
  BY DEF scanVars
<1>3. ReaderInv'
  <2>1. CASE opened = {}
    BY <1>1, <1>2, <2>1 DEF IInv, ReaderInv
  <2>2. CASE UNCHANGED <<table, columns>>
    <3>1. \A f : /\ ConstantMap(files[f])' = ConstantMap(files[f])
                   /\ CanInject(files[f])' = CanInject(files[f])
      BY <2>2, SameConstants
    <3>. QED BY <1>1, <1>2, <3>1 DEF IInv, ReaderInv
  <2>. QED BY <2>1, <2>2
<1>4. ChunkInv'
  <2>1. \A f, r : IsReturned(f, r)' = IsReturned(f, r)
    BY <1>2 DEF IsReturned, KeptByFilter
  <2>. QED BY <1>1, <1>2, <2>1 DEF IInv, ChunkInv
<1>. QED BY <1>3, <1>4 DEF IInv

LEMMA ScanChunkInv ==
    ASSUME IInv, NEW f \in FileIds, ScanChunk(f)
    PROVE  IInv'
<1>1. UNCHANGED <<kind, table, files, columns, status, opened, constants, filter>> /\ f \in opened
  BY DEF ScanChunk, bindVars
<1>2. FileIds' = FileIds /\ (\A g : Rows(g)' = Rows(g)) /\ (\A g : Chunks(g)' = Chunks(g))
  BY <1>1, SameFiles
<1>3. ReaderInv'
  <2>1. \A g : /\ ConstantMap(files[g])' = ConstantMap(files[g])
               /\ CanInject(files[g])' = CanInject(files[g])
    BY <1>1, SameConstants
  <2>. QED BY <1>1, <1>2, <2>1 DEF IInv, ReaderInv
<1>4. ChunkInv'
  <2>1. PICK start \in Chunks(f) \ scanned[f] :
           /\ scanned' = [scanned EXCEPT ![f] = @ \cup {start}]
           /\ returned' = [returned EXCEPT ![f] =
                  [r \in Rows(f) |-> IF r \in Kept(f, start) THEN @[r] + 1 ELSE @[r]]]
    BY DEF ScanChunk
  <2>2. start \in Nat
    BY FileFacts DEF IInv, Chunks, Rows
  <2>3. /\ scanned' \in [FileIds -> SUBSET Nat]
        /\ \A g \in FileIds : scanned'[g] \subseteq Chunks(g)
        /\ \A g \in FileIds \ opened : scanned'[g] = {}
    BY <1>1, <2>1, <2>2 DEF IInv, ChunkInv
  <2>4. \A g \in FileIds \ {f} : \A r \in Rows(g) : IsReturned(g, r)' <=> IsReturned(g, r)
    BY <1>1, <2>1 DEF IInv, ChunkInv, IsReturned, KeptByFilter
  <2>5. \A r \in Rows(f) : IsReturned(f, r)' <=> IsReturned(f, r) \/ r \in Kept(f, start)
    <3>1. scanned'[f] = scanned[f] \cup {start} /\ filter' = filter
      BY <1>1, <2>1 DEF IInv, ChunkInv
    <3>2. \A r \in Rows(f) : r \in Kept(f, start) <=> ChunkOf(r) = start /\ KeptByFilter(f, r)
      BY RowsOfChunk DEF IInv
    <3>. QED BY <3>1, <3>2 DEF IsReturned, KeptByFilter
  <2>6. \A r \in Rows(f) : r \in Kept(f, start) => ~IsReturned(f, r)
    BY RowsOfChunk DEF IInv, IsReturned
  <2>7. returned' = [g \in FileIds |-> [r \in Rows(g) |-> IF IsReturned(g, r)' THEN 1 ELSE 0]]
    <3>1. returned' = [g \in FileIds |-> IF g = f
             THEN [r \in Rows(f) |-> IF r \in Kept(f, start) THEN returned[f][r] + 1 ELSE returned[f][r]]
             ELSE returned[g]]
      BY <2>1 DEF IInv, ChunkInv
    <3>2. \A r \in Rows(f) : (IF r \in Kept(f, start) THEN returned[f][r] + 1 ELSE returned[f][r])
                             = IF IsReturned(f, r)' THEN 1 ELSE 0
      BY <2>5, <2>6 DEF IInv, ChunkInv
    <3>3. \A g \in FileIds \ {f} :
             returned[g] = [r \in Rows(g) |-> IF IsReturned(g, r)' THEN 1 ELSE 0]
      BY <2>4 DEF IInv, ChunkInv
    <3>. QED BY <3>1, <3>2, <3>3
  <2>. QED BY <1>1, <1>2, <2>3, <2>7 DEF ChunkInv
<1>5. StatusInv'
  BY <1>1 DEF IInv, StatusInv, ScanChunk
<1>. QED BY <1>1, <1>3, <1>4, <1>5 DEF IInv

LEMMA InitializeReaderInv ==
    ASSUME IInv, NEW f \in FileIds, InitializeReader(f)
    PROVE  IInv'
<1>1. /\ UNCHANGED <<kind, table, files, columns, status, scanned, returned>>
      /\ f \notin opened /\ opened' = opened \cup {f}
      /\ status = "scanning" /\ CanFilter(files[f]) /\ CanInject(files[f])
  BY DEF InitializeReader, bindVars
<1>2. FileIds' = FileIds /\ (\A g : Rows(g)' = Rows(g)) /\ (\A g : Chunks(g)' = Chunks(g))
  BY <1>1, SameFiles
<1>3. \A g : /\ ConstantMap(files[g])' = ConstantMap(files[g])
             /\ CanInject(files[g])' = CanInject(files[g])
  BY <1>1, SameConstants
<1>4. constants' = [g \in FileIds |-> IF g \in opened' THEN ConstantMap(files[g]) ELSE <<>>]
  BY <1>1 DEF IInv, ReaderInv, InitializeReader
<1>5. filter' = [g \in FileIds |-> IF g \in opened' THEN DeletionFilter(files[g]) ELSE NoFilter]
  BY <1>1 DEF IInv, ReaderInv, InitializeReader
<1>6. ReaderInv'
  BY <1>1, <1>2, <1>3, <1>4, <1>5 DEF IInv, ReaderInv
<1>7. ChunkInv'
  <2>1. scanned[f] = {}
    BY <1>1 DEF IInv, ChunkInv
  <2>2. \A g \in FileIds \ {f} : filter'[g] = filter[g]
    BY <1>1, <1>5 DEF IInv, ReaderInv
  <2>3. \A g \in FileIds : \A r \in Rows(g) : IsReturned(g, r)' <=> IsReturned(g, r)
    BY <1>1, <2>1, <2>2 DEF IsReturned, KeptByFilter
  <2>4. returned = [g \in FileIds |-> [r \in Rows(g) |-> IF IsReturned(g, r)' THEN 1 ELSE 0]]
    BY <2>3 DEF IInv, ChunkInv
  <2>. QED BY <1>1, <1>2, <2>1, <2>4 DEF IInv, ChunkInv
<1>8. StatusInv'
  BY <1>1 DEF StatusInv
<1>. QED BY <1>1, <1>6, <1>7, <1>8 DEF IInv

LEMMA Preserved == IInv /\ [Next]_vars => IInv'
<1>. SUFFICES ASSUME IInv, [Next]_vars PROVE IInv'
  OBVIOUS
<1>1. CASE BindScan
  <2>1. status = "unbound" /\ files' = files /\ status' \in {"unbindable", "scanning"}
    BY <1>1 DEF BindScan, BindEmpty, BindFull, BindFails, Bound
  <2>2. opened = {} /\ UNCHANGED scanVars
    BY <1>1, <2>1 DEF IInv, StatusInv, BindScan
  <2>3. StatusInv'
    BY <2>1 DEF StatusInv
  <2>. QED BY <2>1, <2>2, <2>3, SameScan
<1>2. ASSUME NEW f \in FileIds, InitializeReader(f) PROVE IInv'
  BY <1>2, InitializeReaderInv
<1>3. ASSUME NEW f \in FileIds, InitializeFails(f) PROVE IInv'
  <2>1. UNCHANGED <<table, files, columns, scanVars>> /\ StatusInv'
    BY <1>3 DEF InitializeFails, StatusInv
  <2>. QED BY <2>1, SameScan
<1>4. ASSUME NEW f \in FileIds, ScanChunk(f) PROVE IInv'
  BY <1>4, ScanChunkInv
<1>5. CASE Finish
  <2>1. UNCHANGED <<table, files, columns, scanVars>>
    BY <1>5 DEF Finish
  <2>2. StatusInv'
    BY <1>5, <2>1, SameFiles DEF Finish, StatusInv, scanVars
  <2>. QED BY <2>1, <2>2, SameScan
<1>6. CASE StopEarly
  <2>1. UNCHANGED <<table, files, columns, scanVars>> /\ StatusInv'
    BY <1>6 DEF StopEarly, StatusInv
  <2>. QED BY <2>1, SameScan
<1>7. CASE UNCHANGED vars
  <2>1. UNCHANGED <<table, files, columns, status, scanVars>>
    BY <1>7 DEF vars, bindVars
  <2>2. StatusInv'
    BY <2>1, SameFiles DEF IInv, StatusInv, scanVars
  <2>. QED BY <2>1, <2>2, SameScan
<1>. QED BY <1>1, <1>2, <1>3, <1>4, <1>5, <1>6, <1>7 DEF Next

\* The inductive invariant holds throughout, for every table, file list, chunk size
\* and width of row numbers.
THEOREM ScanInductive == Spec => []IInv
<1>. QED BY Initially, Preserved, PTL DEF Spec

-------------------------------------------------------------------------------
\* The properties of the run

\* A finished query has returned every row that is not deleted exactly once.
THEOREM LiveRowsCorrect == Spec => []LiveRowsOnce
<1>1. IInv => LiveRowsOnce
  <2>. SUFFICES ASSUME IInv, status = "ok", NEW f \in FileIds, NEW r \in Rows(f) \ Deleted(f),
                       InWidth(r)
                PROVE  returned[f][r] = 1
    BY DEF LiveRowsOnce
  <2>1. f \in opened /\ scanned[f] = Chunks(f)
    BY DEF IInv, StatusInv
  <2>2. ChunkOf(r) \in scanned[f]
    BY <2>1, ChunkOfRow DEF IInv
  <2>3. KeptByFilter(f, r)
    BY <2>1, FilterOfFile DEF IInv
  <2>. QED BY <2>2, <2>3 DEF IInv, ChunkInv, IsReturned
<1>. QED BY <1>1, ScanInductive, PTL

\* No row is returned twice, a row that a filter marks never, and a file whose
\* deletion vector cannot be had gives no row and lets no query end without an error.
THEOREM VectorsCorrect == Spec => []VectorsHold
<1>1. IInv => VectorsHold
  <2>. SUFFICES ASSUME IInv, NEW f \in FileIds
                PROVE  /\ \A r \in Rows(f) :
                             /\ returned[f][r] <= 1
                             /\ filter[f] # NoFilter /\ r \in Deleted(f) => returned[f][r] = 0
                       /\ ~CanFilter(files[f]) =>
                             status # "ok" /\ \A r \in Rows(f) : returned[f][r] = 0
    BY DEF VectorsHold
  <2>1. \A r \in Rows(f) : returned[f][r] = IF IsReturned(f, r) THEN 1 ELSE 0
    BY DEF IInv, ChunkInv
  <2>2. ASSUME NEW r \in Rows(f), filter[f] # NoFilter, r \in Deleted(f)
        PROVE  returned[f][r] = 0
    <3>1. f \in opened
      BY <2>2 DEF IInv, ReaderInv
    <3>2. ~KeptByFilter(f, r)
      BY <2>2, <3>1, FilterOfFile DEF IInv
    <3>. QED BY <2>1, <3>2 DEF IsReturned
  <2>3. ASSUME ~CanFilter(files[f])
        PROVE  status # "ok" /\ \A r \in Rows(f) : returned[f][r] = 0
    <3>1. f \notin opened
      BY <2>3 DEF IInv, ReaderInv
    <3>2. scanned[f] = {}
      BY <3>1 DEF IInv, ChunkInv
    <3>3. status # "ok"
      BY <3>1 DEF IInv, StatusInv
    <3>. QED BY <2>1, <3>2, <3>3 DEF IsReturned
  <2>. QED BY <2>1, <2>2, <2>3
<1>. QED BY <1>1, ScanInductive, PTL

\* The rows of a file carry its own partition values, all cast, its own kind of change
\* and its own commit, however files are interleaved.
THEOREM ConstantsCorrect == Spec => []ConstantsOfOwnFile
<1>1. IInv => ConstantsOfOwnFile
  <2>. SUFFICES ASSUME IInv, NEW f \in opened, NEW c \in Columns, files[f].partition = "object"
                PROVE  /\ c \in DOMAIN files[f].values =>
                             /\ ValueOf(f, c) = PartitionValue(files[f], c)
                             /\ ValueOf(f, c) # CastFails
                       /\ c = ChangeType /\ files[f].action # ""
                             /\ c \notin DOMAIN files[f].values => ValueOf(f, c) = files[f].action
                       /\ c = CommitVersion /\ files[f].version >= 0
                             /\ c \notin DOMAIN files[f].values => ValueOf(f, c) = files[f].version
                       /\ c = CommitTimestamp /\ files[f].timestamp > 0
                             /\ c \notin DOMAIN files[f].values => ValueOf(f, c) = files[f].timestamp
    BY DEF ConstantsOfOwnFile
  <2>1. constants[f] = ConstantMap(files[f]) /\ CanInject(files[f])
    BY DEF IInv, ReaderInv
  <2>2. HasInjected(files[f], c) => ValueOf(f, c) = Injected(files[f], c)
    BY <2>1 DEF ValueOf, ConstantMap, InjectedColumns
  <2>3. c \in DOMAIN files[f].values => PartitionValue(files[f], c) # CastFails
    BY <2>1 DEF CanInject, InjectedColumns, HasInjected
  <2>. QED BY <2>2, <2>3 DEF HasInjected, Injected, ChangeType, CommitVersion, CommitTimestamp
<1>. QED BY <1>1, ScanInductive, PTL

-------------------------------------------------------------------------------
\* Columns

\* No two of the columns, or of the fields, have one name.
Distinct(cols) == \A i, j \in DOMAIN cols : cols[i].name = cols[j].name => i = j

ColumnsOf(fields) == {Column(field.name, PhysicalName(field)) : field \in fields}

OwnColumns(names) == {Column(n, n) : n \in names}

\* A column of a new name joins the others.
LEMMA AppendColumn ==
    ASSUME NEW V, NEW cols \in Seq(V), NEW c \in V
    PROVE  /\ ToSet(Append(cols, c)) = ToSet(cols) \cup {c}
           /\ Names(Append(cols, c)) = Names(cols) \cup {c.name}
           /\ Distinct(cols) /\ c.name \notin Names(cols) => Distinct(Append(cols, c))
<1> DEFINE n == Len(cols)
<1>1. /\ n \in Nat /\ Append(cols, c) \in Seq(V) /\ Len(Append(cols, c)) = n + 1
      /\ DOMAIN cols = 1..n /\ DOMAIN Append(cols, c) = 1..n + 1
  BY AppendProperties
<1>2. Append(cols, c)[n + 1] = c /\ \A i \in 1..n : Append(cols, c)[i] = cols[i]
  BY AppendProperties
<1>3. \A i \in 1..n + 1 : i \in 1..n \/ i = n + 1
  BY <1>1
<1>. HIDE DEF n
<1>4. 1..n + 1 = 1..n \cup {n + 1}
  BY <1>1
<1>5. ToSet(Append(cols, c)) = ToSet(cols) \cup {c}
  BY <1>1, <1>2, <1>4 DEF ToSet
<1>6. Names(Append(cols, c)) = Names(cols) \cup {c.name}
  BY <1>5 DEF Names
<1>7. ASSUME Distinct(cols), c.name \notin Names(cols),
             NEW i \in 1..n + 1, NEW j \in 1..n + 1,
             Append(cols, c)[i].name = Append(cols, c)[j].name
      PROVE  i = j
  <2>1. \A k \in 1..n : cols[k].name # c.name
    BY <1>1, <1>7 DEF Names, ToSet
  <2>. QED BY <1>1, <1>2, <1>3, <1>7, <2>1 DEF Distinct
<1>. QED BY <1>1, <1>5, <1>6, <1>7 DEF Distinct

\* The fields of a schema become columns of their names, those without a type none.
LEMMA ParsedFields ==
    ASSUME NEW T
    PROVE  \A fs \in Seq(T) :
              Distinct(fs) =>
                 LET cols == FlattenSeq([i \in DOMAIN fs |-> Parsed(fs[i], PhysicalName(fs[i]))])
                 IN  cols \in Seq(ColumnsOf(T)) /\ Distinct(cols) /\ Names(cols) \subseteq Names(fs)
<1> DEFINE V == ColumnsOf(T)
           Each(fs) == [i \in DOMAIN fs |-> Parsed(fs[i], PhysicalName(fs[i]))]
           Good(fs) == Distinct(fs) =>
                          /\ FlattenSeq(Each(fs)) \in Seq(V)
                          /\ Distinct(FlattenSeq(Each(fs)))
                          /\ Names(FlattenSeq(Each(fs))) \subseteq Names(fs)
           S == {fs \in Seq(T) : Good(fs)}
<1>1. <<>> \in S
  <2>1. Each(<<>>) = <<>> /\ <<>> \in Seq(T) /\ <<>> \in Seq(V)
    BY EmptySeq
  <2>2. Distinct(<<>>) /\ Names(<<>>) = {}
    BY DEF Distinct, Names, ToSet
  <2>. QED BY <2>1, <2>2, FlattenEmpty
<1>2. ASSUME NEW fs \in Seq(T), NEW e \in T, fs \in S PROVE Append(fs, e) \in S
  <2>. SUFFICES ASSUME Distinct(Append(fs, e)) PROVE Good(Append(fs, e))
    BY AppendProperties
  <2> DEFINE c == Column(e.name, PhysicalName(e))
  <2>1. Parsed(e, PhysicalName(e)) \in {<<>>, <<c>>} /\ c \in V
    BY DEF Parsed, ColumnsOf
  <2>2. \A f \in T : Parsed(f, PhysicalName(f)) \in Seq(V)
    <3>. TAKE f \in T
    <3>1. Column(f.name, PhysicalName(f)) \in V
      BY DEF ColumnsOf
    <3>. HIDE DEF V
    <3>. QED BY <3>1 DEF Parsed
  <2>. HIDE DEF V
  <2>3. Each(fs) \in Seq(Seq(V))
    <3>1. Each(fs) \in [1..Len(fs) -> Seq(V)] /\ Len(fs) \in Nat
      BY <2>2
    <3>. QED BY <3>1
  <2>4. Each(Append(fs, e)) = Append(Each(fs), Parsed(e, PhysicalName(e)))
    BY <2>2, <2>3
  <2>5. FlattenSeq(Each(Append(fs, e))) = FlattenSeq(Each(fs)) \o Parsed(e, PhysicalName(e))
    <3>1. Parsed(e, PhysicalName(e)) \in Seq(V)
      BY <2>2
    <3>. QED BY <2>3, <2>4, <3>1, FlattenAppend
  <2>6. Distinct(fs) /\ e.name \notin Names(fs)
    <3>1. Len(fs) \in Nat /\ Len(Append(fs, e)) = Len(fs) + 1 /\ Append(fs, e)[Len(fs) + 1] = e
      BY AppendProperties
    <3>2. \A i \in 1..Len(fs) : Append(fs, e)[i] = fs[i] /\ i \in 1..Len(fs) + 1 /\ i # Len(fs) + 1
      BY AppendProperties
    <3>3. /\ DOMAIN Append(fs, e) = 1..Len(fs) + 1 /\ DOMAIN fs = 1..Len(fs)
          /\ Len(fs) + 1 \in 1..Len(fs) + 1
      BY <3>1
    <3>. QED BY <3>1, <3>2, <3>3 DEF Distinct, Names, ToSet
  <2>7. Names(Append(fs, e)) = Names(fs) \cup {e.name}
    BY AppendColumn
  <2>8. PICK cols \in Seq(V) : /\ cols = FlattenSeq(Each(fs))
                               /\ Distinct(cols) /\ Names(cols) \subseteq Names(fs)
    BY <1>2, <2>6
  <2>9. c.name = e.name
    BY DEF Column
  <2>. HIDE DEF c, Each
  <2>10. CASE Parsed(e, PhysicalName(e)) = <<>>
    <3>1. FlattenSeq(Each(Append(fs, e))) = cols
      BY <2>5, <2>8, <2>10, ConcatEmptySeq
    <3>. QED BY <2>7, <2>8, <3>1
  <2>11. CASE Parsed(e, PhysicalName(e)) = <<c>>
    <3>1. FlattenSeq(Each(Append(fs, e))) = Append(cols, c)
      BY <2>1, <2>5, <2>8, <2>11, AppendIsConcat
    <3>2. Append(cols, c) \in Seq(V)
      BY <2>1, AppendProperties
    <3>3. /\ Names(Append(cols, c)) = Names(cols) \cup {c.name}
          /\ Distinct(Append(cols, c))
      BY <2>1, <2>6, <2>8, <2>9, AppendColumn
    <3>. QED BY <2>7, <2>8, <2>9, <3>1, <3>2, <3>3
  <2>. QED BY <2>1, <2>10, <2>11
<1>. HIDE DEF S
<1>3. \A fs \in Seq(T) : fs \in S
  BY <1>1, <1>2, SeqInduction
<1>. QED BY <1>3 DEF S

\* The columns of a table's schema.
LEMMA SchemaColumns ==
    ASSUME NEW t \in Tables
    PROVE  /\ \E fields : ParseSparkSchema(t) \in Seq(ColumnsOf(fields))
           /\ t.fields # NoSchema => ParseSparkSchema(t) \in Seq(ColumnsOf(ToSet(t.fields)))
           /\ t.fields = NoSchema => ParseSparkSchema(t) = <<>>
           /\ Distinct(ParseSparkSchema(t))
<1>1. CASE t.fields = NoSchema
  <2>1. ParseSparkSchema(t) = <<>> /\ <<>> \in Seq(ColumnsOf({}))
    BY <1>1, EmptySeq DEF ParseSparkSchema
  <2>. QED BY <1>1, <2>1 DEF Distinct
<1>2. CASE t.fields # NoSchema
  <2> DEFINE cols == FlattenSeq([i \in DOMAIN t.fields |->
                                   Parsed(t.fields[i], PhysicalName(t.fields[i]))])
  <2>1. t.fields \in Seq(ToSet(t.fields)) /\ Distinct(t.fields)
    BY <1>2, ScanBindAssumption DEF Distinct
  <2>2. cols \in Seq(ColumnsOf(ToSet(t.fields))) /\ Distinct(cols)
    BY <2>1, ParsedFields
  <2>3. ParseSparkSchema(t) = cols
    BY <1>2 DEF ParseSparkSchema
  <2>. QED BY <1>2, <2>2, <2>3
<1>. QED BY <1>1, <1>2

-------------------------------------------------------------------------------
\* What AppendMissing appends

\* all has the columns cols and, for each of the names M, one of that name.
Adds(all, cols, M) == ToSet(all) = ToSet(cols) \cup OwnColumns(M)

\* The columns that the first i names add to cols.
Grown(all, cols, names, i) ==
    /\ Distinct(all)
    /\ IsPrefix(cols, all)
    /\ Adds(all, cols, {names[j] : j \in 1..i} \ Names(cols))

\* The function that AppendMissing chooses takes one step with every name.
Growing(F, cols, names) ==
    /\ F[0] = cols
    /\ \A i \in 1..Len(names) : F[i] = AddMissing(F[i - 1], names[i])
    /\ AppendMissing(cols, names) = F[Len(names)]

LEMMA AppendMissingRun ==
    ASSUME NEW V, NEW cols \in Seq(V), NEW N, NEW names \in Seq(N),
           OwnColumns(N) \subseteq V
    PROVE  \E F \in [0..Len(names) -> Seq(V)] : Growing(F, cols, names)
<1> DEFINE W == Seq(V)
           step == [p \in W \X N |-> AddMissing(p[1], p[2])]
           Grows(F) == F = [i \in 0..Len(names) |->
                              IF i = 0 THEN cols ELSE AddMissing(F[i - 1], names[i])]
           C == CHOOSE F : Grows(F)
<1>1. step \in [W \X N -> W]
  <2>1. ASSUME NEW p \in W \X N PROVE AddMissing(p[1], p[2]) \in W
    <3>1. p[1] \in Seq(V) /\ p[2] \in N
      OBVIOUS
    <3>2. Column(p[2], p[2]) \in V
      BY <3>1 DEF OwnColumns
    <3>3. Append(p[1], Column(p[2], p[2])) \in Seq(V)
      BY <3>1, <3>2, AppendProperties
    <3>. QED BY <3>1, <3>3 DEF AddMissing
  <2>. QED BY <2>1
<1>2. cols \in W
  OBVIOUS
<1>. HIDE DEF W
<1>3. \A x \in W, n \in N : step[<<x, n>>] = AddMissing(x, n)
  OBVIOUS
<1>. HIDE DEF step
<1>4. PICK F \in [0..Len(names) -> W] : IsRun(F, step, cols, names)
  BY <1>1, <1>2, RunExists
<1>5. F[0] = cols /\ \A i \in 1..Len(names) : F[i] = AddMissing(F[i - 1], names[i])
  <2>1. F[0] = cols /\ \A i \in 1..Len(names) : F[i] = step[<<F[i - 1], names[i]>>]
    BY <1>4 DEF IsRun
  <2>2. ASSUME NEW i \in 1..Len(names) PROVE F[i] = AddMissing(F[i - 1], names[i])
    <3>1. i - 1 \in 0..Len(names) /\ names[i] \in N
      OBVIOUS
    <3>2. F[i - 1] \in W
      BY <3>1
    <3>. QED BY <1>3, <2>1, <3>1, <3>2
  <2>. QED BY <2>1, <2>2
<1>6. Grows(F)
  <2>1. \A i \in 0..Len(names) : i = 0 \/ i \in 1..Len(names)
    OBVIOUS
  <2>2. \A i \in 0..Len(names) :
           F[i] = IF i = 0 THEN cols ELSE AddMissing(F[i - 1], names[i])
    BY <1>5, <2>1
  <2>3. F = [i \in 0..Len(names) |-> F[i]]
    OBVIOUS
  <2>. QED BY <2>2, <2>3
<1>7. Grows(C)
  BY <1>6
<1>8. Len(names) \in Nat /\ AppendMissing(cols, names) = C[Len(names)]
  BY DEF AppendMissing
<1>. HIDE DEF C
<1>9. C[0] = cols /\ \A i \in 1..Len(names) : C[i] = AddMissing(C[i - 1], names[i])
  <2>1. 0 \in 0..Len(names) /\ \A i \in 1..Len(names) : i \in 0..Len(names) /\ i # 0
    OBVIOUS
  <2>. QED BY <1>7, <2>1
<1>10. Follow(F, C, Len(names))
  BY <1>5, <1>9 DEF Follow
<1>11. \A i \in 0..Len(names) : F[i] = C[i]
  BY <1>8, <1>10, RunsAgree
<1>12. Growing(F, cols, names)
  BY <1>5, <1>8, <1>11 DEF Growing
<1>. QED BY <1>4, <1>12 DEF W

LEMMA PrefixAppend ==
    ASSUME NEW V, NEW p \in Seq(V), NEW s \in Seq(V), IsPrefix(p, s), NEW e \in V
    PROVE  IsPrefix(p, Append(s, e))
<1>1. /\ Len(p) \in Nat /\ Len(s) \in Nat /\ Len(Append(s, e)) = Len(s) + 1
      /\ Append(s, e) \in Seq(V) /\ \A i \in 1..Len(s) : Append(s, e)[i] = s[i]
  BY AppendProperties
<1>2. Len(p) <= Len(s) /\ SubSeq(p, 1, Len(p)) = SubSeq(s, 1, Len(p))
  BY DEF IsPrefix
<1>3. SubSeq(s, 1, Len(p)) = SubSeq(Append(s, e), 1, Len(p))
  BY <1>1, <1>2
<1>. QED BY <1>1, <1>2, <1>3 DEF IsPrefix

LEMMA PrefixSelf ==
    ASSUME NEW V, NEW s \in Seq(V)
    PROVE  IsPrefix(s, s)
BY DEF IsPrefix

LEMMA NamesAdded ==
    ASSUME NEW all, NEW cols, NEW M, Adds(all, cols, M)
    PROVE  Names(all) = Names(cols) \cup M
<1>1. \A m \in M : Column(m, m) \in OwnColumns(M) /\ Column(m, m).name = m
  BY DEF OwnColumns, Column
<1>2. \A c \in OwnColumns(M) : c.name \in M
  BY DEF OwnColumns, Column
<1>. QED BY <1>1, <1>2 DEF Names, Adds

\* AppendMissing keeps the columns it is given and adds one for every other name.
LEMMA AppendMissingGrows ==
    ASSUME NEW V, NEW cols \in Seq(V), Distinct(cols), NEW N, NEW names \in Seq(N),
           OwnColumns(N) \subseteq V
    PROVE  /\ AppendMissing(cols, names) \in Seq(V)
           /\ Grown(AppendMissing(cols, names), cols, names, Len(names))
<1>1. PICK F \in [0..Len(names) -> Seq(V)] : Growing(F, cols, names)
  BY AppendMissingRun
<1> DEFINE S == {i \in Nat : i <= Len(names) => Grown(F[i], cols, names, i)}
<1>2. 0 \in S
  <2>1. F[0] = cols /\ {names[j] : j \in 1..0} = {}
    BY <1>1 DEF Growing
  <2>2. Adds(cols, cols, {} \ Names(cols))
    BY DEF Adds, OwnColumns
  <2>. QED BY <2>1, <2>2, PrefixSelf DEF Grown
<1>3. ASSUME NEW i \in Nat, i \in S PROVE i + 1 \in S
  <2>. SUFFICES ASSUME i + 1 <= Len(names) PROVE Grown(F[i + 1], cols, names, i + 1)
    OBVIOUS
  <2>1. i + 1 \in 1..Len(names) /\ (i + 1) - 1 = i /\ i \in 0..Len(names) /\ i <= Len(names)
    OBVIOUS
  <2>2. PICK all \in Seq(V) : all = F[i]
    BY <2>1
  <2>3. PICK n \in N : n = names[i + 1]
    BY <2>1
  <2>4. Grown(all, cols, names, i) /\ F[i + 1] = AddMissing(all, n)
    BY <1>1, <1>3, <2>1, <2>2, <2>3 DEF Growing
  <2>5. {names[j] : j \in 1..i + 1} = {names[j] : j \in 1..i} \cup {n}
    <3>1. 1..i + 1 = 1..i \cup {i + 1}
      OBVIOUS
    <3>. QED BY <2>3, <3>1
  <2>6. Names(all) = Names(cols) \cup {names[j] : j \in 1..i}
    <3>1. PICK M : M = {names[j] : j \in 1..i} \ Names(cols)
      OBVIOUS
    <3>2. Adds(all, cols, M)
      BY <2>4, <3>1 DEF Grown
    <3>3. Names(all) = Names(cols) \cup M
      BY <3>2, NamesAdded
    <3>. QED BY <3>1, <3>3
  <2>7. CASE n \in Names(all)
    <3>1. F[i + 1] = all
      BY <2>4, <2>7 DEF AddMissing
    <3>2. {names[j] : j \in 1..i + 1} \ Names(cols) = {names[j] : j \in 1..i} \ Names(cols)
      BY <2>5, <2>6, <2>7
    <3>. QED BY <2>4, <3>1, <3>2 DEF Grown, Adds
  <2>8. CASE n \notin Names(all)
    <3>1. F[i + 1] = Append(all, Column(n, n))
      BY <2>4, <2>8 DEF AddMissing
    <3>2. Column(n, n) \in V /\ Column(n, n).name = n
      BY DEF OwnColumns, Column
    <3>3. ToSet(F[i + 1]) = ToSet(all) \cup {Column(n, n)} /\ Distinct(F[i + 1])
      <4>1. Distinct(all)
        BY <2>4 DEF Grown
      <4>2. PICK c \in V : c = Column(n, n) /\ c.name = n
        BY <3>2
      <4>. QED BY <2>8, <3>1, <4>1, <4>2, AppendColumn
    <3>4. IsPrefix(cols, F[i + 1])
      <4>1. IsPrefix(cols, all)
        BY <2>4 DEF Grown
      <4>. QED BY <3>1, <3>2, <4>1, PrefixAppend
    <3>5. OwnColumns({names[j] : j \in 1..i + 1} \ Names(cols))
            = OwnColumns({names[j] : j \in 1..i} \ Names(cols)) \cup {Column(n, n)}
      BY <2>5, <2>6, <2>8 DEF OwnColumns
    <3>. QED BY <2>4, <3>3, <3>4, <3>5 DEF Grown, Adds
  <2>. QED BY <2>7, <2>8
<1>. HIDE DEF S
<1>4. Len(names) \in S /\ Len(names) \in Nat
  BY <1>2, <1>3, SetInduction
<1>5. AppendMissing(cols, names) = F[Len(names)] /\ F[Len(names)] \in Seq(V)
  BY <1>1, <1>4 DEF Growing
<1>. QED BY <1>4, <1>5 DEF S

-------------------------------------------------------------------------------
\* The columns of a bind

LEMMA ToSetConcat ==
    ASSUME NEW T, NEW s \in Seq(T), NEW t \in Seq(T)
    PROVE  ToSet(s \o t) = ToSet(s) \cup ToSet(t)
<1>1. /\ s \o t \in Seq(T) /\ Len(s \o t) = Len(s) + Len(t)
      /\ \A i \in 1..Len(s) : (s \o t)[i] = s[i]
      /\ \A i \in 1..Len(t) : (s \o t)[Len(s) + i] = t[i]
  BY ConcatProperties
<1>2. \A i \in 1..Len(s) + Len(t) :
         i \in 1..Len(s) \/ \E j \in 1..Len(t) : i = Len(s) + j
  <2>. TAKE i \in 1..Len(s) + Len(t)
  <2>1. i \in 1..Len(s) \/ (i - Len(s) \in 1..Len(t) /\ i = Len(s) + (i - Len(s)))
    OBVIOUS
  <2>. QED BY <2>1
<1>3. \A i \in 1..Len(t) : Len(s) + i \in 1..Len(s) + Len(t)
  OBVIOUS
<1>4. \A i \in 1..Len(s) : i \in 1..Len(s) + Len(t)
  OBVIOUS
<1>5. /\ DOMAIN s = 1..Len(s) /\ DOMAIN t = 1..Len(t)
      /\ DOMAIN (s \o t) = 1..Len(s) + Len(t)
  BY <1>1
<1>6. ToSet(s \o t) = {(s \o t)[i] : i \in 1..Len(s) + Len(t)}
  BY <1>5 DEF ToSet
<1>7. ToSet(s) = {s[i] : i \in 1..Len(s)} /\ ToSet(t) = {t[i] : i \in 1..Len(t)}
  BY <1>5 DEF ToSet
<1>8. ASSUME NEW e \in ToSet(s \o t) PROVE e \in ToSet(s) \cup ToSet(t)
  <2>1. PICK i \in 1..Len(s) + Len(t) : e = (s \o t)[i]
    BY <1>6
  <2>. QED BY <1>1, <1>2, <1>7, <2>1
<1>9. ToSet(s) \cup ToSet(t) \subseteq ToSet(s \o t)
  BY <1>1, <1>3, <1>4, <1>6, <1>7
<1>. QED BY <1>8, <1>9

\* The elements of a sequence are finitely many, and as many as its length if no two
\* of them have one name.
LEMMA DistinctLength ==
    ASSUME NEW T, NEW s \in Seq(T)
    PROVE  /\ IsFiniteSet(ToSet(s))
           /\ Distinct(s) => Cardinality(ToSet(s)) = Len(s)
<1>1. Len(s) \in Nat /\ DOMAIN s = 1..Len(s) /\ IsFiniteSet(1..Len(s))
  BY FS_Interval
<1>2. s \in Surjection(1..Len(s), ToSet(s))
  <2>1. ToSet(s) = {s[i] : i \in 1..Len(s)}
    BY <1>1 DEF ToSet
  <2>2. s \in [1..Len(s) -> ToSet(s)] /\ \A e \in ToSet(s) : \E i \in 1..Len(s) : s[i] = e
    BY <2>1
  <2>. QED BY <2>2 DEF Surjection
<1>3. IsFiniteSet(ToSet(s))
  BY <1>1, <1>2, FS_Surjection
<1>4. ASSUME Distinct(s) PROVE Cardinality(ToSet(s)) = Len(s)
  <2>1. s \in Injection(1..Len(s), ToSet(s))
    BY <1>1, <1>2, <1>4 DEF Distinct, Injection, Surjection, IsInjective
  <2>2. s \in Bijection(1..Len(s), ToSet(s))
    BY <1>2, <2>1 DEF Bijection
  <2>. QED BY <1>1, <2>2, FS_CountingElements DEF ExistsBijection
<1>. QED BY <1>3, <1>4

\* The order of a hash set is a sequence of all its members.
LEMMA OrderHasAll ==
    ASSUME NEW S, IsFiniteSet(S), NEW order \in SetToSeqs(S)
    PROVE  order \in Seq(S) /\ ToSet(order) = S
<1> DEFINE D == 1..Cardinality(S)
<1>1. Cardinality(S) \in Nat
  BY FS_CardinalityType
<1>2. IsFiniteSet(D) /\ Cardinality(D) = Cardinality(S)
  BY <1>1, FS_Interval
<1>3. order \in [D -> S] /\ \A i, j \in D : i # j => order[i] # order[j]
  BY DEF SetToSeqs
<1>4. order \in Injection(D, S)
  BY <1>3 DEF Injection, IsInjective
<1>5. order \in Surjection(D, S)
  <2>. HIDE DEF D
  <2>. QED BY <1>2, <1>4, FS_Injection
<1>6. order \in Seq(S) /\ DOMAIN order = D
  BY <1>1, <1>3
<1>. QED BY <1>5, <1>6 DEF Surjection, ToSet

\* The columns all of a bind by function k: the fields of the schema in their order,
\* then a column for every partition column and change column the schema lacks.
BindsTable(all, t, k) ==
    /\ \E V : all \in Seq(V)
    /\ Distinct(all)
    /\ IsPrefix(ParseSparkSchema(t), all)
    /\ Adds(all, ParseSparkSchema(t),
            (ToSet(t.partitions) \cup ToSet(ChangeColumns(k))) \ Names(ParseSparkSchema(t)))

LEMMA AppendsPartitions ==
    ASSUME NEW t \in Tables, NEW k,
           NEW order \in Seq(ToSet(t.partitions)), ToSet(order) = ToSet(t.partitions)
    PROVE  BindsTable(AppendMissing(ParseSparkSchema(t), order \o ChangeColumns(k)), t, k)
<1> DEFINE schema == ParseSparkSchema(t)
           N == ToSet(t.partitions) \cup {ChangeType, CommitVersion, CommitTimestamp}
           names == order \o ChangeColumns(k)
           all == AppendMissing(schema, names)
<1>1. PICK fields : schema \in Seq(ColumnsOf(fields))
  BY SchemaColumns
<1>2. Distinct(schema)
  BY SchemaColumns
<1>3. order \in Seq(N) /\ ChangeColumns(k) \in Seq(N)
  <2>1. order \in Seq(N)
    OBVIOUS
  <2>2. {ChangeType, CommitVersion, CommitTimestamp} \subseteq N
    OBVIOUS
  <2>. HIDE DEF N
  <2>. QED BY <2>1, <2>2 DEF ChangeColumns
<1>4. names \in Seq(N) /\ ToSet(names) = ToSet(t.partitions) \cup ToSet(ChangeColumns(k))
  BY <1>3, ToSetConcat, ConcatProperties
<1>. HIDE DEF N, names
<1> DEFINE V == ColumnsOf(fields) \cup OwnColumns(N)
<1>5. schema \in Seq(V) /\ OwnColumns(N) \subseteq V
  BY <1>1
<1>. HIDE DEF V, schema
<1>6. all \in Seq(V) /\ Grown(all, schema, names, Len(names))
  BY <1>2, <1>4, <1>5, AppendMissingGrows
<1>7. {names[j] : j \in 1..Len(names)} = ToSet(names)
  BY <1>4 DEF ToSet
<1>8. /\ Distinct(all) /\ IsPrefix(schema, all)
      /\ Adds(all, schema, ToSet(names) \ Names(schema))
  BY <1>6, <1>7 DEF Grown
<1>. QED BY <1>4, <1>6, <1>8 DEF BindsTable, schema, names

LEMMA BothBindTable ==
    ASSUME NEW t \in Tables, NEW k
    PROVE  /\ BindsTable(EmptyColumns(t, k), t, k)
           /\ \A cols \in FullColumns(t, k) : BindsTable(cols, t, k)
<1>1. t.partitions \in Seq(ToSet(t.partitions))
  BY ScanBindAssumption
<1>2. BindsTable(EmptyColumns(t, k), t, k)
  BY <1>1, AppendsPartitions DEF EmptyColumns
<1>3. ASSUME NEW order \in SetToSeqs(ToSet(t.partitions))
      PROVE  BindsTable(AppendMissing(ParseSparkSchema(t), order \o ChangeColumns(k)), t, k)
  <2>1. order \in Seq(ToSet(t.partitions)) /\ ToSet(order) = ToSet(t.partitions)
    BY <1>1, DistinctLength, OrderHasAll
  <2>. QED BY <2>1, AppendsPartitions
<1>. QED BY <1>2, <1>3 DEF FullColumns

\* Any two binds of a table have the same columns.
LEMMA BindsAlike ==
    ASSUME NEW t, NEW k, NEW a, NEW b, BindsTable(a, t, k), BindsTable(b, t, k)
    PROVE  /\ ToSet(a) = ToSet(b)
           /\ Len(a) = Len(b)
           /\ Names(a) = Names(ParseSparkSchema(t)) \cup ToSet(t.partitions)
                                                    \cup ToSet(ChangeColumns(k))
<1>1. ToSet(a) = ToSet(b)
  BY DEF BindsTable, Adds
<1>2. PICK V : a \in Seq(V)
  BY DEF BindsTable
<1>3. PICK W : b \in Seq(W)
  BY DEF BindsTable
<1>4. Cardinality(ToSet(a)) = Len(a) /\ Cardinality(ToSet(b)) = Len(b)
  BY <1>2, <1>3, DistinctLength DEF BindsTable
<1>5. PICK M : M = (ToSet(t.partitions) \cup ToSet(ChangeColumns(k))) \ Names(ParseSparkSchema(t))
  OBVIOUS
<1>6. Adds(a, ParseSparkSchema(t), M)
  BY <1>5 DEF BindsTable
<1>7. Names(a) = Names(ParseSparkSchema(t)) \cup M
  BY <1>6, NamesAdded
<1>. QED BY <1>1, <1>4, <1>5, <1>7

-------------------------------------------------------------------------------
\* The bound columns

Refused(f) == ~CanFilter(files[f]) \/ ~CanInject(files[f]) \/ ~CanMap(files[f])

\* The columns are those of the table, once it is bound, and a query only fails at a
\* file that has no filter, a value that is not cast, or no mapping.
BindInv ==
    /\ table \in Tables
    /\ status \in {"unbound", "unbindable", "scanning", "ok", "stopped", "error"}
    /\ columns = <<>> \/ BindsTable(columns, table, kind)
    /\ status \notin {"unbound", "unbindable"} => columns # <<>>
    /\ status = "error" => \E f \in FileIds : Refused(f)

LEMMA BindInitially == Init => BindInv
BY DEF Init, BindInit, BindInv

\* A file goes on being refused, or not.
LEMMA SameRefused ==
    ASSUME UNCHANGED <<table, files, columns>>
    PROVE  FileIds' = FileIds /\ \A f : Refused(f)' = Refused(f)
<1>1. /\ table' = table /\ files' = files /\ columns' = columns
  OBVIOUS
<1>2. FileIds' = FileIds /\ \A f : CanFilter(files[f])' = CanFilter(files[f])
  BY <1>1 DEF FileIds, CanFilter
<1>3. \A f : ConstantMap(files[f])' = ConstantMap(files[f]) /\ CanInject(files[f])' = CanInject(files[f])
  BY SameConstants
<1>4. \A f : CanMap(files[f])' = CanMap(files[f])
  BY <1>1, <1>3 DEF CanMap, Columns
<1>. QED BY <1>2, <1>3, <1>4 DEF Refused

LEMMA SameBind ==
    ASSUME BindInv, UNCHANGED <<kind, table, files, columns>>,
           status' = status \/ status' \in {"unbindable", "ok", "stopped"},
           status \in {"unbound", "unbindable"} => status' \in {status, "unbindable"}
    PROVE  BindInv'
<1>1. /\ kind' = kind /\ table' = table /\ files' = files /\ columns' = columns
  OBVIOUS
<1>2. /\ table' \in Tables
      /\ status' \in {"unbound", "unbindable", "scanning", "ok", "stopped", "error"}
      /\ columns' = <<>> \/ BindsTable(columns', table', kind')
      /\ status' \notin {"unbound", "unbindable"} => columns' # <<>>
  BY <1>1 DEF BindInv
<1>3. ASSUME status' = "error" PROVE \E f \in FileIds' : Refused(f)'
  <2>1. PICK f \in FileIds : Refused(f)
    BY <1>3 DEF BindInv
  <2>2. FileIds' = FileIds /\ Refused(f)' = Refused(f)
    BY <1>1, SameRefused
  <2>. QED BY <2>1, <2>2
<1>. QED BY <1>2, <1>3 DEF BindInv

LEMMA BindPreserved == BindInv /\ [Next]_vars => BindInv'
<1>. SUFFICES ASSUME BindInv, [Next]_vars PROVE BindInv'
  OBVIOUS
<1>1. ASSUME NEW cols, BindsTable(cols, table, kind), Bound(cols) PROVE BindInv'
  BY <1>1 DEF BindInv, Bound
<1>2. CASE BindEmpty
  BY <1>1, <1>2, BothBindTable DEF BindEmpty, BindInv
<1>3. CASE BindFull
  BY <1>1, <1>3, BothBindTable DEF BindFull, BindInv
<1>4. CASE BindFails
  BY <1>4, SameBind DEF BindFails
<1>5. ASSUME NEW f \in FileIds, InitializeReader(f) PROVE BindInv'
  BY <1>5, SameBind DEF InitializeReader, bindVars
<1>6. ASSUME NEW f \in FileIds, InitializeFails(f) PROVE BindInv'
  <2>1. /\ kind' = kind /\ table' = table /\ files' = files /\ columns' = columns
        /\ status = "scanning" /\ status' = "error"
        /\ Refused(f)
    BY <1>6 DEF InitializeFails, Refused
  <2>2. FileIds' = FileIds /\ Refused(f)' = Refused(f)
    BY <2>1, SameRefused
  <2>3. \E g \in FileIds' : Refused(g)'
    BY <2>1, <2>2
  <2>. QED BY <2>1, <2>3 DEF BindInv
<1>7. ASSUME NEW f \in FileIds, ScanChunk(f) PROVE BindInv'
  BY <1>7, SameBind DEF ScanChunk, bindVars
<1>8. CASE Finish
  BY <1>8, SameBind DEF Finish
<1>9. CASE StopEarly
  BY <1>9, SameBind DEF StopEarly
<1>10. CASE UNCHANGED vars
  BY <1>10, SameBind DEF vars, bindVars
<1>. QED BY <1>2, <1>3, <1>4, <1>5, <1>6, <1>7, <1>8, <1>9, <1>10 DEF Next, BindScan

LEMMA BindInductive == Spec => []BindInv
<1>. QED BY BindInitially, BindPreserved, PTL DEF Spec

\* A table has the same columns whether it has files or not, in whatever order a hash
\* set gives its partition columns.
THEOREM BindsAlikeCorrect == Spec => []EmptyBindsAlike
<1>1. BindInv => EmptyBindsAlike
  <2>. SUFFICES ASSUME BindInv, status \notin {"unbound", "unbindable"}
                PROVE  EmptyBindsAlike
    BY DEF EmptyBindsAlike
  <2>1. table \in Tables /\ BindsTable(columns, table, kind)
    BY DEF BindInv
  <2>2. BindsTable(EmptyColumns(table, kind), table, kind)
    BY <2>1, BothBindTable
  <2>3. /\ ToSet(columns) = ToSet(EmptyColumns(table, kind))
        /\ Len(columns) = Len(EmptyColumns(table, kind))
        /\ Names(columns) = Names(ParseSparkSchema(table)) \cup ToSet(table.partitions)
                                                           \cup ToSet(ChangeColumns(kind))
    BY <2>1, <2>2, BindsAlike
  <2>4. IsPrefix(ParseSparkSchema(table), columns) /\ Distinct(columns)
    BY <2>1 DEF BindsTable
  <2>. QED BY <2>3, <2>4 DEF EmptyBindsAlike, Distinct
<1>. QED BY <1>1, BindInductive, PTL

LEMMA BoundColumnsAre ==
    ASSUME NEW t \in Tables, NEW k, NEW cols, BindsTable(cols, t, k), NEW c \in ToSet(cols)
    PROVE  \/ /\ t.fields # NoSchema
              /\ \E field \in ToSet(t.fields) : c = Column(field.name, PhysicalName(field))
           \/ \E n : n \notin Names(ParseSparkSchema(t)) /\ c = Column(n, n)
<1>1. c \in ToSet(ParseSparkSchema(t)) \/ \E n : n \notin Names(ParseSparkSchema(t)) /\ c = Column(n, n)
  BY DEF BindsTable, Adds, OwnColumns
<1>2. ASSUME c \in ToSet(ParseSparkSchema(t))
      PROVE  /\ t.fields # NoSchema
             /\ \E field \in ToSet(t.fields) : c = Column(field.name, PhysicalName(field))
  <2>1. t.fields # NoSchema
    <3>1. ToSet(<<>>) = {}
      BY DEF ToSet
    <3>. QED BY <1>2, <3>1, SchemaColumns
  <2>2. ParseSparkSchema(t) \in Seq(ColumnsOf(ToSet(t.fields)))
    BY <2>1, SchemaColumns
  <2>3. c \in ColumnsOf(ToSet(t.fields))
    BY <1>2, <2>2 DEF ToSet
  <2>. QED BY <2>1, <2>3 DEF ColumnsOf
<1>. QED BY <1>1, <1>2

\* A scan keeps its types, for every table, file list, chunk size and width of row
\* numbers: every column has both names, and no constant is there that is no column.
THEOREM ScanTypeCorrect == Spec => []TypeOK
<1>1. IInv /\ BindInv => TypeOK
  <2>. SUFFICES ASSUME IInv, BindInv PROVE TypeOK
    OBVIOUS
  <2>1. ASSUME NEW c \in ToSet(columns) PROVE DOMAIN c = {"name", "physical"}
    <3>1. columns # <<>>
      BY <2>1 DEF ToSet
    <3>2. table \in Tables /\ BindsTable(columns, table, kind)
      BY <3>1 DEF BindInv
    <3>3. \E name, physical : c = Column(name, physical)
      BY <2>1, <3>2, BoundColumnsAre
    <3>. QED BY <3>3 DEF Column
  <2>2. ASSUME NEW f \in FileIds PROVE DOMAIN constants[f] \subseteq Columns
    <3>1. constants[f] = ConstantMap(files[f]) \/ constants[f] = <<>>
      BY DEF IInv, ReaderInv
    <3>2. DOMAIN ConstantMap(files[f]) \subseteq Columns
      BY DEF ConstantMap, MissingColumns, InjectedColumns
    <3>. QED BY <3>1, <3>2
  <2>3. ASSUME NEW f \in FileIds PROVE returned[f] \in [Rows(f) -> Nat]
    BY DEF IInv, ChunkInv
  <2>. QED BY <2>1, <2>2, <2>3 DEF TypeOK, IInv, BindInv, ReaderInv, ChunkInv
<1>. QED BY <1>1, ScanInductive, BindInductive, PTL

-------------------------------------------------------------------------------
\* The logical schema

\* A field is mapped if it has a physical name, and then to that name.
LEMMA MappingOfField ==
    ASSUME NEW t \in Tables, t.fields # NoSchema, NEW field \in ToSet(t.fields)
    PROVE  IF field.name \in DOMAIN ParseColumnMapping(t)
           THEN ParseColumnMapping(t)[field.name] = PhysicalName(field)
           ELSE PhysicalName(field) = field.name
<1> DEFINE mapped == {g \in ToSet(t.fields) : g.physical # NoName}
           named == {g.name : g \in mapped}
<1>1. ParseColumnMapping(t) = [n \in named |-> (CHOOSE g \in mapped : g.name = n).physical]
  BY DEF ParseColumnMapping
<1>2. \A g, h \in ToSet(t.fields) : g.name = h.name => g = h
  BY ScanBindAssumption DEF ToSet
<1>3. CASE field \in mapped
  <2>1. field.name \in named
    BY <1>3
  <2>2. (CHOOSE g \in mapped : g.name = field.name) = field
    BY <1>2, <1>3
  <2>. HIDE DEF mapped, named
  <2>3. /\ field.name \in DOMAIN ParseColumnMapping(t)
        /\ ParseColumnMapping(t)[field.name] = field.physical
    BY <1>1, <2>1, <2>2
  <2>4. field.physical # NoName
    BY <1>3 DEF mapped
  <2>. QED BY <2>3, <2>4 DEF PhysicalName
<1>4. CASE field \notin mapped
  <2>1. field.physical = NoName
    BY <1>4
  <2>2. field.name \notin named
    BY <1>2, <1>4
  <2>. HIDE DEF mapped, named
  <2>3. field.name \notin DOMAIN ParseColumnMapping(t)
    BY <1>1, <2>2
  <2>. QED BY <2>1, <2>3 DEF PhysicalName
<1>. QED BY <1>3, <1>4

\* Where the mapping can be applied twice, a bound column has the name the schema maps
\* it to, and the reader looks for it under that name.
LEMMA BoundUnderMappedName ==
    ASSUME BindInv, MapsOnce, NEW c \in ToSet(columns)
    PROVE  /\ c.physical = IF c.name \in DOMAIN ParseColumnMapping(table)
                           THEN ParseColumnMapping(table)[c.name] ELSE c.name
           /\ MappedName(c.physical) = c.physical
<1> DEFINE mapping == ParseColumnMapping(table)
<1>1. columns # <<>>
  BY DEF ToSet
<1>2. table \in Tables /\ BindsTable(columns, table, kind)
  BY <1>1 DEF BindInv
<1>3. /\ \A n \in DOMAIN mapping :
            mapping[n] \in DOMAIN mapping => mapping[mapping[n]] = mapping[n]
      /\ DOMAIN mapping \subseteq Names(ParseSparkSchema(table))
  BY DEF MapsOnce
<1>4. c.physical = IF c.name \in DOMAIN mapping THEN mapping[c.name] ELSE c.name
  <2>1. CASE table.fields # NoSchema /\
             \E field \in ToSet(table.fields) : c = Column(field.name, PhysicalName(field))
    <3>1. PICK field \in ToSet(table.fields) : c = Column(field.name, PhysicalName(field))
      BY <2>1
    <3>2. c.name = field.name /\ c.physical = PhysicalName(field)
      BY <3>1 DEF Column
    <3>. HIDE DEF mapping
    <3>. QED BY <1>2, <2>1, <3>2, MappingOfField DEF mapping
  <2>2. CASE \E n : n \notin Names(ParseSparkSchema(table)) /\ c = Column(n, n)
    <3>1. PICK n : n \notin Names(ParseSparkSchema(table)) /\ c = Column(n, n)
      BY <2>2
    <3>2. c.name = n /\ c.physical = n
      BY <3>1 DEF Column
    <3>. HIDE DEF mapping
    <3>. QED BY <1>3, <3>1, <3>2
  <2>. QED BY <1>2, <2>1, <2>2, BoundColumnsAre
<1>. HIDE DEF mapping
<1>5. c.physical \in DOMAIN mapping => mapping[c.physical] = c.physical
  BY <1>3, <1>4
<1>6. MappedName(c.physical) = c.physical
  BY <1>5 DEF MappedName, mapping
<1>. QED BY <1>4, <1>6 DEF mapping

\* A table whose mapping can be applied twice is read under its logical schema, and
\* refused only for its deletion vectors and for partition values that cannot be cast.
THEOREM LogicalCorrect == Spec => []ReadsLogicalTable
<1>1. IInv /\ BindInv => ReadsLogicalTable
  <2>. SUFFICES ASSUME IInv, BindInv, MapsOnce PROVE ReadsLogicalTable
    BY DEF ReadsLogicalTable
  <2>1. \A p \in Columns : MappedName(p) = p
    BY BoundUnderMappedName DEF Columns
  <2>2. ASSUME status = "error" PROVE \E f \in FileIds : ~CanFilter(files[f]) \/ ~CanInject(files[f])
    <3>1. PICK f \in FileIds : Refused(f)
      BY <2>2 DEF BindInv
    <3>2. CanMap(files[f])
      BY <2>1 DEF CanMap, ConstantMap, MissingColumns
    <3>. QED BY <3>1, <3>2 DEF Refused
  <2>3. ASSUME NEW f \in opened, NEW p \in Columns, p \notin InjectedColumns(files[f])
        PROVE  ValueOf(f, p) = IF p \in files[f].stored THEN FromFile ELSE Null
    <3>1. constants[f] = ConstantMap(files[f])
      BY DEF IInv, ReaderInv
    <3>2. p \in MissingColumns(files[f]) <=> p \notin files[f].stored
      BY <2>1 DEF MissingColumns
    <3>. QED BY <2>3, <3>1, <3>2 DEF ValueOf, ConstantMap
  <2>4. \A c \in ToSet(columns) :
           c.physical \in Columns /\
           c.physical = IF c.name \in DOMAIN ParseColumnMapping(table)
                        THEN ParseColumnMapping(table)[c.name] ELSE c.name
    BY BoundUnderMappedName DEF Columns
  <2>. QED BY <2>2, <2>3, <2>4 DEF ReadsLogicalTable
<1>. QED BY <1>1, ScanInductive, BindInductive, PTL

===============================================================================
