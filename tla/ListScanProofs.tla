----------------------------- MODULE ListScanProofs -----------------------------
(***************************************************************************)
(* Proofs about ListScan for every list, every chunk size and any number   *)
(* of executions.                                                          *)
(*                                                                         *)
(* A run that has finished says nothing of how it got its rows, so the     *)
(* invariant follows the first run while it goes on: its rows are those up *)
(* to the position. The position is enough for the unreadable items: it    *)
(* never passes one, and a scan only finishes at the end of the list.      *)
(***************************************************************************)
EXTENDS ListScan, SequenceTheorems, TLAPS

Run == [rows : Seq(1..items), end : Ends]

UpTo(n) == [i \in 1..n |-> i]

\* Before the first execution nothing has moved.
NothingRead == runs = <<>> => current_idx = 0

BeforeBind == phase \in {"unbound", "bind_error"} => runs = <<>> /\ bad = {}

\* Only the last run can be under way, and it is while DuckDB scans.
LastRuns ==
    /\ phase = "scanning" => Len(runs) > 0 /\ runs[Len(runs)].end = "running"
    /\ \A k \in DOMAIN runs :
          runs[k].end = "running" => phase = "scanning" /\ k = Len(runs)

FirstRunSoFar ==
    Len(runs) = 1 /\ runs[1].end = "running" => runs[1].rows = UpTo(current_idx)

LSInv ==
    /\ TypeOK
    /\ NothingRead
    /\ BeforeBind
    /\ LastRuns
    /\ FirstRunSoFar
    /\ FirstExecutionIsWhole
    /\ BadItemNeverPassed

-------------------------------------------------------------------------------
\* Sequences

\* A sequence with another last element.
LEMMA LastReplaced ==
  ASSUME NEW T, NEW s \in Seq(T), Len(s) > 0, NEW r \in T
  PROVE  LET t == [s EXCEPT ![Len(s)] = r]
         IN  /\ t \in Seq(T)
             /\ Len(t) = Len(s)
             /\ t[Len(s)] = r
             /\ \A k \in 1..Len(s) - 1 : t[k] = s[k]
  OBVIOUS

\* A chunk goes on where the rows up to the position end.
LEMMA ChunkGoesOn ==
  ASSUME NEW a \in Nat, NEW b \in Nat, a <= b
  PROVE  UpTo(a) \o [i \in 1..b - a |-> a + i] = UpTo(b)
  <1> DEFINE c == [i \in 1..b - a |-> a + i]
  <1>1. UpTo(a) \in Seq(Nat) /\ Len(UpTo(a)) = a
    BY DEF UpTo
  <1>2. c \in Seq(Nat) /\ Len(c) = b - a
    OBVIOUS
  <1>3. UpTo(a) \o c \in Seq(Nat) /\ Len(UpTo(a) \o c) = b
    BY <1>1, <1>2
  <1>4. \A i \in 1..b : (UpTo(a) \o c)[i] = i
    <2>1. \A i \in 1..b : (UpTo(a) \o c)[i] = IF i <= a THEN UpTo(a)[i] ELSE c[i - a]
      BY <1>1, <1>2, ConcatProperties
    <2>2. \A i \in 1..a : UpTo(a)[i] = i
      BY DEF UpTo
    <2>3. \A i \in 1..b - a : c[i] = a + i
      OBVIOUS
    <2> HIDE DEF c
    <2>4. ASSUME NEW i \in 1..b PROVE (UpTo(a) \o c)[i] = i
      <3>1. CASE i <= a
        <4>1. i \in 1..a
          BY <3>1
        <4> QED
          BY <2>1, <2>2, <3>1, <4>1
      <3>2. CASE ~(i <= a)
        <4>1. i - a \in 1..b - a /\ a + (i - a) = i
          BY <3>2
        <4>2. c[i - a] = a + (i - a)
          BY <2>3, <4>1
        <4> QED
          BY <2>1, <3>2, <4>1, <4>2
      <3> QED
        BY <3>1, <3>2
    <2> QED
      BY <2>4
  <1>5. UpTo(b) \in Seq(Nat) /\ Len(UpTo(b)) = b /\ \A i \in 1..b : UpTo(b)[i] = i
    BY DEF UpTo
  <1> HIDE DEF c
  <1>6. UpTo(a) \o c = UpTo(b)
    BY <1>3, <1>4, <1>5, SeqEqual
  <1> QED
    BY <1>6 DEF c

\* The end of a chunk.
LEMMA ChunkEndBounds ==
  ASSUME TypeOK
  PROVE  /\ items \in Nat
         /\ current_idx \in 0..items
         /\ ChunkEnd \in current_idx..items
         /\ Chunk \in Seq(1..items)
         /\ Chunk = <<>> => current_idx = items
  <1>1. VectorSize \in Nat /\ VectorSize > 0 /\ MaxItems \in Nat
    BY ListScanAssumption
  <1>2. items \in Nat /\ current_idx \in 0..items
    BY <1>1 DEF TypeOK
  <1>3. ChunkEnd \in current_idx..items
    BY <1>1, <1>2 DEF ChunkEnd
  <1>4. current_idx < items => ChunkEnd > current_idx
    BY <1>1, <1>2 DEF ChunkEnd
  <1>5. Chunk \in Seq(1..items) /\ Len(Chunk) = ChunkEnd - current_idx
    BY <1>2, <1>3 DEF Chunk
  <1> QED
    BY <1>2, <1>3, <1>4, <1>5

-------------------------------------------------------------------------------
\* The invariant

LEMMA LSInitInv == Init => LSInv
  BY ListScanAssumption
  DEF Init, LSInv, TypeOK, NothingRead, BeforeBind, LastRuns, FirstRunSoFar,
      FirstExecutionIsWhole, BadItemNeverPassed, Ends

\* A bind, whatever it binds.
LEMMA BoundInv ==
  ASSUME LSInv, phase = "unbound",
         items' \in 0..MaxItems, bad' \subseteq 1..items',
         phase' \in {"idle", "bind_error"}, phase' = "bind_error" => bad' = {},
         UNCHANGED <<current_idx, runs>>
  PROVE  LSInv'
  <1>1. runs = <<>> /\ current_idx = 0
    BY DEF LSInv, BeforeBind, NothingRead
  <1>2. TypeOK'
    BY <1>1, ListScanAssumption DEF TypeOK, Ends
  <1> QED
    BY <1>1, <1>2, ListScanAssumption
    DEF LSInv, NothingRead, BeforeBind, LastRuns, FirstRunSoFar,
        FirstExecutionIsWhole, BadItemNeverPassed

LEMMA ExecuteInv ==
  ASSUME LSInv, Execute
  PROVE  LSInv'
  <1> DEFINE new == [rows |-> <<>>, end |-> "running"]
  <1>1. /\ phase = "idle" /\ phase' = "scanning"
        /\ runs' = Append(runs, new)
        /\ UNCHANGED <<items, bad, current_idx>>
    BY DEF Execute
  <1>2. runs \in Seq(Run)
    BY DEF LSInv, TypeOK, Run
  <1>3. new \in Run
    BY DEF Run, Ends
  <1>4. /\ runs' \in Seq(Run)
        /\ Len(runs') = Len(runs) + 1
        /\ runs'[Len(runs) + 1] = new
        /\ \A k \in 1..Len(runs) : runs'[k] = runs[k]
    BY <1>1, <1>2, <1>3
  <1>5. TypeOK'
    BY <1>1, <1>4 DEF LSInv, TypeOK, Run
  <1>6. NothingRead' /\ BeforeBind'
    BY <1>1, <1>4 DEF NothingRead, BeforeBind
  <1>7. LastRuns'
    <2>1. \A k \in 1..Len(runs) : runs[k].end # "running"
      BY <1>1, <1>2 DEF LSInv, LastRuns
    <2> QED
      BY <1>1, <1>2, <1>4, <2>1 DEF LastRuns
  <1>8. FirstRunSoFar'
    <2>1. CASE Len(runs) = 0
      <3>1. current_idx = 0
        BY <1>2, <2>1 DEF LSInv, NothingRead
      <3>2. UpTo(0) = <<>>
        BY DEF UpTo
      <3> QED
        BY <1>1, <1>4, <2>1, <3>1, <3>2 DEF FirstRunSoFar
    <2>2. CASE Len(runs) > 0
      BY <1>2, <1>4, <2>2 DEF FirstRunSoFar
    <2> QED
      BY <1>2, <2>1, <2>2
  <1>9. FirstExecutionIsWhole'
    <2>1. CASE Len(runs) = 0
      BY <1>4, <2>1 DEF FirstExecutionIsWhole
    <2>2. CASE Len(runs) > 0
      BY <1>1, <1>2, <1>4, <2>2 DEF LSInv, FirstExecutionIsWhole, AllItems
    <2> QED
      BY <1>2, <2>1, <2>2
  <1>10. BadItemNeverPassed'
    BY <1>1, <1>2, <1>4 DEF LSInv, BadItemNeverPassed
  <1> QED
    BY <1>5, <1>6, <1>7, <1>8, <1>9, <1>10 DEF LSInv

\* The run under way.
LEMMA LastRun ==
  ASSUME LSInv, phase = "scanning"
  PROVE  /\ runs \in Seq(Run) /\ Len(runs) > 0 /\ Len(runs) \in Nat
         /\ runs[Len(runs)] \in Run /\ runs[Len(runs)].end = "running"
  <1>1. runs \in Seq(Run)
    BY DEF LSInv, TypeOK, Run
  <1>2. Len(runs) > 0 /\ runs[Len(runs)].end = "running"
    BY DEF LSInv, LastRuns
  <1>3. runs[Len(runs)] \in Run
    BY <1>1, <1>2, ElementOfSeq
  <1> QED
    BY <1>1, <1>2, <1>3

\* What a step of the scan does to the runs: it replaces the last.
LEMMA ScanStep ==
  ASSUME LSInv, phase = "scanning", NEW r \in Run,
         runs' = [runs EXCEPT ![Len(runs)] = r]
  PROVE  /\ runs \in Seq(Run) /\ Len(runs) > 0
         /\ runs' \in Seq(Run)
         /\ Len(runs') = Len(runs)
         /\ runs'[Len(runs)] = r
         /\ \A k \in 1..Len(runs) - 1 : runs'[k] = runs[k] /\ runs[k].end # "running"
  <1>1. runs \in Seq(Run) /\ Len(runs) > 0
    BY DEF LSInv, TypeOK, Run, LastRuns
  <1>2. \A k \in 1..Len(runs) - 1 : runs[k].end # "running"
    BY <1>1 DEF LSInv, LastRuns
  <1> QED
    BY <1>1, <1>2, LastReplaced

LEMMA EmitChunkInv ==
  ASSUME LSInv, EmitChunk
  PROVE  LSInv'
  <1> DEFINE n == Len(runs)
             r == [runs[n] EXCEPT !.rows = @ \o Chunk]
  <1>1. /\ phase = "scanning" /\ BadInChunk = {}
        /\ current_idx' = ChunkEnd
        /\ runs' = [runs EXCEPT ![n] = r]
        /\ UNCHANGED <<items, bad, phase>>
    BY DEF EmitChunk
  <1>2. /\ items \in Nat /\ current_idx \in 0..items
        /\ ChunkEnd \in current_idx..items
        /\ Chunk \in Seq(1..items)
    BY ChunkEndBounds DEF LSInv
  <1>3. /\ runs \in Seq(Run) /\ n > 0 /\ n \in Nat
        /\ runs[n] \in Run /\ runs[n].end = "running"
    BY <1>1, LastRun
  <1>4. r \in Run /\ r.rows = runs[n].rows \o Chunk /\ r.end = "running"
    <2>1. runs[n].rows \in Seq(1..items)
      BY <1>3 DEF Run
    <2>2. runs[n].rows \o Chunk \in Seq(1..items)
      BY <1>2, <2>1, ConcatProperties
    <2> QED
      BY <1>3, <2>2 DEF Run
  <1>5. /\ runs' \in Seq(Run) /\ Len(runs') = n /\ runs'[n] = r
        /\ \A k \in 1..n - 1 : runs'[k] = runs[k] /\ runs[k].end # "running"
    BY <1>1, <1>4, ScanStep
  <1>6. TypeOK'
    BY <1>1, <1>2, <1>5 DEF LSInv, TypeOK, Run
  <1>7. NothingRead' /\ BeforeBind'
    BY <1>1, <1>3, <1>5 DEF NothingRead, BeforeBind
  <1>8. LastRuns'
    BY <1>1, <1>3, <1>4, <1>5 DEF LastRuns
  <1>9. FirstRunSoFar'
    <2> SUFFICES ASSUME n = 1 PROVE r.rows = UpTo(ChunkEnd)
      BY <1>1, <1>5 DEF FirstRunSoFar
    <2>1. runs[1].rows = UpTo(current_idx)
      BY <1>3 DEF LSInv, FirstRunSoFar
    <2>2. UpTo(current_idx) \o Chunk = UpTo(ChunkEnd)
      <3>1. current_idx \in Nat /\ ChunkEnd \in Nat /\ current_idx <= ChunkEnd
        BY <1>2
      <3> QED
        BY <3>1, ChunkGoesOn DEF Chunk
    <2> QED
      BY <1>4, <2>1, <2>2
  <1>10. FirstExecutionIsWhole'
    BY <1>1, <1>3, <1>4, <1>5 DEF LSInv, FirstExecutionIsWhole, AllItems
  <1>11. BadItemNeverPassed'
    <2>1. \A i \in bad : i \in 1..items /\ current_idx < i
      BY DEF LSInv, TypeOK, BadItemNeverPassed
    <2>2. \A i \in bad : i \notin current_idx + 1..ChunkEnd
      BY <1>1 DEF BadInChunk
    <2>3. \A i \in bad : ChunkEnd < i
      BY <1>2, <2>1, <2>2
    <2>4. \A i \in bad : \A k \in 1..n - 1 : runs'[k].end # "finished"
      BY <1>3, <1>5 DEF LSInv, BadItemNeverPassed
    <2>5. runs'[n].end # "finished"
      BY <1>4, <1>5
    <2>6. \A i \in bad : \A k \in 1..n : runs'[k].end # "finished"
      BY <1>3, <2>4, <2>5
    <2>7. DOMAIN runs' = 1..n
      BY <1>5
    <2> QED
      BY <1>1, <2>3, <2>6, <2>7 DEF BadItemNeverPassed
  <1> QED
    BY <1>6, <1>7, <1>8, <1>9, <1>10, <1>11 DEF LSInv

\* An execution that ends, at a position behind which no unreadable item was left.
LEMMA EndInv ==
  ASSUME LSInv, phase = "scanning", phase' = "idle",
         NEW e \in {"finished", "stopped", "error"},
         runs' = [runs EXCEPT ![Len(runs)].end = e],
         current_idx' \in 0..items,
         \A i \in bad : current_idx' < i,
         e = "finished" => current_idx = items,
         UNCHANGED <<items, bad>>
  PROVE  LSInv'
  <1> DEFINE n == Len(runs)
             r == [runs[n] EXCEPT !.end = e]
  <1>1. /\ runs \in Seq(Run) /\ n > 0 /\ n \in Nat
        /\ runs[n] \in Run /\ runs[n].end = "running"
    BY LastRun
  <1>2. r \in Run /\ r.rows = runs[n].rows /\ r.end = e
    BY <1>1 DEF Run, Ends
  <1>3. /\ runs' \in Seq(Run) /\ Len(runs') = n /\ runs'[n] = r
        /\ \A k \in 1..n - 1 : runs'[k] = runs[k] /\ runs[k].end # "running"
    BY <1>2, ScanStep
  <1>4. TypeOK'
    BY <1>3 DEF LSInv, TypeOK, Run
  <1>5. NothingRead' /\ BeforeBind'
    BY <1>1, <1>3 DEF NothingRead, BeforeBind
  <1>6. LastRuns' /\ FirstRunSoFar'
    BY <1>1, <1>2, <1>3 DEF LastRuns, FirstRunSoFar
  <1>7. FirstExecutionIsWhole'
    <2>1. CASE n = 1
      <3>1. e = "finished" => runs[1].rows = UpTo(items)
        BY <1>1, <2>1 DEF LSInv, FirstRunSoFar
      <3> QED
        BY <1>2, <1>3, <2>1, <3>1 DEF FirstExecutionIsWhole, AllItems, UpTo
    <2>2. CASE n > 1
      <3>1. runs'[1] = runs[1] /\ runs # <<>>
        BY <1>1, <1>3, <2>2
      <3>2. runs[1].end = "finished" => runs[1].rows = AllItems
        BY <3>1 DEF LSInv, FirstExecutionIsWhole
      <3>3. AllItems' = AllItems
        BY DEF AllItems
      <3> QED
        BY <3>1, <3>2, <3>3 DEF FirstExecutionIsWhole
    <2>3. n = 1 \/ n > 1
      BY <1>1
    <2> QED
      BY <2>1, <2>2, <2>3
  <1>8. BadItemNeverPassed'
    <2>1. \A i \in bad : e # "finished"
      BY DEF LSInv, TypeOK, BadItemNeverPassed
    <2>2. \A i \in bad : \A k \in 1..n : runs'[k].end # "finished"
      BY <1>1, <1>2, <1>3, <2>1 DEF LSInv, BadItemNeverPassed
    <2> QED
      BY <1>3, <2>2 DEF BadItemNeverPassed
  <1> QED
    BY <1>4, <1>5, <1>6, <1>7, <1>8 DEF LSInv

LEMMA LSStepInv == LSInv /\ [Next]_vars => LSInv'
  <1> SUFFICES ASSUME LSInv, [Next]_vars PROVE LSInv'
    OBVIOUS
  <1>0. /\ items \in Nat /\ current_idx \in 0..items
        /\ ChunkEnd \in current_idx..items
        /\ Chunk = <<>> => current_idx = items
    BY ChunkEndBounds DEF LSInv
  <1>00. \A i \in bad : i \in 1..items /\ current_idx < i
    BY DEF LSInv, TypeOK, BadItemNeverPassed
  <1>1. CASE Bind
    <2>1. PICK n \in 0..MaxItems : items' = n /\ bad' \in SUBSET (1..n)
      BY <1>1 DEF Bind
    <2> QED
      BY <1>1, <2>1, BoundInv DEF Bind
  <1>2. CASE BindColumns
    <2>1. phase = "unbound" /\ bad' = {} /\ UNCHANGED <<current_idx, runs>>
      BY <1>2 DEF BindColumns
    <2>2. PICK answer \in MetadataAnswers :
             IF HasMetadata(answer) /\ answer.fields > 0
             THEN items' = answer.fields /\ phase' = "idle"
             ELSE items' = 0 /\ phase' = "bind_error"
      BY <1>2 DEF BindColumns
    <2>3. items' \in 0..MaxItems /\ phase' \in {"idle", "bind_error"}
      BY <2>2, ListScanAssumption DEF MetadataAnswers
    <2> QED
      BY <2>1, <2>3, BoundInv
  <1>3. CASE BindFails
    <2>1. bad = {}
      BY <1>3 DEF BindFails, LSInv, BeforeBind
    <2> QED
      BY <1>3, <2>1, BoundInv DEF BindFails, LSInv, TypeOK
  <1>4. CASE Execute
    BY <1>4, ExecuteInv
  <1>5. CASE EmitChunk
    BY <1>5, EmitChunkInv
  <1>6. CASE EmitEmptyChunk
    BY <1>0, <1>00, <1>6, EndInv DEF EmitEmptyChunk
  <1>7. CASE MissingField
    <2>1. PICK i \in BadInChunk : (\A j \in BadInChunk : i <= j) /\ current_idx' = i - 1
      BY <1>7 DEF MissingField
    <2>2. i \in bad /\ i \in current_idx + 1..ChunkEnd
      BY <2>1 DEF BadInChunk
    <2>3. current_idx' \in 0..items
      BY <1>0, <2>1, <2>2
    <2>4. \A j \in bad : current_idx' < j
      <3> TAKE j \in bad
      <3>1. CASE j \in BadInChunk
        BY <1>0, <1>00, <2>1, <2>2, <3>1
      <3>2. CASE j \notin BadInChunk
        BY <1>0, <1>00, <2>1, <2>2, <3>2 DEF BadInChunk
      <3> QED
        BY <3>1, <3>2
    <2> QED
      BY <1>7, <2>3, <2>4, EndInv DEF MissingField
  <1>8. CASE StopEarly
    BY <1>0, <1>00, <1>8, EndInv DEF StopEarly
  <1>9. CASE UNCHANGED vars
    BY <1>9 DEF vars, LSInv, TypeOK, NothingRead, BeforeBind, LastRuns, FirstRunSoFar,
                FirstExecutionIsWhole, BadItemNeverPassed, AllItems
  <1> QED
    BY <1>1, <1>2, <1>3, <1>4, <1>5, <1>6, <1>7, <1>8, <1>9 DEF Next

-------------------------------------------------------------------------------
\* Theorems

LEMMA LSInductive == Spec => []LSInv
  BY LSInitInv, LSStepInv, PTL DEF Spec

\* Type correctness, for every list and chunk size.
THEOREM ListingTypeCorrect == Spec => []TypeOK
  <1>1. LSInv => TypeOK
    BY DEF LSInv
  <1> QED
    BY <1>1, LSInductive, PTL

\* The first execution of a bound listing returns the whole list in its order, however
\* its length and the chunk size relate.
THEOREM FirstExecutionCorrect == Spec => []FirstExecutionIsWhole
  <1>1. LSInv => FirstExecutionIsWhole
    BY DEF LSInv
  <1> QED
    BY <1>1, LSInductive, PTL

\* No execution of any plan passes an unreadable item.
THEOREM BadItemCorrect == Spec => []BadItemNeverPassed
  <1>1. LSInv => BadItemNeverPassed
    BY DEF LSInv
  <1> QED
    BY <1>1, LSInductive, PTL

===============================================================================
