------------------------------- MODULE TableCalls -------------------------------
(***************************************************************************)
(* The calls that ask for a table's files, over the databases of           *)
(* ExtensionLoad: delta_share_read and delta_share_change_data_feed with   *)
(* what their arguments make the server asked for, and                     *)
(* delta_share_list_files with the chunks of ListFiles and the hints of    *)
(* PredicateHints.                                                         *)
(*                                                                         *)
(* One call runs at a time, on a database that has the function, while     *)
(* other databases, and the rest of its own, are loaded. A database is not *)
(* closed under a call.                                                    *)
(*                                                                         *)
(* A table has versions 0 to Latest, version v committed at time 2v + 1.   *)
(* Left out: a QueryTable's version, which no function passes on; names,   *)
(* and the NULL names of delta_share_list_files, which are asked for as    *)
(* "NULL".                                                                 *)
(***************************************************************************)
EXTENDS ExtensionLoad, ListFiles, PredicateHints, FiniteSetsExt

CONSTANTS
    Latest,         \* the last version
    Arguments,      \* the values given for a time or a version
    Predicates,     \* the predicates given to delta_share_list_files
    LaterPredicates, \* bound: those of the rows of a chunk behind the first
    TableFiles,     \* the files of the tables, a sequence for each
    Rows            \* the row of each file

ASSUME TableCallsAssumption ==
    /\ Latest \in Nat
    /\ Arguments \subseteq [type : STRING, value : Int]
    /\ Predicates \subseteq ParsedTexts
    /\ LaterPredicates \subseteq Predicates
    /\ TableFiles \in [DOMAIN TableFiles -> Seq(Urls)]
    /\ Rows \in [Urls -> PossibleRows]

VARIABLES
    call,           \* "none", "read", "changes" or "list_files"
    caller,         \* its database
    given,          \* its arguments: values, or the rows of a chunk
    request,        \* what the server is asked for, NoRequest until it is
    outcome,        \* "running", "answered" or "refused"
    answer          \* the versions the server answered with

callVars == <<call, caller, given, request, outcome, answer>>
tcVars   == <<loadVars, listVars, callVars>>

Versions     == 0..Latest
Committed(v) == 2 * v + 1

-------------------------------------------------------------------------------
\* Arguments

NullValue == -2

Argument(type, value) == [type |-> type, value |-> value]

Absent     == Argument("absent", 0)
Timestamps == {"TIMESTAMP", "TIMESTAMP_TZ"}
Numbers    == {"BIGINT", "VARCHAR"}     \* a text of digits is cast to a number

IsNull(arg) == arg.value = NullValue

Text(time, suffix) == [time |-> time, suffix |-> suffix]
NoText == Text(0, "none")

\* Faulty: Z is appended to an offset, too.
IsoTextWithZ(arg) ==
    Text(arg.value, IF arg.type = "TIMESTAMP_TZ" /\ ~IsNull(arg) THEN "+00Z" ELSE "Z")

\* A timestamp as text: a space between date and time becomes T, and Z is appended
\* unless there is a Z or a + already. NULL becomes NULLZ.
IsoText(arg) ==
    Text(arg.value, IF arg.type = "TIMESTAMP_TZ" /\ ~IsNull(arg) THEN "+00" ELSE "Z")

\* delta_share_read leaves a NULL out.
ReadTime(arg) == IF arg = Absent \/ IsNull(arg) THEN NoText ELSE IsoText(arg)

Bound(version, text) == [version |-> version, text |-> text]
NoBound == Bound(-1, NoText)

\* GetValue<int64_t> throws for a NULL, a date, or a text that is not a number.
Refused(arg) == arg # Absent /\ arg.type \notin Timestamps /\ (arg.type \notin Numbers \/ IsNull(arg))

\* The first version or time of a change feed.
\* Faulty: version 0 is the default also where a timestamp is given.
StartOfZero(arg) ==
    IF arg.type \in Timestamps THEN Bound(0, IsoText(arg))
    ELSE IF arg = Absent THEN Bound(0, NoText)
    ELSE Bound(arg.value, NoText)

StartOf(arg) ==
    IF arg.type \in Timestamps THEN Bound(-1, IsoText(arg))
    ELSE IF arg = Absent THEN Bound(0, NoText)
    ELSE Bound(arg.value, NoText)

EndOf(arg) ==
    IF arg.type \in Timestamps THEN Bound(-1, IsoText(arg))
    ELSE IF arg = Absent THEN NoBound
    ELSE Bound(arg.value, NoText)

-------------------------------------------------------------------------------
\* Requests

Request(kind, start, end) == [kind |-> kind, start |-> start, end |-> end]

NoRequest == Request("none", NoBound, NoBound)

\* QueryTable: a version above 0, and a timestamp unless it is empty; the scans give
\* no version.
QueryRequest(text) == Request("query", Bound(-1, text), NoBound)

\* The query string: a version from 0 on comes before a timestamp, and of the other one
\* only what is used is sent. A + in it means a space, here written _.
InQuery(bound) ==
    IF bound.version >= 0 THEN Bound(bound.version, NoText)
    ELSE IF bound.text.suffix = "+00" THEN Bound(-1, Text(bound.text.time, "_00"))
    ELSE Bound(-1, bound.text)

HasStart(start) == start.version >= 0 \/ start.text # NoText

ChangesRequest(start, end) == Request("changes", InQuery(start), InQuery(end))

-------------------------------------------------------------------------------
\* The server (external)

\* A server may know the short offset +00.
MayRead(text) == text = NoText \/ (text.time # NullValue /\ text.suffix \in {"Z", "+00"})

SnapshotAt(text) ==
    IF text = NoText THEN {Latest}
    ELSE LET before == {v \in Versions : Committed(v) <= text.time}
         IN  IF before = {} THEN {} ELSE {Max(before)}

From(start, v) == IF start.version >= 0 THEN v >= start.version
                  ELSE Committed(v) >= start.text.time

Until(end, v) == IF end.version >= 0 THEN v <= end.version
                 ELSE end.text = NoText \/ Committed(v) <= end.text.time

Changes(req) == {v \in Versions : From(req.start, v) /\ Until(req.end, v)}

Served(req) == IF req.kind = "query" THEN SnapshotAt(req.start.text) ELSE Changes(req)

-------------------------------------------------------------------------------
\* The scans

Idle == call = "none"

CallInit ==
    /\ call = "none"
    /\ caller = NoFunction
    /\ given = <<>>
    /\ request = NoRequest
    /\ outcome = "running"
    /\ answer = {}

Begin(d, kind, name) ==
    /\ Idle
    /\ name \in registered[d]
    /\ call' = kind
    /\ caller' = d
    /\ UNCHANGED <<request, outcome, answer, loadVars>>

ReadTypes(arg) == arg = Absent \/ arg.type \in Timestamps

BeginRead(d) ==
    /\ Begin(d, "read", "delta_share_read")
    /\ \E arg \in Arguments : ReadTypes(arg) /\ given' = <<arg>>
    /\ UNCHANGED listVars

\* An end is given only behind a start.
BeginChanges(d) ==
    /\ Begin(d, "changes", "delta_share_change_data_feed")
    /\ \E start, end \in Arguments :
          /\ start = Absent => end = Absent
          /\ given' = <<start, end>>
    /\ UNCHANGED listVars

Refuse == outcome' = "refused" /\ UNCHANGED <<call, caller, given, request, answer, loadVars, listVars>>

Ask(req) ==
    /\ request' = req
    /\ UNCHANGED <<call, caller, given, outcome, answer, loadVars, listVars>>

Asking(kind) == call = kind /\ outcome = "running" /\ request = NoRequest

\* Without read_parquet the bind throws.
AskForSnapshot ==
    /\ Asking("read")
    /\ IF g_read_parquet_function = NoFunction THEN Refuse
       ELSE Ask(QueryRequest(ReadTime(given[1])))

Convertible == ~Refused(given[1]) /\ ~Refused(given[2])

AskForChanges ==
    /\ Asking("changes")
    /\ Convertible
    /\ HasStart(StartOf(given[1]))
    /\ Ask(ChangesRequest(StartOf(given[1]), EndOf(given[2])))

\* An argument cannot be converted, or there is no start: it is below 0.
ChangesRefused ==
    /\ Asking("changes")
    /\ ~Convertible \/ ~HasStart(StartOf(given[1]))
    /\ Refuse

\* A feed's bind takes read_parquet only now that it has files.
Answer ==
    /\ outcome = "running"
    /\ request # NoRequest
    /\ call = "changes" => g_read_parquet_function # NoFunction
    /\ MayRead(request.start.text) /\ MayRead(request.end.text)
    /\ Served(request) # {}
    /\ outcome' = "answered"
    /\ answer' = Served(request)
    /\ UNCHANGED <<call, caller, given, request, loadVars, listVars>>

\* The request fails, asks for nothing there is, or for a time the server cannot read.
AnswerFails ==
    /\ outcome = "running"
    /\ request # NoRequest
    /\ Refuse

EndScan ==
    /\ call \in {"read", "changes"}
    /\ outcome # "running"
    /\ call' = "none"
    /\ caller' = NoFunction
    /\ given' = <<>>
    /\ request' = NoRequest
    /\ outcome' = "running"
    /\ answer' = {}
    /\ UNCHANGED <<loadVars, listVars>>

-------------------------------------------------------------------------------
\* delta_share_list_files

Tables == DOMAIN TableFiles

Row(table, predicate) == [table |-> table, predicate |-> predicate]

BeginListFiles(d) ==
    /\ Begin(d, "list_files", "delta_share_list_files")
    /\ \E n \in 0..ChunkSize :
          /\ BeginChunk(n)
          /\ given' \in {rows \in [1..n -> {Row(t, p) : t \in Tables, p \in Predicates}] :
                            \A i \in 2..n : rows[i].predicate \in LaterPredicates}

ThisRow == given[Len(list_data) + 1]

\* A server need not look at the hints; it may drop any files that they let it drop.
Returned(row, hint) ==
    LET all == TableFiles[row.table]
    IN  {files \in Answers : /\ Range(files) \subseteq Range(all)
                             /\ \A url \in Range(all) \ Range(files) : MayDrop(hint, Rows[url])}

AnswerListedRow ==
    /\ call = "list_files"
    /\ state = "rows" /\ Len(list_data) < count
    /\ ThisRow.predicate # Unparsable
    /\ \E files \in Returned(ThisRow, ParsePredicateStringToJson(ThisRow.predicate)) :
          AnswerRow(files)
    /\ UNCHANGED <<loadVars, callVars>>

FailListedRow ==
    /\ call = "list_files"
    /\ FailRow
    /\ UNCHANGED <<loadVars, callVars>>

ReturnListed ==
    /\ call = "list_files"
    /\ ReturnChunk
    /\ UNCHANGED <<loadVars, callVars>>

EndListFiles ==
    /\ call = "list_files"
    /\ ReleaseChunk
    /\ call' = "none"
    /\ caller' = NoFunction
    /\ given' = <<>>
    /\ UNCHANGED <<loadVars, request, outcome, answer>>

-------------------------------------------------------------------------------

TCInit == LoadInit /\ ListInit /\ CallInit

Load(d) == LoadStep(d) /\ UNCHANGED <<listVars, callVars>>

Close(d) == caller # d /\ Reopen(d) /\ UNCHANGED <<listVars, callVars>>

TCNext ==
    \/ \E d \in Databases :
          Load(d) \/ Close(d) \/ BeginRead(d) \/ BeginChanges(d) \/ BeginListFiles(d)
    \/ AskForSnapshot \/ AskForChanges \/ ChangesRefused
    \/ Answer \/ AnswerFails \/ EndScan
    \/ AnswerListedRow \/ FailListedRow \/ ReturnListed \/ EndListFiles

TCSpec == TCInit /\ [][TCNext]_tcVars

-------------------------------------------------------------------------------
\* Properties

Texts  == [time : Int, suffix : {"none", "Z", "+00", "_00"}]
Bounds == [version : Int, text : Texts]

TCTypeOK ==
    /\ LoadTypeOK
    /\ ListTypeOK
    /\ call \in {"none", "read", "changes", "list_files"}
    /\ caller \in Databases \cup {NoFunction}
    /\ caller = NoFunction <=> Idle
    /\ call = "read" => given[1] \in Arguments
    /\ call = "changes" => given[1] \in Arguments /\ given[2] \in Arguments
    /\ call = "list_files" => Len(given) = count
    /\ request \in [kind : {"none", "query", "changes"}, start : Bounds, end : Bounds]
    /\ outcome \in {"running", "answered", "refused"}
    /\ answer \in SUBSET Versions
    /\ outcome = "running" => answer = {}

AskedSnapshot(arg) ==
    IF arg = Absent \/ IsNull(arg) THEN {Latest}
    ELSE {v \in Versions : Committed(v) <= arg.value
                           /\ \A w \in Versions : w > v => Committed(w) > arg.value}

IsFrom(arg, v) ==
    IF arg.type \in Timestamps THEN Committed(v) >= arg.value ELSE v >= arg.value

IsUntil(arg, v) ==
    IF arg.type \in Timestamps THEN Committed(v) <= arg.value ELSE v <= arg.value

\* Whatever form its arguments have, a scan that is answered has what they say: the
\* snapshot of that time, the latest one without a time; or the changes of exactly the
\* range they bound, a time by commit times and a number by versions, from the first
\* version on without a start. Nothing is assumed of an end below 0.
AnswerAsAsked ==
    outcome = "answered" =>
        /\ call = "read" => answer = AskedSnapshot(given[1])
        /\ call = "changes" =>
              LET start == given[1]
                  end   == given[2]
              IN  end = Absent \/ end.value >= 0 =>
                      answer = {v \in Versions : /\ start # Absent => IsFrom(start, v)
                                                 /\ end # Absent => IsUntil(end, v)}

\* However its predicate is written, a row's list has every file of its table with a
\* row that the predicate holds of: no server, going by the hint it is sent, drops such
\* a file. It is claimed of predicates that compare numbers with numbers only.
HintsKeepMatches ==
    state = "returned" =>
        \A row \in 1..count :
            LET predicate == given[row].predicate
                entry     == list_data[row]
            IN  NumbersAmongNumbers(predicate) =>
                    \A i \in DOMAIN TableFiles[given[row].table] :
                        LET url == TableFiles[given[row].table][i]
                        IN  Selects(predicate, Rows[url]) =>
                                \E j \in 1..entry.length : child[entry.offset + j] = url

===============================================================================
