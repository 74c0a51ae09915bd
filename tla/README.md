# A formal model of the DuckDB Delta Sharing extension

TLA+ specifications of the extension in `src/src/`, checked with TLC on small
instances, with theorems proved with TLAPS for every instance. Line numbers below
are those of the repository at the modelled commit; the prefix `src/` is the
repository's root, so `src/src/delta_sharing_client.cpp` is its `src/delta_sharing_client.cpp`.

## 1. The system

The extension lets a DuckDB session read tables of a Delta Sharing server.
A call such as `delta_share_read('share','schema','table')` goes through

1. **secret resolution** (`delta_sharing_secret_resolution.cpp`): which secret, which endpoint;
2. **the client** (`delta_sharing_client.cpp`): HTTP requests, paged answers, NDJSON, the
   protocol's lines;
3. **the bind** (`duckdb_delta_sharing_extension.cpp`): the arguments, the schema and the file
   list of the scan;
4. **the scan**: DuckDB's Parquet scan with `DeltaShareMultiFileReader`, which injects
   constant columns and attaches deletion filters (with `z85.hpp` for inline vectors).

`delta_share_list` and `delta_share_list_all_tables` use 1 and 2 and a scan of their own;
`delta_share_list_files` is a scalar function that runs 2 for every row of a chunk, with a hint
that `duckdb_delta_sharing_functions.cpp` makes of a predicate. All of it is registered, per
database, by a load that also assigns two globals of the process.

### Components

| Component | State it keeps | Operations | Interacts with | What is hard | What makes it correct |
|---|---|---|---|---|---|
| Paged requests | page tokens seen, pages counted, result so far | request, parse, guard, follow | server; callers by return or exception | cycles, limits, failing in the middle | all of the answer or an error; it ends |
| HTTP transport | a curl handle and its options | construct, perform, destroy | paging loop; libcurl, XHR | options and pointers that outlive a request | a request goes out as meant; the handle is closed once |
| Table queries | header found, files so far | parse header, file actions | paging loop; the bind | header and files over pages and lines | every file once, first metadata |
| Listing functions | items, scan position in the bind data | bind, emit a chunk | client; DuckDB's executor | several executions of one bind, errors in a chunk | every item once, in every execution |
| Secret resolution | none of its own: the session's secrets | three rules, endpoint guard | DuckDB's secret manager; profile | nested scopes, name clashes, secrets changing between calls | requests stay under the secret's ENDPOINT; no silent change of secret |
| Scan binds | schema, names, file list, request | convert arguments, query, bind | client, Parquet bind, file reader | arguments of five types, two sources of names, four copies of the steps, empty tables | the answer is what was asked; the schema does not depend on the files |
| File reader | constants and filter of each open file | initialize reader, filter a chunk | Parquet scan, CRoaring, Z85 | files opened in parallel, vectors that cannot be read | live rows once, deleted rows never |
| Z85 decoder | a static table and its flag | decode | file reader, in several threads | unsynchronised initialisation, 32-bit wrap | inverts the encoding |
| File lists | a child vector shared by the rows of a chunk | one query per row | client, hints | a vector that moves, a failure in the middle of a chunk | a row's files are its own |
| Predicate hints | none | translate | file lists; the server | NULL, nesting, types | a hint never loses a matching file |
| Extension load | two process-wide globals, a database's catalog | load, retry | catalog, scans of every database | several databases, loads that fail, calls during a load | binds find a function; a failed load can be retried |
| JSON wrapper, type parsing | none | conversions | all | - | - |
| ODBC patches | a handle's reference count | API guard | host application | free while in use | no use after free |
| Demo | database, connection, page state | login, run, browse | DuckDB-Wasm | awaits between steps | the shown result is the last query's |
| Build, CI, tests | - | - | - | - | - |

`PROJECT.json` lists the hazards of this code line by line, with the properties that
watch them, and for the ones no property watches, why.

## 2. Modules

| Module | Models | Its state, against the code |
|---|---|---|
| `WholeFetch` | the promise of a paged request (README.md:184-186 and the comment at `delta_sharing_client.cpp:247`) | `status` and `delivered` are what the caller can see |
| `PagedFetch` | the loop of `PerformPaginatedGet`, `QueryTable`, `QueryTableChanges`, and `PageGuard` | `current`, `next` = `current_token`/`next_token`, `next_url`; `seen`, `pages` = the guard's fields; `asked`, `got` = requests sent, pages accumulated; `pc` the place in the loop, or the exception |
| `HttpPages` | `PagedFetch` with the client around it: constructor, `PerformRequest` on either transport, destructor | `options` = the options set on `curl_`; `wanted` = the arguments of `PerformRequest`; `sent` what libcurl makes of them; `cleaned` counts `curl_easy_cleanup` |
| `TableQuery` | `PagedFetch` with the lines of the pages: `ParseProtocolAndMetadata`, the branches on file actions, `ParseFileAction` | `files`, `foundProtocol`, `metadata` = the locals and `result` |
| `ListScan` | `ListBind` with `QueryTableMetadata`, `AllTablesBind`, `ListFunction` under DuckDB's executor | `current_idx`, `items` = fields of `ListBindData`; `runs` the executions |
| `SecretResolution` | `ResolveDeltaSharingSecret`, `EndpointCovers`, the token check and the endpoint of the profile, creation of secrets by both providers | `secrets` = the session's secrets; `call`, `outcome` the last bind |
| `ScanBind` | `ReadDeltaShareBind`, `ReadDeltaShareCdfBind`, `ParseSparkSchema`, `ParseColumnMapping` | `kind`, `table`, `files` = the function called and the query's answer; `columns` = `multi_file_bind.columns` with their logical names |
| `FileScan` | `ScanBind`, then `InitializeReader`, `FinalizeBind`, `DeltaShareDeleteFilter` under DuckDB's parallel scan | `constants`, `filter` = `constant_map`, `deletion_filter` of each reader; `returned` counts rows |
| `Z85Decode` | `Z85::Decode` in several threads | `decoder`, `initialized` = the function's statics; the rest are each thread's locals |
| `ExtensionLoad` | `LoadInternal` for the databases of a process | `at` the step of each load; `registered`, `secretTypes` the catalogs; the two globals under their names |
| `ListFiles` | a chunk of `DeltaShareListFilesFunction` and the vectors behind it | `list_data`, `total_size`, `child`, `list_size` = the result vector; `query_results` what each row was answered |
| `PredicateHints` | `ParsePredicateStringToJson` as operators, beside SQL's meaning of a predicate and what a server may read in a hint | none |
| `TableCalls` | `ExtensionLoad`, `ListFiles` and `PredicateHints` composed, with the arguments of the two scans and the requests they become | `given`, `request`, `answer` = arguments, request and reply of the call |
| `PagedFetchProofs`, `ListScanProofs`, `SecretResolutionProofs`, `FileScanProofs`, `Z85DecodeProofs` | theorems about the module they are named for (`FileScanProofs` also about `ScanBind`) | - |
| `ClientProofs` | theorems about `HttpPages` and `TableQuery` | - |
| `CallsProofs` | theorems about `TableCalls` and the three modules it composes | - |
| `DataLemmas` | induction over naturals and sequences; lemmas about maxima, recursion over a sequence, and `FlattenSeq` | - |
| `MCTableQuery`, `MCSecretResolution`, `MCFileScan`, `MCZ85Decode`, `MCTableCalls` | values of the constants | - |

An action is a handler, or the part of one between two points where another actor can
step in. Definitions marked `Faulty` are variants of the definition below them with a
plausible mistake; no specification uses them. They are there to show that a property
can fail: with the variant in place of the definition, TLC finds the property violated.

How the modules are composed:

    WholeFetch  <--refined by--  PagedFetch  <--extended by--  HttpPages
                                             <--extended by--  TableQuery
    ScanBind    <--extended by-- FileScan
    ExtensionLoad, ListFiles, PredicateHints  <--composed in--  TableCalls
    ListScan, SecretResolution, Z85Decode     stand alone

**PagedFetch.** The server is a function from pages to their successors (or `End`), and the
limit (`max_pages`, 0 for none) a number, both fixed at the start; every function of the given
pages is an initial state, so every chain, every cycle and every link back to the start occurs.
Every request may fail, every page may be unreadable. `RequestPage`, `ParsePage`/`RejectPage`
and one of `LastPage`, `GuardRepeat`, `GuardCap`, `FollowPage` are one round of the loop. Names
of pages are compared only for equality, so model values are enough. In a listing, the first
request has no token; its graphs are those in which no page links to `Start`. That a page names
a next one at all (`GetNextPageLink`, `nextPageToken`) is part of `server`: a header the code
does not recognise is a page without successor.

**HttpPages.** The handle is a record of the options the properties tell apart: the verb that
`HTTPGET`, `POST` and `NOBODY` leave behind one another, the url, the body, and the four options
that point into the frame of `PerformRequest` or at its header list, each unset, live or dead.
An option that a request does not set keeps its value. One request of an earlier call on the
same client (a GET, a HEAD of `QueryTableVersion`, a POST of another query) may go first and may
throw. `RequestPage` of the loop is split in two, `PreparePage` and `PerformPage`; a constructor
that throws has closed its handle itself, because C++ then runs no destructor. In the browser
there is no handle, and a request carries its own values.

**TableQuery** conjoins to each action of `PagedFetch` what it does to the result, so the
loop is not written twice, and `PagesLikePagedFetch` checks that nothing done to the result
changes the paging. A line is a record of the few things the code branches on. Each JSON
object has one top-level key, as the protocol says; the branches of the code are tried in
its order for the wrapper and the action inside. `op` is the function called. The window of
ten lines is a constant, two in the run.

**ListScan.** DuckDB binds once and executes the plan as often as it likes; nothing of the
extension runs at the start of an execution. A missing field throws with the rows of the
chunk lost and the position left at the item. The columns of a table come from the metadata
answer, where an empty body and a body without a schema are told apart.

**SecretResolution.** URLs are sequences of tokens, with dot segments and percent-encoded
dots as tokens, so that string prefixes which are no path prefixes exist. The secret manager
(scores, storages, ambiguous names) is external: it is modelled from how the code and
`test/sql/secret_resolution.test` use it. `Requested` is what libcurl makes of a URL: the path
ends at the first `?` or `#`, and dot segments are taken out of it. It appears only in
`RequestsUnderOwnEndpoint`, for the URLs `BuildUrl` makes of the endpoint and any of `Paths`, a
constant: the client's own paths, with names and query strings in them, and the links of
answers, which go behind the endpoint as they are. The property has two conditions. The endpoint
that is added to has no `?` and no `#` (`IsPlain`): `EndpointCovers` compares segments between
slashes only (`delta_sharing_secret_resolution.cpp:124-127`), so that a query is part of a segment
to it and none to libcurl, and README.md:65-67 is shown for plain endpoints only. The path begins
with a slash and has no dot segment before its query (`IsWithin`): the client writes names into its
paths unescaped, and a link is the server's, so that nothing in the code rules the others out.

**ScanBind.** The binds repeat the same steps four times, for two functions with and without
files; the two paths are two operators, and `EmptyBindsAlike` compares them. A column keeps its
logical and its physical name. The order of a hash set is any order. That DuckDB refuses a
table function without columns, and that `read_parquet` may fail to bind, are external. The
model assumes that no two fields of a schema have one logical name, which Delta guarantees:
`ParseColumnMapping` keys its map by that name.

**FileScan** extends `ScanBind`, so the names the reader maps are the names the bind made.
Files are opened and chunks of open files read in any order: this stands for
DuckDB's threads, whose steps on different files share nothing but the file list. The
bitmap's bytes are abstracted to four-byte words of four kinds: the two cookies CRoaring
knows, a stray `3A 30`, anything else. Row numbers are reduced modulo `RowIds`
(2^32 in the code, 4 in the runs, so that five rows exceed it). A partition value is cast
to its column's type (`PartitionValue`) by the constant `Cast`, which may have no value: `DefaultCastAs`
throws then, and the query ends. FinalizeBind's base version
and CreateMapping are external, modelled from the comments at
`delta_share_multi_file_reader.cpp:76-80` and `:201`. `ReadsLogicalTable` is stated of schemas
whose mapping can be applied twice (`MapsOnce`: what a physical name is mapped to is
that name, and no field it maps is without a type); what happens to the others is the run `renamed_column`.

**Z85Decode.** Arithmetic is that of the code, with the 32-bit accumulator in two halves of
16 bits, because TLC's integers have 31 bits. The data race on the two statics is
modelled as interleaved single stores, in the order of the two loops, and a thread that saw
the flag set by another may read anything an entry ever held; one that filled the table
itself reads nothing older than its own stores. A loop's counter runs over all bytes, or the
whole string; the stores into entries that no text asks for are left out.

**ExtensionLoad.** `LoadOrder` is the sequence of steps of `LoadInternal`. A function can be
called as soon as it is registered, while the load goes on; a load may end at the parquet
extension and be tried again; a database may be closed and opened anew. A registered secret type
makes a second registration throw. `httpfs`, whose absence fails nothing, is left out.
Nothing but the parquet extension fails: the registrations behind
`duckdb_delta_sharing_extension.cpp:880` are taken to succeed, and `LoadCanBeRetried` says that
what can fail comes before the secret type, not what a failure behind it would leave.

**ListFiles.** `Reserve` may move the child vector, after which a pointer taken before it writes
nowhere the result sees. Vectors count from 0; the sequences of TLA+ from 1.

**PredicateHints.** A predicate is the tree DuckDB's parser returns, of any nesting up to the
constant `Nesting`; the leaves are tests (comparisons, tests for NULL, BETWEEN). Values are
numbers, and texts are numbers written down, so that the order of texts, `TextRank`, may differ
from that of numbers. `Sql` is what a predicate says of a row, in SQL's three values, a
comparison being one of texts only if all its operands are texts. A server reads a hint's
comparison by the declared type of its leaves where they agree, and may take any other
comparison, and a null node, for anything; it may drop a file only if no way of reading the hint
makes it true of its row. A file has one row. Trees and the functions on them are recursive
functions over `Nested`, the trees nested at most so deep.

**TableCalls.** One call runs at a time, on a database that has the function, while all
databases load, fail and close around it. An argument has one of the types the functions take
and a value; a time becomes a text with a suffix, and the suffix decides what a server can read
in it. The property compares the versions the server answers with with those the arguments
name, without going through the request. A call of `delta_share_list_files` is a chunk of rows,
each with a table and a predicate; a row is answered with any list of files of its table that
misses only files its hint lets the server drop.

## 3. What TLC checks

| Run | Instance | Shows |
|---|---|---|
| `paging` | all graphs of 4 pages, no limit and limit 3, both transports, at most one earlier request | a result is the whole chain, each page once; both refusals are deserved; the limit is exact; requests go out as meant over a reused handle, which is closed once; all of it implements `WholeFetch` |
| `table_queries` | both queries, all graphs of 3 pages, 10 bodies, no limit and limit 2 | the snapshot is what the answer adds, the feed every change with its commit and kind; first metadata wins; a missing header is really missing; a query is a run of `PagedFetch`, and ends |
| `list_scan` | at most 5 items, chunks of 2, 3 executions | first execution whole, no bad item passed, executions end |
| `secrets` | all sets of 9 secrets that storages allow, 32 calls, 5 paths | requests of plain endpoints stay under the ENDPOINT; closest scope or error; no silent switch |
| `file_scan` | lists of at most 2 of 15 files, 6 schemas, both functions | a table binds alike with and without files and is read under its logical schema; live rows once, filters hold, an unreachable vector or a value that cannot be cast gives no rows, constants are the file's own |
| `calls` | 2 databases, 15 arguments, chunks of 2 rows, over a hundred predicates, 3 versions | scans get the snapshot or range their arguments say; rows get their own files; no hint loses a matching file; scans find both globals; a failed load can be retried |
| `z85` | 9 texts, one decode in each of 2 threads | decoding inverts the encoding where the alphabets agree, in a thread that filled the table; nothing out of range; the raced table settles |

Runs that are expected to fail state what a text of the repository says:

| Run | Says | Finds |
|---|---|---|
| `list_reexecuted` | README.md:89, "List all shares" | a second execution of one bind returns no rows |
| `deleted_rows` | README.md:123, deletion vectors are handled | a vector whose bitmap is not found is ignored silently |
| `renamed_column` | `delta_share_multi_file_reader.cpp:76-77` | the mapping is applied twice; a stored column reads NULL |
| `z85_raced` | `z85.hpp:48`, "invalid character" | a valid text is refused during the race |
| `z85_alphabet` | `z85.hpp:10` and `:39` | the alphabet has 84 characters, '!' is missing |

**Why the bounds are enough.** Four pages hold every shape of a chain with a cycle: none, to
the start, to the page itself, to a page in between; a limit of three leaves answers on either
side of it, and 0 leaves cycles to the repeat check alone. One earlier request suffices to leave
any option behind, because each request sets the options of its method again. Two lines of
window leave lines inside, at the edge and outside, and three pages put the header on the first,
a middle and the last. Five items in chunks of two make full, short and empty chunks. Two files
suffice for a constant or a filter to reach the wrong file; five rows in chunks of two and row
numbers modulo four cross both boundaries. Two threads suffice for the race: a third only
repeats the part of the second. In `calls`, databases are interchangeable, so they are a
symmetry set; one calls while the other loads or closes. A child vector that has room for two urls
moves behind the first row, the second, or never. The first row of a chunk takes every
predicate, the second one of `LaterPredicates`, since rows share only the child vector. Three
versions with commits at odd times put a time between, on, before and behind commits.

**Deadlock** is checked where the system has no natural end: `HttpPages` and `TableQuery`
stutter explicitly when done, `SecretResolution` and `TableCalls` never end. `ListScan`,
`FileScan` and `Z85Decode` stop when their bounded work is over.

**Fairness.** `TableQuery` assumes weak fairness of the loop as a whole for `Terminates`: its
steps are the client's own, and a request returns, fails, or is ended by `http_timeout`
(README.md:182). A server that keeps sending at more than 1 KB/s forever, or
`http_timeout = 0`, is outside this assumption. `ListScan` assumes that DuckDB goes on pulling
chunks of an execution it has begun; it may still stop it, and it need not start another. The
other specifications claim only safety and assume no fairness: a load, a call or a decode may
stop anywhere.

## 4. What is proved

Each proof module has one inductive invariant. What TLC checks on an instance, the theorem
states for all of them; the assumptions are the named `ASSUME`s of the modules, which TLC
evaluates in the runs.

**`PagedFetchProofs`**, for every set of pages, finite or not, every start, and every limit
(the start is a page, `End` is none, limits are natural numbers): `TypeCorrect`, `Inductive`,
`NeverPartialCorrect`, `RepeatCorrect`, `CapCorrect`, `RequestsCorrect` (no more requests than the
limit allows), `NoPageTwiceCorrect`, and `Refinement`: the loop implements `WholeFetch`, step by
step. None of the properties is inductive. What a result contains depends on how it was
accumulated, so `IInv` relates the history to the guard's fields: `asked` follows the
server's links from `Start`; `got` is `asked`, or lacks exactly the page of the request
under way; `pages` is the number of requests; and `seen` holds exactly the pages asked after
the first. From the last part, a repeat means that the link closes a cycle among pages
asked, whose set is closed under the links (`RepeatMeansEndless`); from the second and third,
a result is the whole chain, and the limit is exact. Refinement follows: only the last step
changes what the caller sees.

**`ClientProofs`**, for every set of pages and bodies, every header window, limit and number of
earlier requests. About the client: `ClientPages` (its life is a run of the paging loop, so
that the theorems above hold of it), `ClientTypeCorrect`, `SentCorrect`, `BuffersCorrect`,
`HandleCorrect` and, through the refinement of `PagedFetch`, `ClientFetchesWhole`. The invariant
ties `sent` to the options and the options to `wanted`, and the number of cleanups to the
client's state. About the queries: `QueriesPage` (both are runs of the paging loop),
`QueryTypeCorrect`, `FirstMetadataCorrect`, `MissingHeaderCorrect`, `SnapshotCorrect` and
`ChangesCorrect`. `MetaInv` and `HeaderInv` add that no page read before metadata, or a protocol
line, was found had one in its window. `FilesInv` says that `files` is what the pages in `got`
give, one after the other; with the theorem that a result is the whole chain, it is what
the whole answer gives. The properties collect from all lines of the answer at once, the code
page by page: that this is the same is `CollectConcat` and `CollectShown` of `DataLemmas`, by
induction over the pages.

**`ListScanProofs`**, for every list, chunk size and number of executions:
`ListingTypeCorrect`, `FirstExecutionCorrect`, `BadItemCorrect`. The invariant says that while
there has been one execution, its rows are exactly the items up to `current_idx`.

**`SecretResolutionProofs`**, for every set of candidate secrets, requests and URLs (names are
numbers; a scope, an ENDPOINT and a path are sequences; the scheme is no slash): `SecretTypeCorrect`,
`OwnEndpointCorrect`, `ClosestScopeCorrect`, `NoSwitchCorrect`. The invariant is the types, that
the session has finitely many secrets, and `RequestsUnderOwnEndpoint`: with finitely many there
is a best score and a first among the best, without which `LookupSecret` would be undefined.
The theorem that earns its length is the second. A covered URL is the ENDPOINT, a slash and a
rest without dot segments (`IsBelow`), and what is requested when a path is added to a plain
endpoint is the endpoint and another such rest. `IsBelow` is transitive; that what libcurl makes
of the whole begins with what it makes of the ENDPOINT is proved by induction over the rest, since
a segment that is no dot segment is only ever appended. The theorem has the conditions of the
property, `IsPlain` and `IsWithin`, and no others.

**`CallsProofs`** has one invariant for each part and composes them.

- `ListFiles`, for every chunk size, capacity and set of answers: `ListTypeCorrect`,
  `RowsCorrect`. The entries' slices lie below `total_size`, which the child vector has room
  for, and each holds its row's answer; what `Reserve` moves it copies.
- `ExtensionLoad`, for any set of databases: `LoadTypeCorrect`, `GlobalsCorrect`,
  `RetryCorrect`. The invariant says what a load past a step has done: past the fourth and the
  fifth the globals are assigned, and a secret type is there only behind a load that could not
  fail any more.
- `TableCalls`, for any databases, arguments, history of versions, tables and predicates:
  `CallsCompose` (a behaviour of the calls is one of the load and one of the chunks, so that
  the theorems above hold of it), `CallsTypeCorrect`, `AskedCorrect`. `CallInv` says that the
  request is the one the arguments make, that an answer is the server's to that request, and
  that every row answered so far has an answer its hint allows. `AnswerAsAsked` then compares
  two sets of versions, of which one went through texts, suffixes and the preference for a
  version; the latest version before a time is a maximum, from `MaxOfBounded`.
- `HintsCorrect`, for predicates of any nesting, any rows and any order of texts: a file that has
  a row the predicate holds of is in the row's list, whatever the server does that the hint
  allows. A recursive function is by definition a `CHOOSE`; `ParseDef`, `SqlDef` and `TakenDef`
  show that each satisfies its own equation, by induction over the nesting. `ReadOut`, by the
  same induction, is the heart of it: if an expression is true of a row, its hint may be taken for
  true. The same does not hold of NULL (in a hint, a literal NULL is a text of four letters), nor
  needs to: a negated expression becomes a null node, so only truth has to be passed up. `CalledRight` is the precondition: no two operands that a hint
  calls texts are compared as numbers.

**`FileScanProofs`**, for every table, file list, chunk size and number of row ids (the rows of a
file are a natural number, a bitmap marks only row numbers it can hold): `ScanInductive`,
`LiveRowsCorrect`, `VectorsCorrect`, `ConstantsCorrect`. How often a row was returned is a
matter of history; the invariant makes it one of the state: a row was returned, once, if and
only if the chunk it lies in was read and its file's filter keeps it. The arithmetic of chunks
is in lemmas of its own, of which `OneChunk` (a row lies in one chunk) is the one that matters.
About the columns: `ScanTypeCorrect`, `BindsAlikeCorrect`, `LogicalCorrect`, for every table
(partition columns and fields are lists, and no two fields have one name). `BindInv` says that
the columns are what one of the two paths makes of the table. Appending what is missing leaves
the logical names so far and adds the rest in order, so that the set of columns does not depend
on the order of a hash set; and the mapping, applied to a name it has already made, gives that
name again for the schemas `ReadsLogicalTable` speaks of.

**`Z85DecodeProofs`**, for any number of threads and any texts (characters are bytes):
`TableCorrect`, `DecodeTypeCorrect`, `DecodeCorrect`. A late thread may erase what others have
filled, so "the flag is set" proves nothing of an entry; `IInv` says that an entry of a coded
character is right, or some thread has yet to store it, or nobody has begun; and that the other
entries are erased before any thread leaves the first loop. `DecodeInv` follows a decode: a
thread that has been through the table finds an entry erased or right, so the accumulator is the
value of the digits read of the group, and the bytes stored are those of the groups before.
The arithmetic of the two 16-bit halves is in lemmas: what `TimesPlus` makes of a value that fits
is the value times 85 plus the digit, and dividing gives the digits back. That the groups, one
after the other, are the text is an induction over their number.

**`DataLemmas`**. The library's induction theorems take an operator as a parameter, which the
installed provers cannot instantiate. Stated for a set (a set with 0 and the successor of each
of its naturals has all of them), induction follows from `WFMin`, and is then used like any other
lemma: the set is the one of the naturals, or sequences, that have the property.

**Only model-checked**: `Terminates` and `ScanEnds`. They are liveness properties under
fairness, which needs ENABLED, out of the prover's reach. Every other property of a run that
passes is stated by a theorem. The theorems hold of the models: what DuckDB, libcurl, CRoaring
and the server do is assumed there as section 2 describes it. Of the hazards in `PROJECT.json`
without a property, none has a theorem either.

## 5. What is not modelled

- **The ODBC patches** (`patch_thread_safety.py`, `mac_odbc_fixes.patch`) edit the text of a
  driver whose sources are not in the repository. Where the inserted guards end up, who frees a
  handle and which locks are held cannot be read here.
- **The demo** is an example application that calls the extension through DuckDB-Wasm.
- **The JSON wrapper** is a value without state; how it answers for absent and null fields is
  part of the parsers that call it. **Build, CI and tests** have no program state.
- **Texts**: request bodies, the formatting of URLs and errors, the text of headers and NDJSON,
  the parser of Spark types, the values DuckDB's casts return, the optional fields of file actions,
  telemetry, and certificates and timeouts as such (a request succeeds or fails).
- `QueryTableVersion` and `GetShare` are called by no function of the extension; they occur as
  earlier requests in `HttpPages` only.
- **Memory**: the two globals are copied while another load may assign them. The model
  covers that they are assigned, not the race of the copy.

Observations made while modelling that no run states, because no text of the repository says
otherwise or because they lie below the abstraction:

- `GetNextPageLink` takes a header that is not exactly `<...>; rel="next"` for the last page
  (`delta_sharing_client.cpp:234`), and of several `Link` headers the first is kept (`:133`).
- The deletion vector's cardinality is parsed and never compared with the bitmap.
- A change feed of a table whose schema string cannot be parsed is bound with its partition and
  change columns alone (the comment at `delta_sharing_client.cpp:1252` leaves this to the caller).
- README.md:149-150 gives a range as texts of dates; a text is cast to a version number, so that
  such a call ends with a cast error. README.md:152 names values of `_change_type`; the reader
  injects the action's name for whole files (`add`, `remove`) and `cdf` for change files.
- A TIMESTAMPTZ goes into the changes URL with its `+00` unescaped, where `+` is a space.
- An end below zero is no end; a NULL timestamp becomes `NULLZ` in a change feed, and a NULL name
  in `delta_share_list_files` the name `NULL`.
- Every column of a hint is declared a string (`duckdb_delta_sharing_functions.cpp:36`, "will be
  inferred from context"), so that a server which compares as declared could drop files with
  matches. `HintsKeepMatches` is therefore claimed of predicates in which no two operands that a
  hint calls texts are compared as numbers: a column of numbers may be compared with whole numbers,
  not with a decimal, a quoted number or another column; columns of texts may be compared with
  texts, or with whole numbers, whose types then disagree in the hint.
- Nested fields of a struct keep their logical names under column mapping.
- The body of every query is also written to one file under `/tmp` (`delta_sharing_client.cpp:854`).
- `QueryTable` passes on a version only above 0, so that version 0 cannot be asked for.
- The handle's pointers dangle from the end of a request to the next one, and still do when the handle is closed.
- The environment provider reads the environment once, at `CREATE SECRET`.

## 6. Plan

Done: paging and its abstract specification, under the client that performs it; table
queries; listings; secrets; binds and the file reader; the decoder; the load; file lists,
hints and arguments, composed; theorems about all of them, for every safety property of the
runs and the refinement.

Left: abstract specifications of a table query and of a scan (one step from the answer to the
result), which `SnapshotCorrect`, `ChangesCorrect` and `LiveRowsCorrect` already imply in
substance; the fields of a file action and the nested types of columns, where `ParseFileAction` and the
parser of types differ between the two queries.
