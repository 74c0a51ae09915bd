------------------------------ MODULE TableQuery ------------------------------
(***************************************************************************)
(* QueryTable (a snapshot's files) and QueryTableChanges (the change data  *)
(* feed): the paging loop of PagedFetch with the content of the pages.     *)
(*                                                                         *)
(* A page is a sequence of lines, each a JSON object. The protocol and the *)
(* table's metadata are looked for in the first HeaderWindow lines of      *)
(* every page until both are found; every line of every page is looked at  *)
(* for a file action. Each action of this module is the action of          *)
(* PagedFetch of the same place in the loop, with what it does to the      *)
(* result.                                                                 *)
(*                                                                         *)
(* A line is abstracted to                                                 *)
(*   key      the one top-level key of the object, where the code branches *)
(*            on it: "protocol", "metaData", "file", "add", "cdf",         *)
(*            "remove"; "other" for any other object and for a line that   *)
(*            is no object; "malformed" for one that is not JSON           *)
(*   action   for a "file" line: the action inside deltaSingleAction, or   *)
(*            "plain" when there is no such wrapper                        *)
(*   id       the file, or the table's metadata                            *)
(*   version  the version of the "file" object itself, Absent if none      *)
(*   inner    the version of the action inside, Absent if none             *)
(*   valid    the required fields are there and have their types           *)
(***************************************************************************)
EXTENDS PagedFetch, SequencesExt

CONSTANTS
    HeaderWindow,   \* how many lines of a page may hold the header: 10
    Bodies,         \* the page bodies a server may send: sequences of lines
    NoMetadata      \* no metadata found yet

Absent == -1

Wrapped == {"add", "cdc", "remove", "other", "plain"}

IsLine(line) ==
    /\ line.id # NoMetadata
    /\ {line.version, line.inner} \subseteq Nat \cup {Absent}
    /\ IF line.key = "file" THEN line.action \in Wrapped ELSE line.action = ""

ASSUME TableQueryAssumption ==
    /\ HeaderWindow \in Nat
    /\ \A lines \in Bodies :
          lines \in Seq(ToSet(lines)) /\ \A i \in DOMAIN lines : IsLine(lines[i])

VARIABLES
    op,             \* the function called: "query" for QueryTable, "changes" for
                    \* QueryTableChanges
    body,           \* each page's lines, fixed
    files,          \* result.files
    foundProtocol,  \* found_protocol
    metadata        \* result.metadata, NoMetadata until found_metadata

content == <<files, foundProtocol, metadata>>
call    == <<op, body>>
tqVars  == <<vars, call, content>>

-------------------------------------------------------------------------------
\* ParseProtocolAndMetadata

Window(lines) == SubSeq(lines, 1, IF Len(lines) < HeaderWindow
                                  THEN Len(lines) ELSE HeaderWindow)

\* The first line of the header window with the key, if there is one.
FirstLine(lines, key) ==
    LET S == {i \in DOMAIN Window(lines) : lines[i].key = key}
    IN {i \in S : \A j \in S : i <= j}

\* Faulty: only the first page is looked at for the protocol; metadata replaces
\* metadata found before.
ProtocolLineFirstPage(lines) ==
    IF foundProtocol \/ got # <<>> THEN {} ELSE FirstLine(lines, "protocol")

MetadataLineAgain(lines) == FirstLine(lines, "metaData")

\* The lines the header is taken from: none once it is known.
ProtocolLine(lines) == IF foundProtocol THEN {} ELSE FirstLine(lines, "protocol")

MetadataLine(lines) ==
    IF metadata # NoMetadata THEN {} ELSE FirstLine(lines, "metaData")

-------------------------------------------------------------------------------
\* ParseFileAction, and the branches that lead to it

File(line, type, version) == [id |-> line.id, type |-> type, version |-> version]

\* Faulty: the wrapper's version is not looked at.
OuterIgnored(line) == line.inner

\* The version of the wrapper, where it has one, replaces the action's.
Outer(line) == IF line.version >= 0 THEN line.version ELSE line.inner

IsFile(line, action) == line.key = "file" /\ line.action = action

\* Faulty: the object's key is passed on as the type of a change.
SnapshotFilesTyped(line) ==
    CASE IsFile(line, "add")   -> <<File(line, line.key, line.inner)>>
      [] IsFile(line, "plain") -> <<File(line, line.key, line.inner)>>
      [] line.key = "add"      -> <<File(line, "add", line.inner)>>
      [] OTHER                 -> <<>>

\* A snapshot keeps what was added and drops every other action.
SnapshotFiles(line) ==
    CASE IsFile(line, "add")   -> <<File(line, "", line.inner)>>
      [] IsFile(line, "plain") -> <<File(line, "", line.inner)>>
      [] line.key = "add"      -> <<File(line, "add", line.inner)>>
      [] OTHER                 -> <<>>

\* The change feed keeps the three kinds of change, cdc and cdf being one.
ChangeFiles(line) ==
    CASE IsFile(line, "add")                  -> <<File(line, "add", Outer(line))>>
      [] IsFile(line, "cdc")                  -> <<File(line, "cdf", Outer(line))>>
      [] IsFile(line, "remove")               -> <<File(line, "remove", Outer(line))>>
      [] IsFile(line, "plain")                -> <<File(line, "", Outer(line))>>
      [] line.key \in {"add", "cdf", "remove"} -> <<File(line, line.key, line.inner)>>
      [] OTHER                                -> <<>>

FilesOf(line) == IF op = "query" THEN SnapshotFiles(line) ELSE ChangeFiles(line)

\* Faulty: the lines of the header window are skipped.
ActionsBehindHeader(lines) ==
    FlattenSeq([i \in DOMAIN lines |->
                   IF i <= Len(Window(lines)) THEN <<>> ELSE FilesOf(lines[i])])

ActionsOf(lines) == FlattenSeq([i \in DOMAIN lines |-> FilesOf(lines[i])])

\* ParseNDJson throws on a line that is not JSON; the two functions above on an
\* object without its required fields, if they look at it; and QueryTable on an
\* empty first page.
Unreadable(lines) ==
    \/ \E i \in DOMAIN lines : lines[i].key = "malformed"
    \/ \E i \in ProtocolLine(lines) \cup MetadataLine(lines) : ~lines[i].valid
    \/ \E i \in DOMAIN lines : FilesOf(lines[i]) # <<>> /\ ~lines[i].valid
    \/ op = "query" /\ lines = <<>> /\ got = <<>>

-------------------------------------------------------------------------------

TQInit ==
    /\ Init
    /\ op \in {"query", "changes"}
    /\ body \in [Pages -> Bodies]
    /\ files = <<>>
    /\ foundProtocol = FALSE
    /\ metadata = NoMetadata

ReadPage ==
    LET lines == body[current] IN
    /\ ParsePage
    /\ ~Unreadable(lines)
    /\ foundProtocol' = (foundProtocol \/ ProtocolLine(lines) # {})
    /\ IF MetadataLine(lines) = {}
       THEN UNCHANGED metadata
       ELSE \E i \in MetadataLine(lines) : metadata' = lines[i].id
    /\ files' = files \o ActionsOf(lines)
    /\ UNCHANGED call

UnreadablePage ==
    /\ RejectPage
    /\ Unreadable(body[current])
    /\ UNCHANGED <<call, content>>

\* After the loop: throw unless both the protocol and the metadata were found.
EndOfPages ==
    /\ LastPage
    /\ pc' = "ok" <=> foundProtocol /\ metadata # NoMetadata
    /\ UNCHANGED <<call, content>>

SendRequest  == RequestPage /\ UNCHANGED <<call, content>>
RefuseRepeat == GuardRepeat /\ UNCHANGED <<call, content>>
RefuseLong   == GuardCap /\ UNCHANGED <<call, content>>
\* Faulty: the link is followed without asking the guard.
FollowUnguarded ==
    /\ pc = "follow"
    /\ next # End
    /\ current' = next
    /\ pc' = "request"
    /\ UNCHANGED <<server, max_pages, next, seen, pages, asked, got, call, content>>

FollowLink   == FollowPage /\ UNCHANGED <<call, content>>
Returned     == Terminated /\ UNCHANGED <<call, content>>

TQNext ==
    \/ SendRequest
    \/ ReadPage
    \/ UnreadablePage
    \/ EndOfPages
    \/ RefuseRepeat
    \/ RefuseLong
    \/ FollowLink
    \/ Returned

TQSpec == TQInit /\ [][TQNext]_tqVars

\* Every step is the client's own, and a request ends in an answer, an error
\* or the timeout of the profile (http_timeout), so no step is delayed forever.
TQFairSpec == TQSpec /\ WF_tqVars(TQNext)

-------------------------------------------------------------------------------
\* Properties

FileTypes == {"", "add", "cdf", "remove"}

TQTypeOK ==
    /\ TypeOK
    /\ op \in {"query", "changes"}
    /\ foundProtocol \in BOOLEAN
    /\ \A i \in DOMAIN files : files[i].type \in FileTypes

\* What the pages are for does not disturb the paging: the query is a run of
\* the paging loop.
PagesLikePagedFetch == Spec

\* Every line of the pages read so far, in the order they were read.
LinesRead == FlattenSeq([i \in DOMAIN got |-> body[got[i]]])

\* What is made of each of the lines, one after the other.
Collected(Of(_), lines) == FlattenSeq([i \in DOMAIN lines |-> Of(lines[i])])

Adds(line) == line.key = "add" \/ IsFile(line, "add") \/ IsFile(line, "plain")

Added(line) == IF Adds(line) THEN <<line.id>> ELSE <<>>

\* A snapshot that is returned holds every file the server's answer adds, from
\* every page, once and in order, and nothing else: a line that also lies in the
\* header window is still looked at for a file, and no removed file comes back.
SnapshotIsWholeAnswer ==
    pc = "ok" /\ op = "query" =>
        /\ Abstract!IsWholeAnswer(got)
        /\ [i \in DOMAIN files |-> files[i].id] = Collected(Added, LinesRead)

Changes(line) ==
    \/ line.key \in {"add", "cdf", "remove"}
    \/ line.key = "file" /\ line.action # "other"

\* The commit a line's change belongs to: that of the "file" object itself, and
\* of the action inside where the object names none.
CommitOf(line) ==
    IF line.key = "file" /\ line.version # Absent THEN line.version ELSE line.inner

Change(id, version, removed) == [id |-> id, version |-> version, removed |-> removed]

Changed(line) ==
    IF Changes(line)
    THEN <<Change(line.id, CommitOf(line), "remove" \in {line.key, line.action})>>
    ELSE <<>>

\* The change feed that is returned holds every change of the answer, from every
\* page, once and in order, with its commit, and a change is a removal in the
\* feed exactly if it was one in the answer.
ChangesAreWholeAnswer ==
    pc = "ok" /\ op = "changes" =>
        /\ Abstract!IsWholeAnswer(got)
        /\ [i \in DOMAIN files |->
               Change(files[i].id, files[i].version, files[i].type = "remove")]
             = Collected(Changed, LinesRead)

\* The metadata the reader is given is that of the first page whose header window
\* carries one: a later page never replaces it.
FirstMetadataWins ==
    metadata # NoMetadata =>
        \E k \in DOMAIN got :
            /\ \E i \in FirstLine(body[got[k]], "metaData") : metadata = body[got[k]][i].id
            /\ \A j \in 1..k - 1 : FirstLine(body[got[j]], "metaData") = {}

\* The error for a missing header is raised only when no page of the whole answer
\* has a protocol, or none has metadata, in its header window. (A page that was
\* asked for and not read raised another error.)
MissingHeaderIsMissing ==
    pc = "parse_error" /\ got = asked =>
        \E key \in {"protocol", "metaData"} :
            \A k \in DOMAIN got : FirstLine(body[got[k]], key) = {}

===============================================================================
