------------------------------ MODULE PagedFetch ------------------------------
(***************************************************************************)
(* The paging loop of the Delta Sharing client, and the PageGuard that     *)
(* ends it. PerformPaginatedGet (listings), QueryTable and                 *)
(* QueryTableChanges share it: request a page, parse it, look for the name *)
(* of the next page (a token in the body, or a Link header), show that     *)
(* name to the guard, repeat.                                              *)
(*                                                                         *)
(* The server is a page graph, and the limit a number, fixed at the start. *)
(* Every request may fail, and so may the parsing of every page. A page    *)
(* may name any page as its successor, the first request included: the     *)
(* links of a table query are whatever the server writes. (A listing's     *)
(* first request carries no token and no token names it; that is one of    *)
(* the graphs.)                                                            *)
(*                                                                         *)
(* An exception leaves the function, and with it everything accumulated:   *)
(* the outcomes other than "ok" are the C++ exceptions thrown.             *)
(***************************************************************************)
EXTENDS Integers, Sequences

CONSTANTS
    Pages,      \* names of pages: the first request, page tokens, page links
    Start,      \* the first request
    End,        \* the empty token or link: no next page
    Limits      \* the values of delta_sharing_max_pages, 0 for no limit

ASSUME PagedFetchAssumption ==
    /\ Start \in Pages
    /\ End \notin Pages
    /\ Limits \subseteq Nat

VARIABLES
    server,     \* each page's next page, fixed
    max_pages,  \* profile_.max_pages, fixed
    pc,         \* the step of the loop, then the outcome
    current,    \* current_token, next_url: the page of this request
    next,       \* next_token, next_url: the name found in the page
    seen,       \* PageGuard::seen_
    pages,      \* PageGuard::pages_
    asked,      \* every page requested so far, in order
    got         \* the pages accumulated into the result, in order

vars == <<server, max_pages, pc, current, next, seen, pages, asked, got>>

Errors   == {"http_error", "parse_error", "repeat", "cap"}
Outcomes == {"ok"} \cup Errors

TypeOK ==
    /\ server \in [Pages -> Pages \cup {End}]
    /\ max_pages \in Limits
    /\ pc \in {"request", "parse", "follow"} \cup Outcomes
    /\ current \in Pages
    /\ next \in Pages \cup {End}
    /\ seen \in SUBSET Pages
    /\ pages \in Nat
    /\ asked \in Seq(Pages)
    /\ got \in Seq(Pages)

Init ==
    /\ server \in [Pages -> Pages \cup {End}]
    /\ max_pages \in Limits
    /\ pc = "request"
    /\ current = Start
    /\ next = End
    /\ seen = {}
    /\ pages = 1
    /\ asked = <<>>
    /\ got = <<>>

-------------------------------------------------------------------------------

\* PerformRequest: a transport error, a timeout or a status that is not 2xx
\* makes the caller throw.
RequestPage ==
    /\ pc = "request"
    /\ asked' = Append(asked, current)
    /\ pc' \in {"parse", "http_error"}
    /\ UNCHANGED <<server, max_pages, current, next, seen, pages, got>>

\* Faulty: the name is recorded as it is read, and again by the guard.
ParsePageRecords ==
    /\ pc = "parse"
    /\ got' = Append(got, current)
    /\ next' = server[current]
    /\ seen' = seen \cup ({server[current]} \ {End})
    /\ pc' = "follow"
    /\ UNCHANGED <<server, max_pages, current, pages, asked>>

\* The body is parsed, its content accumulated, and the next page's name read.
ParsePage ==
    /\ pc = "parse"
    /\ got' = Append(got, current)
    /\ next' = server[current]
    /\ pc' = "follow"
    /\ UNCHANGED <<server, max_pages, current, seen, pages, asked>>

\* The body is not what the protocol says.
RejectPage ==
    /\ pc = "parse"
    /\ pc' = "parse_error"
    /\ UNCHANGED <<server, max_pages, current, next, seen, pages, asked, got>>

\* No next page: the loop ends. A table query still throws when no page held
\* the protocol and the metadata.
LastPage ==
    /\ pc = "follow"
    /\ next = End
    /\ pc' \in {"ok", "parse_error"}
    /\ UNCHANGED <<server, max_pages, current, next, seen, pages, asked, got>>

-------------------------------------------------------------------------------
\* PageGuard::Next, called with each next page's name before its request

Repeated == next \in seen

\* Faulty: off by one.
AtCapEarly == max_pages > 0 /\ pages >= max_pages - 1

AtCap == max_pages > 0 /\ pages >= max_pages

\* Faulty: the loop ends on a repeat and returns what it has; or it catches the
\* exception and looks at the same name again.
GuardRepeatBreaks ==
    /\ pc = "follow"
    /\ next # End
    /\ Repeated
    /\ pc' = "ok"
    /\ UNCHANGED <<server, max_pages, current, next, seen, pages, asked, got>>

GuardRepeatRetries ==
    /\ pc = "follow"
    /\ next # End
    /\ Repeated
    /\ UNCHANGED vars

\* seen_.insert found the name there already.
GuardRepeat ==
    /\ pc = "follow"
    /\ next # End
    /\ Repeated
    /\ pc' = "repeat"
    /\ UNCHANGED <<server, max_pages, current, next, seen, pages, asked, got>>

\* Faulty: the loop ends at the limit and returns what it has.
GuardCapBreaks ==
    /\ pc = "follow"
    /\ next # End
    /\ ~Repeated
    /\ AtCap
    /\ seen' = seen \cup {next}
    /\ pc' = "ok"
    /\ UNCHANGED <<server, max_pages, current, next, pages, asked, got>>

GuardCap ==
    /\ pc = "follow"
    /\ next # End
    /\ ~Repeated
    /\ AtCap
    /\ seen' = seen \cup {next}
    /\ pc' = "cap"
    /\ UNCHANGED <<server, max_pages, current, next, pages, asked, got>>

\* Faulty: an empty token is followed; or only the last name is remembered.
FollowEmptyToken ==
    /\ pc = "follow"
    /\ ~Repeated
    /\ ~AtCap
    /\ seen' = seen \cup {next}
    /\ pages' = pages + 1
    /\ current' = next
    /\ pc' = "request"
    /\ UNCHANGED <<server, max_pages, next, asked, got>>

FollowPageForgets ==
    /\ pc = "follow"
    /\ next # End
    /\ ~Repeated
    /\ ~AtCap
    /\ seen' = {next}
    /\ pages' = pages + 1
    /\ current' = next
    /\ pc' = "request"
    /\ UNCHANGED <<server, max_pages, next, asked, got>>

FollowPage ==
    /\ pc = "follow"
    /\ next # End
    /\ ~Repeated
    /\ ~AtCap
    /\ seen' = seen \cup {next}
    /\ pages' = pages + 1
    /\ current' = next
    /\ pc' = "request"
    /\ UNCHANGED <<server, max_pages, next, asked, got>>

-------------------------------------------------------------------------------

\* The function has returned or thrown.
Done == pc \in Outcomes

Terminated == Done /\ UNCHANGED vars

Next ==
    \/ RequestPage
    \/ ParsePage
    \/ RejectPage
    \/ LastPage
    \/ GuardRepeat
    \/ GuardCap
    \/ FollowPage
    \/ Terminated

Spec == Init /\ [][Next]_vars

-------------------------------------------------------------------------------
\* Properties

Abstract == INSTANCE WholeFetch WITH
    status    <- CASE pc = "ok" -> "ok"
                   [] pc \in {"repeat", "cap"} -> "refused"
                   [] pc \in {"http_error", "parse_error"} -> "failed"
                   [] OTHER -> "pending",
    delivered <- IF pc = "ok" THEN got ELSE <<>>

\* Paging is invisible to the caller: the loop and its guard implement a fetch
\* that delivers the whole answer at once or raises an error, and refuse only
\* an answer that never ends or that is longer than the limit.
ImplementsWholeFetch == Abstract!WholeSpec

\* A result that is returned is the server's whole chain of pages, each page
\* exactly once, from the first request to a page without successor.
NeverPartial ==
    pc = "ok" =>
        /\ Abstract!IsWholeAnswer(got)
        /\ \A i, j \in 1..Len(got) : got[i] = got[j] => i = j

\* The guard calls an answer cyclic only when following it would never end.
RepeatMeansEndless == pc = "repeat" => Abstract!Endless

\* The limit refuses only an answer with more than max_pages pages, and only
\* after exactly max_pages of them were requested.
CapMeansTooLong ==
    pc = "cap" => Len(asked) = max_pages /\ Abstract!TooLong

\* The server is asked for at most max_pages pages, whatever links it returns.
RequestsWithinLimit == Abstract!WithinLimit(Len(asked))

\* No page is requested twice, except that a link back to the first request
\* is followed once: the guard is never shown the first request itself.
NoPageTwice ==
    \A i, j \in 1..Len(asked) : i < j /\ asked[i] = asked[j] => i = 1

\* With finitely many page names the fetch returns or throws, even with the
\* limit switched off (max_pages = 0).
Terminates == <>Done

===============================================================================
