------------------------------ MODULE WholeFetch ------------------------------
(***************************************************************************)
(* What a paged request promises its caller, with the paging left out.     *)
(*                                                                         *)
(* The server splits one answer into pages; server[p] is the page that     *)
(* page p names as its successor, End when p names none. A fetch either    *)
(* delivers the whole answer in one step, or raises an error: there is no  *)
(* third outcome in which the caller sees some of the pages. It refuses an *)
(* answer only when that answer has no end, or is longer than the limit    *)
(* the user set, and it may fail at any time for a reason of the           *)
(* transport or of the content.                                            *)
(***************************************************************************)
EXTENDS Integers, Sequences

CONSTANTS
    Pages,      \* names of pages: the first request, page tokens, page links
    Start,      \* the first request
    End,        \* the empty token or link: no next page
    Limits      \* the values of delta_sharing_max_pages, 0 for no limit

VARIABLES
    server,     \* the answer: each page's next page
    max_pages,  \* the user's limit
    status,     \* "pending", then "ok", "refused" or "failed"
    delivered   \* the pages the caller has been given

whole == <<server, max_pages, status, delivered>>

-------------------------------------------------------------------------------

\* c follows the server's links from the first request.
IsPath(c) ==
    /\ c # <<>> => c[1] = Start
    /\ \A i \in 1..Len(c) - 1 : server[c[i]] = c[i + 1]

\* c is the whole answer: it follows the links up to a page that has none.
IsWholeAnswer(c) ==
    /\ c # <<>>
    /\ IsPath(c)
    /\ server[c[Len(c)]] = End

WithinLimit(n) == max_pages > 0 => n <= max_pages

\* Following the links never ends: the first request is in a set of pages
\* whose successors are all in the set.
Endless == \E S \in SUBSET Pages : Start \in S /\ \A p \in S : server[p] \in S

\* After max_pages pages the server still names a next one.
TooLong ==
    /\ max_pages > 0
    /\ \E c \in [1..max_pages -> Pages] :
          /\ c[1] = Start
          /\ \A i \in 1..max_pages - 1 : server[c[i]] = c[i + 1]
          /\ server[c[max_pages]] # End

-------------------------------------------------------------------------------

WholeInit ==
    /\ server \in [Pages -> Pages \cup {End}]
    /\ max_pages \in Limits
    /\ status = "pending"
    /\ delivered = <<>>

Deliver ==
    /\ status = "pending"
    /\ status' = "ok"
    /\ IsWholeAnswer(delivered')
    /\ WithinLimit(Len(delivered'))
    /\ UNCHANGED <<server, max_pages>>

Refuse ==
    /\ status = "pending"
    /\ Endless \/ TooLong
    /\ status' = "refused"
    /\ UNCHANGED <<server, max_pages, delivered>>

Fail ==
    /\ status = "pending"
    /\ status' = "failed"
    /\ UNCHANGED <<server, max_pages, delivered>>

WholeNext == Deliver \/ Refuse \/ Fail

WholeSpec == WholeInit /\ [][WholeNext]_whole

===============================================================================
