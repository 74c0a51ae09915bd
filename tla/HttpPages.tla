------------------------------- MODULE HttpPages -------------------------------
(***************************************************************************)
(* A DeltaSharingClient under the paging loop of PagedFetch: how a page is *)
(* requested (PerformRequest) and what becomes of the client's curl        *)
(* handle.                                                                 *)
(*                                                                         *)
(* A client opens one handle in its constructor and closes it in its       *)
(* destructor. Every request of every call goes through that handle, and   *)
(* an option that is set stays set: what a request does not set itself it  *)
(* inherits from the request before. Four options are pointers into the    *)
(* frame of PerformRequest or to its header list, and dangle as soon as it *)
(* returns. A table query is a POST followed by GETs of links; all other   *)
(* calls are GETs, but for a HEAD.                                         *)
(*                                                                         *)
(* In the browser there is no handle; each request carries its own values. *)
(***************************************************************************)
EXTENDS PagedFetch

CONSTANTS
    Elsewhere,      \* the path of a request that an earlier call on the client made
    MaxEarlier      \* bound: how many such requests are made

ASSUME HttpPagesAssumption == Elsewhere \notin Pages /\ MaxEarlier \in Nat

VARIABLES
    transport,      \* "curl" for a native build, "xhr" for the browser's, fixed
    kind,           \* the paged call: "list", "query" or "changes", fixed
    client,         \* "new", "idle", "set" (about to perform a request), "failed"
                    \* (an earlier call threw), "void" (no handle could be had),
                    \* "refused" (the constructor threw with one), "gone"
    options,        \* the options of curl_
    wanted,         \* the arguments of PerformRequest
    sent,           \* what went out for them, NoRequest until it did
    earlier,        \* how many requests earlier calls made
    cleaned         \* how often curl_easy_cleanup was called

setup == <<transport, kind>>
http  == <<client, options, wanted, sent, earlier, cleaned>>
hpVars == <<vars, setup, http>>

NoBody      == "no_body"
QueryBody   == "query"    \* the request body of QueryTable, never empty
EmptyObject == "empty_object"  \* {}

Request(method, path, body) == [method |-> method, path |-> path, body |-> body]

NoRequest == Request("none", Elsewhere, NoBody)

\* The options that refer to something of the PerformRequest that set them.
Pointers == {"HTTPHEADER", "WRITEDATA", "HEADERDATA", "ERRORBUFFER"}

-------------------------------------------------------------------------------
\* libcurl: the last of HTTPGET, POST and NOBODY to be set decides, and a body is
\* sent by a POST only.

NewHandle ==
    [verb |-> "GET", url |-> Elsewhere, body |-> NoBody,
     pointers |-> [p \in Pointers |-> "unset"]]

Sent(opts) ==
    Request(opts.verb, opts.url, IF opts.verb = "POST" THEN opts.body ELSE NoBody)

-------------------------------------------------------------------------------
\* PerformRequest

\* Faulty: GET is taken to be what a handle does anyway.
VerbOfDefaultGet(request, before) ==
    IF request.method = "GET" THEN before.verb ELSE request.method

\* Each branch sets the option of its method.
VerbOf(request, before) == request.method

\* A POST without a body sends an empty object.
PostBody(request) == IF request.body = NoBody THEN EmptyObject ELSE request.body

BodyOf(request, before) ==
    IF request.method = "POST" THEN PostBody(request) ELSE before.body

\* Faulty: the callbacks' targets are set with the first request only.
PointedOnce(before) ==
    [p \in Pointers |-> IF before.pointers[p] = "unset" THEN "live" ELSE before.pointers[p]]

Pointed(before) == [p \in Pointers |-> "live"]

SetOptions(request) ==
    [verb     |-> VerbOf(request, options),
     url      |-> request.path,
     body     |-> BodyOf(request, options),
     pointers |-> Pointed(options)]

\* The frame is gone and the header list freed; the handle still points there.
AfterReturn(opts) == [opts EXCEPT !.pointers = [p \in Pointers |-> "dead"]]

\* XMLHttpRequest.send takes the body along unless the method is GET or HEAD.
SentByXhr(request) ==
    Request(request.method, request.path,
            IF request.method = "POST" THEN PostBody(request) ELSE NoBody)

Prepare(request) ==
    /\ client = "idle"
    /\ client' = "set"
    /\ wanted' = request
    /\ sent' = NoRequest
    /\ options' = IF transport = "curl" THEN SetOptions(request) ELSE options
    /\ UNCHANGED <<vars, setup, cleaned>>

Perform ==
    /\ client = "set"
    /\ sent' = IF transport = "curl" THEN Sent(options) ELSE SentByXhr(wanted)
    /\ options' = IF transport = "curl" THEN AfterReturn(options) ELSE options
    /\ UNCHANGED <<setup, wanted, earlier, cleaned>>

-------------------------------------------------------------------------------

HPInit ==
    /\ Init
    /\ transport \in {"curl", "xhr"}
    /\ kind \in {"list", "query", "changes"}
    /\ client = "new"
    /\ options = NewHandle
    /\ wanted = NoRequest
    /\ sent = NoRequest
    /\ earlier = 0
    /\ cleaned = 0

Construct ==
    /\ client = "new"
    /\ client' = "idle"
    /\ UNCHANGED <<vars, setup, options, wanted, sent, earlier, cleaned>>

\* curl_easy_init returns a null pointer.
ConstructorFails ==
    /\ client = "new"
    /\ transport = "curl"
    /\ client' = "void"
    /\ UNCHANGED <<vars, setup, options, wanted, sent, earlier, cleaned>>

\* Faulty: the destructor is trusted with the handle.
ConstructorThrowsLeaks ==
    /\ client = "new"
    /\ transport = "curl"
    /\ client' = "refused"
    /\ UNCHANGED <<vars, setup, options, wanted, sent, earlier, cleaned>>

\* A timeout that is too large, or that libcurl rejects.
ConstructorThrows ==
    /\ client = "new"
    /\ transport = "curl"
    /\ client' = "refused"
    /\ cleaned' = cleaned + 1
    /\ UNCHANGED <<vars, setup, options, wanted, sent, earlier>>

\* GetShare, QueryTableMetadata, QueryTableVersion, another table's query.
PrepareEarlier ==
    /\ pc = "request" /\ asked = <<>>
    /\ earlier < MaxEarlier
    /\ \E method \in {"GET", "HEAD", "POST"} :
          Prepare(Request(method, Elsewhere, IF method = "POST" THEN QueryBody ELSE NoBody))
    /\ earlier' = earlier + 1

PerformEarlier ==
    /\ wanted.path = Elsewhere
    /\ Perform
    /\ client' \in {"idle", "failed"}
    /\ UNCHANGED vars

\* The first request of a table query is a POST; links and listings are GETs.
PageRequest ==
    IF kind = "query" /\ asked = <<>>
    THEN Request("POST", current, QueryBody)
    ELSE Request("GET", current, NoBody)

PreparePage ==
    /\ pc = "request"
    /\ Prepare(PageRequest)
    /\ UNCHANGED earlier

PerformPage ==
    /\ wanted.path # Elsewhere
    /\ Perform
    /\ client' = "idle"
    /\ RequestPage

\* What the loop does between two requests does not touch the client.
BetweenRequests ==
    /\ client = "idle"
    /\ \/ ParsePage
       \/ RejectPage
       \/ LastPage
       \/ GuardRepeat
       \/ GuardCap
       \/ FollowPage
    /\ UNCHANGED <<setup, http>>

\* Faulty: the destructor of a client whose constructor threw.
DestroyAnyway ==
    /\ client \in {"failed", "refused"} \/ (client = "idle" /\ Done)
    /\ client' = "gone"
    /\ cleaned' = IF transport = "curl" THEN cleaned + 1 ELSE cleaned
    /\ UNCHANGED <<vars, setup, options, wanted, sent, earlier>>

\* The call returned or threw, and its client goes out of scope.
Destroy ==
    /\ client = "failed" \/ (client = "idle" /\ Done)
    /\ client' = "gone"
    /\ cleaned' = IF transport = "curl" THEN cleaned + 1 ELSE cleaned
    /\ UNCHANGED <<vars, setup, options, wanted, sent, earlier>>

AfterClient == client \in {"void", "refused", "gone"} /\ UNCHANGED hpVars

HPNext ==
    \/ Construct
    \/ ConstructorFails
    \/ ConstructorThrows
    \/ PrepareEarlier
    \/ PerformEarlier
    \/ PreparePage
    \/ PerformPage
    \/ BetweenRequests
    \/ Destroy
    \/ AfterClient

HPSpec == HPInit /\ [][HPNext]_hpVars

-------------------------------------------------------------------------------
\* Properties

Verbs    == {"GET", "HEAD", "POST"}
RequestBodies   == {NoBody, QueryBody, EmptyObject}
Requests == [method : Verbs, path : Pages \cup {Elsewhere}, body : RequestBodies]

HPTypeOK ==
    /\ transport \in {"curl", "xhr"}
    /\ kind \in {"list", "query", "changes"}
    /\ client \in {"new", "idle", "set", "failed", "void", "refused", "gone"}
    /\ options \in [verb : Verbs, url : Pages \cup {Elsewhere}, body : RequestBodies,
                    pointers : [Pointers -> {"unset", "live", "dead"}]]
    /\ wanted \in Requests \cup {NoRequest}
    /\ sent \in Requests \cup {NoRequest}
    /\ earlier \in 0..MaxEarlier
    /\ cleaned \in 0..1

\* Whatever was requested through the handle before, a request goes out as it was
\* asked for: with its own method, its own path, and a body only if it has one. Of
\* a paged call's requests only the first of a table query is a POST.
SentAsMeant ==
    sent # NoRequest =>
        /\ sent = wanted
        /\ sent.path # Elsewhere =>
              /\ sent.path = asked[Len(asked)]
              /\ sent.method = "POST" <=> kind = "query" /\ Len(asked) = 1
              /\ sent.method = "GET" <=> sent.body = NoBody

\* While a request is performed every pointer of the handle refers to the frame and
\* the header list of that request, and outside of requests none to a live one.
LiveBuffers ==
    transport = "curl" =>
        \A p \in Pointers : options.pointers[p] = "live" <=> client = "set"

\* The handle is closed once, when the client is gone or its constructor has thrown,
\* however its calls ended, and never before.
HandleCleanedOnce ==
    cleaned = IF transport = "curl" /\ client \in {"refused", "gone"} THEN 1 ELSE 0

===============================================================================
