--------------------------- MODULE SecretResolution ---------------------------
(***************************************************************************)
(* Which delta_sharing secret a call uses, and the endpoint its requests   *)
(* go to. Users create and drop secrets between calls; every call resolves *)
(* again when it is bound.                                                 *)
(*                                                                         *)
(* A URL is a sequence of tokens: the scheme with its colon, "/", host and *)
(* path words, "." and its percent-encoding "%2e", "?" and "#". Comparing  *)
(* token sequences is comparing the strings, as long as no token is the    *)
(* beginning of another; "ds" followed by "x" is the longer word dsx.      *)
(*                                                                         *)
(* DuckDB's secret manager is external. It ranks the secrets of a type     *)
(* that match a path: the longest matching SCOPE prefix first (no SCOPE    *)
(* matches everything, at length 0), then memory before local_file, then   *)
(* by name; and it refuses a name that two storages hold.                  *)
(***************************************************************************)
EXTENDS Integers, Sequences, FiniteSets, SequencesExt, FiniteSetsExt

CONSTANTS
    Candidates,     \* the secrets users may create
    Requests,       \* the calls: [secret, endpoint], NoName and <<>> if absent
    Paths           \* what the requests of a call add to its endpoint: the client's own
                    \* paths, with names and queries in them, and the links of answers

CONSTANTS NoName, Scheme

DeltaSharing == "delta_sharing"

IsUrl(url) == url \in Seq(ToSet(url))

\* A secret is [name, storage, type, scope, endpoint, token]: name and storage
\* are numbers in rank order, token FALSE when empty, scope a set of URLs; the
\* empty one, which matches everything, is written as no scope.
ASSUME SecretResolutionAssumption ==
    /\ Scheme # "/"
    /\ \A s \in Candidates :
          /\ s.name \in Nat /\ s.storage \in {10, 20}
          /\ IsUrl(s.endpoint)
          /\ \A q \in s.scope : IsUrl(q) /\ q # <<>>
    /\ \A r \in Requests : IsUrl(r.endpoint)
    /\ \A p \in Paths : IsUrl(p)

VARIABLES
    secrets,        \* the secrets of the session
    call,           \* the last call
    outcome         \* its resolution: a set with at most one choice

vars == <<secrets, call, outcome>>

-------------------------------------------------------------------------------
\* DuckDB's secret manager

IsDeltaSharing(s) == s.type = DeltaSharing
Unscoped(s)       == s.scope = {}

\* The score of s for a path: -1 is no match.
Score(s, path) ==
    IF Unscoped(s) THEN 0
    ELSE Max({-1} \cup {Len(p) : p \in {q \in s.scope : IsPrefix(q, path)}})

RankedBefore(s, t, path) ==
    \/ Score(s, path) > Score(t, path)
    \/ /\ Score(s, path) = Score(t, path)
       /\ \/ s.storage < t.storage
          \/ s.storage = t.storage /\ s.name < t.name

LookupSecret(S, path) ==
    LET matching == {s \in S : IsDeltaSharing(s) /\ Score(s, path) >= 0}
    IN {s \in matching : \A t \in matching \ {s} : RankedBefore(s, t, path)}

-------------------------------------------------------------------------------
\* The guard on the endpoint

WithoutTrailingSlashes(url) ==
    SubSeq(url, 1, Max({0} \cup {i \in DOMAIN url : url[i] # "/"}))

\* The scheme, two slashes, and at least one token that is no slash.
HasSchemeAndHost(base) ==
    /\ Len(base) > 3
    /\ SubSeq(base, 1, 3) = <<Scheme, "/", "/">>
    /\ base[4] # "/"

\* The words between the slashes of a URL.
Split(segs, tok) ==
    IF tok = "/" THEN Append(segs, <<>>)
    ELSE Append(Front(segs), Append(Last(segs), tok))

Segments(url) ==
    LET segs[i \in 0..Len(url)] ==
            IF i = 0 THEN <<<<>>>> ELSE Split(segs[i - 1], url[i])
    IN  segs[Len(url)]

IsDot(segment)        == Len(segment) = 1 /\ ToSet(segment) \subseteq {".", "%2e"}
IsDotDot(segment)     == Len(segment) = 2 /\ ToSet(segment) \subseteq {".", "%2e"}
IsDotSegment(segment) == IsDot(segment) \/ IsDotDot(segment)

\* Faulty: the path below the ENDPOINT is not looked at.
EndpointCoversPrefix(secret_endpoint, requested) ==
    LET base   == WithoutTrailingSlashes(secret_endpoint)
        target == WithoutTrailingSlashes(requested)
    IN /\ base # <<>> /\ HasSchemeAndHost(base)
       /\ target = base \/ IsPrefix(Append(base, "/"), target)

EndpointCovers(secret_endpoint, requested) ==
    LET base   == WithoutTrailingSlashes(secret_endpoint)
        target == WithoutTrailingSlashes(requested)
    IN /\ base # <<>> /\ HasSchemeAndHost(base)
       /\ \/ target = base
          \/ /\ IsPrefix(Append(base, "/"), target)
             /\ \A seg \in ToSet(Segments(SubSeq(target, Len(base) + 2, Len(target)))) :
                   ~IsDotSegment(seg)

-------------------------------------------------------------------------------
\* The three rules; a rule that throws chooses nothing

\* Faulty: without parameters any secret will do, whatever its SCOPE.
ResolveAnyDefault(S) ==
    LET all == {s \in S : IsDeltaSharing(s)}
    IN {s \in all : \A t \in all \ {s} : s.name < t.name \/ (s.name = t.name /\ s.storage < t.storage)}

ResolveDefault(S) ==
    LET all == {s \in S : IsDeltaSharing(s)}
        unscoped == LookupSecret(S, <<>>)
    IN IF unscoped # {} THEN unscoped
       ELSE IF Cardinality(all) = 1 THEN all ELSE {}

\* Faulty: a name that two storages hold is not refused.
ResolveByNameAnywhere(S, name) == {s \in S : s.name = name /\ IsDeltaSharing(s)}

ResolveByName(S, name) ==
    LET named == {s \in S : s.name = name}
    IN IF Cardinality(named) = 1 THEN {s \in named : IsDeltaSharing(s)} ELSE {}

\* Faulty: secrets that do not cover the endpoint are passed over.
ResolveByCovering(S, endpoint) ==
    LookupSecret({s \in S : EndpointCovers(s.endpoint, endpoint)}, endpoint)

ResolveByEndpoint(S, endpoint) == LookupSecret(S, endpoint)

\* The profile drops one trailing slash of the endpoint.
ProfileEndpoint(url) == IF url # <<>> /\ Last(url) = "/" THEN Front(url) ELSE url

\* A path, or a link as it stands, goes behind the endpoint of the profile.
BuildUrl(endpoint, path) == endpoint \o path

\* ResolveDeltaSharingSecret and the token check of FromConfig: the secret used
\* and the endpoint requests go to, or nothing when the call throws.
Resolve(S, request) ==
    LET chosen == IF request.secret # NoName THEN ResolveByName(S, request.secret)
                  ELSE IF request.endpoint # <<>>
                       THEN ResolveByEndpoint(S, request.endpoint)
                       ELSE ResolveDefault(S)
        usable == {s \in chosen :
                     /\ s.endpoint # <<>>
                     /\ request.endpoint # <<>> => EndpointCovers(s.endpoint, request.endpoint)
                     /\ s.token}
    IN {[secret   |-> s,
         endpoint |-> ProfileEndpoint(IF request.endpoint = <<>> THEN s.endpoint
                                      ELSE request.endpoint)] : s \in usable}

-------------------------------------------------------------------------------

NoCall == [secret |-> NoName, endpoint |-> <<>>]

Init ==
    /\ secrets = {}
    /\ call = NoCall
    /\ outcome = {}

\* CREATE SECRET, from its options or from the environment as it is then: it takes an
\* endpoint and a token, either of which may be empty. A storage holds one secret of a
\* name.
CreateSecret(s) ==
    /\ \A t \in secrets : t.name # s.name \/ t.storage # s.storage
    /\ secrets' = secrets \cup {s}
    /\ UNCHANGED <<call, outcome>>

DropSecret(s) ==
    /\ s \in secrets
    /\ secrets' = secrets \ {s}
    /\ UNCHANGED <<call, outcome>>

\* A delta_share_* call is bound.
Call(request) ==
    /\ call' = request
    /\ outcome' = Resolve(secrets, request)
    /\ UNCHANGED secrets

Next ==
    \/ \E s \in Candidates : CreateSecret(s) \/ DropSecret(s)
    \/ \E r \in Requests : Call(r)

Spec == Init /\ [][Next]_vars

-------------------------------------------------------------------------------
\* Properties

TypeOK ==
    /\ secrets \subseteq Candidates
    /\ call \in Requests \cup {NoCall}
    /\ Cardinality(outcome) <= 1
    /\ \A o \in outcome : o.secret \in Candidates

\* What libcurl requests: the path, which is what follows the scheme and the host, ends
\* at the first "?" or "#", and dot segments are taken out of it.
Marks == {"?", "#"}

BeforeQuery(url) ==
    SubSeq(url, 1, Max({n \in 0..Len(url) : \A i \in 1..n : url[i] \notin Marks}))

RemoveDots(path, seg) ==
    IF Len(path) < 3 THEN Append(path, seg)
    ELSE IF IsDot(seg) THEN path
    ELSE IF IsDotDot(seg) THEN (IF Len(path) > 3 THEN Front(path) ELSE path)
    ELSE Append(path, seg)

WithoutDots(segs) ==
    LET path[i \in 0..Len(segs)] ==
            IF i = 0 THEN <<>> ELSE RemoveDots(path[i - 1], segs[i])
    IN  path[Len(segs)]

Requested(url) == WithoutDots(Segments(BeforeQuery(url)))

\* An endpoint that is all path: it ends in no query, behind which paths would go.
IsPlain(endpoint) == ToSet(endpoint) \cap Marks = {}

\* A path as the client writes them: it begins with a slash, and its names, which go
\* into it as they are, make no dot segments. A link may be anything.
IsWithin(path) ==
    /\ path # <<>> /\ path[1] = "/"
    /\ \A seg \in ToSet(Segments(BeforeQuery(path))) : ~IsDotSegment(seg)

\* A secret is used only for requests under its own ENDPOINT. Whatever endpoint the
\* call names, with whatever slashes and dot segments: the ENDPOINT has a host, and the
\* ENDPOINT, with its dot segments resolved, is a prefix, segment by segment, of what
\* is requested when a path is added. The endpoint that is added to must be a plain
\* one: EndpointCovers looks neither for "?" nor for "#".
RequestsUnderOwnEndpoint ==
    \A o \in outcome, path \in Paths :
        LET own == o.secret.endpoint IN
        IsPlain(o.endpoint) /\ IsWithin(path) =>
            /\ call.endpoint # <<>> => Len(Requested(WithoutTrailingSlashes(own))) >= 3
            /\ IsPrefix(Requested(WithoutTrailingSlashes(own)),
                        Requested(BuildUrl(o.endpoint, path)))

\* Creating a scoped secret never makes the calls without parameters use another
\* secret than before: they go on, or they fail.
NoSilentSwitch ==
    [][\A s \in secrets' \ secrets :
          ~Unscoped(s) /\ Resolve(secrets, NoCall) # {} =>
             Resolve(secrets', NoCall) \subseteq Resolve(secrets, NoCall)]_vars

\* A call by endpoint uses no secret while a secret with a longer matching SCOPE
\* exists: it fails when the closest secret does not cover the endpoint, and does
\* not fall back to a wider one.
ClosestScopeOrError ==
    \A r \in Requests, s \in secrets :
        r.secret = NoName /\ r.endpoint # <<>> /\ IsDeltaSharing(s) =>
            \A o \in Resolve(secrets, r) : Score(o.secret, r.endpoint) >= Score(s, r.endpoint)

===============================================================================
