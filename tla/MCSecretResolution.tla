-------------------------- MODULE MCSecretResolution --------------------------
(***************************************************************************)
(* Secrets and calls for SecretResolution: two hosts, nested scopes, the   *)
(* same name in two storages, an unscoped secret, another secret type, an  *)
(* ENDPOINT that is only a scheme or nothing, and requested endpoints that *)
(* equal, extend, look like or climb out of an ENDPOINT, or have a query;  *)
(* the paths of a listing, a query and a page of each.                     *)
(***************************************************************************)
EXTENDS SecretResolution

Url(host, path) == <<Scheme, "/", "/", host>> \o path
Ds     == <<"/", "ds">>
DsSub  == <<"/", "ds", "/", "sub">>
DsX    == <<"/", "ds", "x">>
DsUp   == <<"/", "ds", "/", "%2e", ".", "/", "ops">>
DsSelf == <<"/", "ds", "/", ".">>

Secret(name, storage, scope, endpoint) ==
    [name |-> name, storage |-> storage, type |-> DeltaSharing, scope |-> scope,
     endpoint |-> endpoint, token |-> TRUE]

MCCandidates == {
    Secret(1, 10, {Url("a", Ds)}, Url("a", Ds)),
    Secret(1, 20, {}, Url("b", Ds \o <<"/">>)),
    Secret(2, 10, {Url("a", <<"/">>)}, Url("a", <<"/">>)),
    Secret(3, 10, {}, Url("a", DsSub)),
    Secret(4, 10, {Url("a", <<>>)}, <<Scheme, "/", "/">>),
    Secret(5, 20, {Url("a", DsX)}, Url("a", Ds)),
    [Secret(6, 10, {}, Url("a", Ds)) EXCEPT !.type = "http"],
    [Secret(7, 20, {Url("b", Ds)}, Url("b", Ds)) EXCEPT !.token = FALSE],
    Secret(8, 10, {Url("b", Ds), Url("a", DsSub)}, <<>>) }

MCRequests ==
    {[secret |-> n, endpoint |-> u] :
        n \in {NoName, 1, 4, 6},
        u \in {<<>>, Url("a", Ds), Url("a", DsSub \o <<"/">>), Url("a", DsX),
               Url("a", DsSub \o <<"?", "v">>), Url("a", DsUp), Url("a", DsSelf), Url("b", Ds)}}

Shares == <<"/", "shares">>

MCPaths == {
    Shares,
    Shares \o <<"?", "pageToken", "/", ".", ".">>,
    Shares \o <<"/", "north", "/", "schemas", "/", "s", "/", "tables", "/", "t", "/", "query">>,
    \* links: one that is a path, and one that is not
    Shares \o <<"/", "next", "?", "id">>,
    Url("b", Shares) }

===============================================================================
