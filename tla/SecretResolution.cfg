\* Every set of secrets out of nine, every call.
SPECIFICATION Spec
CONSTANTS
    Candidates <- MCCandidates
    Requests <- MCRequests
    Paths <- MCPaths
    NoName = 0
    Scheme = "https:"
INVARIANTS
    TypeOK
    RequestsUnderOwnEndpoint
    ClosestScopeOrError
PROPERTIES
    NoSilentSwitch
