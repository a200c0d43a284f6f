\* Two calls and reconfigures interleaved; traffic may precede the first
\* configuration.
SPECIFICATION Spec
CONSTANTS
    Models <- MCModels
    Patterns <- MCPatterns
    Scopes <- MCScopes
    Hits <- MCHits
    IdBefore <- MCIdBefore
    Credentials <- MCCredentials
    Digest <- MCDigest
    NoScope = NoScope
    NoSlug = NoSlug
    NoTable = NoTable
    NoCredential = NoCredential
    NoConfig = NoConfig
    NoSnapshot = NoSnapshot
    Requests = {r1, r2}
    Calls <- RaceCalls
    Payloads <- RacePayloads
    RegisterFirst = FALSE
INVARIANTS TypeOK ServedIsVisible ServedIsSorted KnownFactsAreServed ServedPortsAreRestorable
PROPERTY KeepsPromise
SYMMETRY Interchangeable
