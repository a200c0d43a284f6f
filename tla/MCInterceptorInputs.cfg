\* One call at a time against reconfigures, over every kind of input; the host
\* registers before it sends traffic.
SPECIFICATION FairSpec
CONSTANTS
    Models <- MCModels
    Patterns <- MCPatterns
    Scopes <- MCScopes
    Hits <- MCHits
    IdBefore <- MCIdBefore
    Credentials <- MCCredentials
    Digest <- MCDigest
    NoScope = NoScope
    NoSlug = NoSlug
    NoTable = NoTable
    NoCredential = NoCredential
    NoConfig = NoConfig
    NoSnapshot = NoSnapshot
    Requests = {r1}
    Calls <- AllCalls
    Payloads <- AllPayloads
    RegisterFirst = TRUE
INVARIANTS ServedIsVisible ServedIsSorted AcceptedConfigInForce
PROPERTY CallsAreAnswered
