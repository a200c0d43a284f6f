\* Traffic may precede the first configuration: the lazily installed
\* defaults race plugin.register.
SPECIFICATION Spec
CONSTANTS
    Models <- MCModels
    Patterns <- MCPatterns
    Scopes <- MCScopes
    Hits <- MCHits
    IdBefore <- MCIdBefore
    Credentials <- MCCredentials
    Digest <- MCDigest
    NoScope = NoScope
    NoSlug = NoSlug
    NoTable = NoTable
    NoCredential = NoCredential
    NoConfig = NoConfig
    NoSnapshot = NoSnapshot
    Requests = {r1}
    Calls <- RaceCalls
    Payloads <- RacePayloads
    RegisterFirst = FALSE
INVARIANT AcceptedConfigInForce
