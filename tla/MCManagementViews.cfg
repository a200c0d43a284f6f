\* Panel requests interleaved with intercepted responses and reconfigures.
\* A status request before any configuration ends the process: no deadlock check.
SPECIFICATION ManagedSpec
CONSTANTS
    Models <- MCModels
    Patterns <- MCPatterns
    Scopes <- MCScopes
    Hits <- MCHits
    IdBefore <- MCIdBefore
    Credentials <- MCCredentials
    Digest <- MCDigest
    NoScope = NoScope
    NoSlug = NoSlug
    NoTable = NoTable
    NoCredential = NoCredential
    NoConfig = NoConfig
    NoSnapshot = NoSnapshot
    NoPort = NoPort
    NoList = NoList
    NoPolicy = NoPolicy
    Requests = {r1}
    Calls <- PanelCalls
    Payloads <- PanelPayloads
    RegisterFirst = FALSE
    Queries <- Panel
CHECK_DEADLOCK FALSE
INVARIANTS ManagedTypeOK PreviewShowsTheServedListing StatusPortsRestorable
