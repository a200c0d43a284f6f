\* Refuted: an unscoped preview arranges what the last caller was served.
SPECIFICATION ManagedSpec
CONSTANTS
    Models <- MCModels
    Patterns <- MCPatterns
    Scopes <- MCScopes
    Hits <- MCHits
    IdBefore <- MCIdBefore
    Credentials <- MCCredentials
    Digest <- MCDigest
    NoScope = NoScope
    NoSlug = NoSlug
    NoTable = NoTable
    NoCredential = NoCredential
    NoConfig = NoConfig
    NoSnapshot = NoSnapshot
    NoPort = NoPort
    NoList = NoList
    NoPolicy = NoPolicy
    Requests = {r1}
    Calls <- PanelCalls
    Payloads <- PanelPayloads
    RegisterFirst = FALSE
    Queries <- Unfiltered
CHECK_DEADLOCK FALSE
INVARIANT UnscopedPreviewShowsAll
