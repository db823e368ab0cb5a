\* A transport error other than timeout / network escapes the engine.
CONSTANTS
    r1 = r1
    r2 = r2
    NoHolder = NoHolder
    Requests <- MCRequests
    Buffer <- MCBuffer
    MaxTTL <- MCMaxTTL
    Lifetimes <- MCLifetimes
    MaxToken <- MCMaxToken
    HasRefreshFunction = TRUE
    Retries <- MCRetries
    Responses <- MCResponses
    Calls <- MCCallsPlain
SPECIFICATION Spec
SYMMETRY MCSymmetry
INVARIANT
    OnlyTaxonomyErrors
