\* An unfollowed 3xx answer is retried like a server error.
CONSTANTS
    r1 = r1
    r2 = r2
    NoHolder = NoHolder
    Requests <- MCRequests
    Buffer <- MCBuffer
    MaxTTL <- MCMaxTTL
    Lifetimes <- MCLifetimes
    MaxToken <- MCMaxToken
    HasRefreshFunction = TRUE
    Retries <- MCRetries
    Responses <- MCResponses3xx
    Calls <- MCCallsPlain
SPECIFICATION Spec
SYMMETRY MCSymmetry
INVARIANT
    OnlyTransientRetried
