\* A 5xx body without a code member yields a ServerError with code empty.
CONSTANTS
    r1 = r1
    r2 = r2
    NoHolder = NoHolder
    Requests <- MCRequests
    Buffer <- MCBuffer
    MaxTTL <- MCMaxTTL
    Lifetimes <- MCLifetimes
    MaxToken <- MCMaxToken
    HasRefreshFunction = TRUE
    Retries <- MCRetries
    Responses <- MCResponses5xx
    Calls <- MCCallsPlain
SPECIFICATION Spec
SYMMETRY MCSymmetry
INVARIANT
    FixedErrorCodes
