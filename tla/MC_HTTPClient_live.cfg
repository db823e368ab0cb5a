\* Every request finishes, under the event loop's fairness.
CONSTANTS
    r1 = r1
    r2 = r2
    NoHolder = NoHolder
    Requests <- MCRequests
    Buffer <- MCBuffer
    MaxTTL <- MCMaxTTL
    Lifetimes <- MCLifetimes
    MaxToken <- MCMaxToken
    HasRefreshFunction = TRUE
    Retries <- MCRetries
    Responses <- MCResponsesLive
    Calls <- MCCallsPlain
SPECIFICATION FairSpec
PROPERTIES
    AllRequestsComplete
