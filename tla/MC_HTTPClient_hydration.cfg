\* A model_class that rejects the data of a successful response.
CONSTANTS
    r1 = r1
    r2 = r2
    NoHolder = NoHolder
    Requests <- MCRequests
    Buffer <- MCBuffer
    MaxTTL <- MCMaxTTL
    Lifetimes <- MCLifetimes
    MaxToken <- MCMaxToken
    HasRefreshFunction = TRUE
    Retries <- MCRetries
    Responses <- MCResponsesHydration
    Calls <- MCCallsModel
SPECIFICATION Spec
SYMMETRY MCSymmetry
INVARIANT
    ResultFromLastOutcome
