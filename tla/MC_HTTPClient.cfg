\* Retry state machine, classification and result extraction: two
\* concurrent requests sharing one refreshable authenticator, each made
\* through a plain verb, a verb with a model_class, or download_file.
CONSTANTS
    r1 = r1
    r2 = r2
    NoHolder = NoHolder
    Requests <- MCRequests
    Buffer <- MCBuffer
    MaxTTL <- MCMaxTTL
    Lifetimes <- MCLifetimes
    MaxToken <- MCMaxToken
    HasRefreshFunction = TRUE
    Retries <- MCRetries
    Responses <- MCResponsesCalls
    Calls <- MCCalls
SPECIFICATION Spec
SYMMETRY MCSymmetry
INVARIANTS
    TypeOK
    OnlyTransientRetried
    ResultFromLastOutcome
PROPERTY
    AuthImplemented
