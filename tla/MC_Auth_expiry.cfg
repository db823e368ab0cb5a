\* A successful refresh need not make the credential valid.
CONSTANTS
    c1 = c1
    c2 = c2
    c3 = c3
    NoHolder = NoHolder
    Coro <- MCCoro
    Buffer <- MCBuffer
    MaxTTL <- MCMaxTTL
    Lifetimes <- MCLifetimes
    MaxToken <- MCMaxToken
    HasRefreshFunction = TRUE
SPECIFICATION Spec
PROPERTY
    RefreshClearsExpiry
