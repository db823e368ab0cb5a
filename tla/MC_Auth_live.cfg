\* Liveness: every refresh() returns, two coroutines, no symmetry.
CONSTANTS
    c1 = c1
    c2 = c2
    c3 = c3
    NoHolder = NoHolder
    Coro <- MCCoroPair
    Buffer <- MCBuffer
    MaxTTL <- MCMaxTTL
    Lifetimes <- MCLifetimes
    MaxToken <- MCMaxToken
    HasRefreshFunction = TRUE
SPECIFICATION FairSpec
PROPERTIES
    RefreshTerminates
