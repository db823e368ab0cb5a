\* The line-93 guard is checked outside the lock.
CONSTANTS
    c1 = c1
    c2 = c2
    c3 = c3
    NoHolder = NoHolder
    Coro <- MCCoro
    Buffer <- MCBuffer
    MaxTTL <- MCMaxTTL
    Lifetimes <- MCLifetimes
    MaxToken <- MCMaxToken
    HasRefreshFunction = TRUE
SPECIFICATION Spec
INVARIANT
    NeverRefreshWithoutToken
