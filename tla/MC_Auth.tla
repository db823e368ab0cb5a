------------------------------- MODULE MC_Auth -------------------------------
(* Model-checking instance of Auth: coroutines as model values, a buffer of *)
(* one time unit, refresh results whose lifetime is inside (1) or beyond    *)
(* (3) the buffer.                                                          *)
EXTENDS Auth, TLC

CONSTANTS c1, c2, c3

MCCoro == {c1, c2, c3}
MCCoroPair == {c1, c2}
MCBuffer == 1
MCMaxTTL == 3
MCLifetimes == {1, 3}
MCMaxToken == 3

MCSymmetry == Permutations(MCCoro)
=============================================================================
