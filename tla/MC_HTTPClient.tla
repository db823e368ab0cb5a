---------------------------- MODULE MC_HTTPClient ----------------------------
(* Model-checking instance of HTTPClient: two concurrent requests, three    *)
(* attempts each, and a transport answering with one response of each      *)
(* class the design names.                                                  *)
EXTENDS HTTPClient, TLC

CONSTANTS r1, r2

MCRequests == {r1, r2}
MCBuffer == 1
MCMaxTTL == 3
MCLifetimes == {1, 3}
MCMaxToken == 2
MCRetries == 2

Http(s, b) == [kind |-> "http", status |-> s, body |-> b]
Failure(k) == [kind |-> k, status |-> NoStatus, body |-> "none"]

\* The classes of the design: success (envelope ok or failed), client
\* error, rate limit, server error, timeout, network failure; and a
\* transport error that is neither a timeout nor a network error.
MCResponses ==
    {Http(200, "env_ok"), Http(200, "env_fail"), Http(404, "text"),
     Http(429, "plain"), Http(503, "coded"), Failure("timeout"),
     Failure("protocol")}

\* The same, plus a 3xx answer the transport did not follow.
MCResponses3xx == MCResponses \cup {Http(304, "text")}

\* A 5xx error body without a "code" member.
MCResponses5xx == {Http(500, "text"), Http(200, "env_ok")}

\* One response per way the loop ends an attempt, for the liveness run.
MCResponsesLive ==
    {Http(200, "env_ok"), Http(404, "text"), Http(503, "coded"), Failure("timeout")}

\* Successful answers of every body shape, for every kind of call, with a
\* client error, the rate limit (the one 4xx that is retried), a timeout and
\* a transport error outside the taxonomy.
MCResponsesCalls ==
    {Http(200, "env_ok"), Http(200, "env_null"), Http(200, "text"),
     Http(200, "env_fail"), Http(200, "plain"), Http(404, "text"),
     Http(429, "plain"), Failure("timeout"), Failure("protocol")}

\* A success envelope whose data the requested model rejects.
MCResponsesHydration == {Http(200, "env_bad"), Http(200, "env_ok")}

MCCalls == {"plain", "model", "download"}
MCCallsPlain == {"plain"}
MCCallsModel == {"model"}

MCSymmetry == Permutations(MCRequests)
=============================================================================
