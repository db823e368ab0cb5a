----------------------------- MODULE HTTPClient -----------------------------
(***************************************************************************)
(* The transport engine, HTTPClient (src/sdk/python/gotrs_sdk/http_client.py),*)
(* composed with the refreshable authenticator it shares between           *)
(* concurrent requests (module Auth).  Each request is one coroutine of    *)
(* the event loop running a verb (get, post, put, patch, delete,           *)
(* upload_file): _build_url, _prepare_headers (which may await             *)
(* auth.refresh()), _make_request_with_retries, _extract_data.  URLs and   *)
(* payloads are data the properties do not tell apart and are left out;   *)
(* a request's headers are abstracted to the version of the access token  *)
(* they carry.  The transport answers each attempt with any response of   *)
(* the constant set Responses.                                             *)
(***************************************************************************)
EXTENDS Integers, Sequences, Errors

CONSTANTS
    Requests,           \* concurrent requests issued on one client
    NoHolder, Buffer, MaxTTL, Lifetimes, MaxToken, HasRefreshFunction,
    Retries,            \* self.retries
    Responses,          \* what the transport may answer to an attempt
    Calls               \* what a verb call may ask for: see call below

ASSUME HTTPClientAssumption ==
    /\ Retries \in Nat
    /\ \A resp \in Responses :
          resp.kind \in {"http", "timeout", "network", "protocol"}
    /\ Calls \subseteq {"plain", "model", "download"}

VARIABLES
    token, refresh_token, ttl, holder, pc,   \* the authenticator, and pc
    attempt,    \* loop variable of _make_request_with_retries
    hdr,        \* token version in the request's headers
    wait,       \* time left of the backoff asyncio.sleep
    outcomes,   \* history: the responses of the attempts made so far
    result,     \* what the verb returned or raised
    call        \* the verb called: "plain" (no model_class), "model"
                \* (a model_class given) or "download" (download_file)

A == INSTANCE Auth WITH Coro <- Requests

\* The authenticator's constants, with the requests as its coroutines.
ASSUME ClientAuthAssumption == A!AuthAssumption

authVars == <<token, refresh_token, ttl, holder>>
reqVars == <<attempt, hdr, wait, outcomes, result, call>>
vars == <<token, refresh_token, ttl, holder, pc, attempt, hdr, wait, outcomes, result, call>>

NoHeader == -1
NoResult == [kind |-> "none", status |-> NoStatus, code |-> NoCode]

\* A value returned to the caller: response.text, the envelope's data, or
\* the whole parsed body.
Value(what) == [kind |-> what, status |-> NoStatus, code |-> NoCode]

ValueKinds == {"text", "data", "body", "null", "model", "bytes"}

\* An exception that is not a GotrsError, raised through the client.
RawException == [kind |-> "RawException", status |-> NoStatus, code |-> NoCode]

\* response.is_success
IsSuccess(resp) == resp.kind = "http" /\ 200 <= resp.status /\ resp.status < 300

\* Mutant: the client errors written out as a list that misses 404.
IsClientErrorListed(resp) ==
    resp.kind = "http" /\ resp.status \in {400, 401, 403}

\* Line 161: a 4xx other than 429 is classified and raised at once.
IsClientError(resp) ==
    resp.kind = "http" /\ 400 <= resp.status /\ resp.status < 500 /\ resp.status # 429

\* What the loop retries: any other response, a timeout, a network error.
IsRetried(resp) ==
    \/ resp.kind \in {"timeout", "network"}
    \/ resp.kind = "http" /\ ~IsSuccess(resp) /\ ~IsClientError(resp)

\* Mutant: the loop falls through to the generic error of line 196.
GiveUpErrorGeneric(resp) ==
    IF resp.kind = "http" THEN HandleError(resp) ELSE Error("GotrsError", NoStatus, NoCode)

\* The exception raised once a retried failure is the last attempt's.
GiveUpError(resp) ==
    CASE resp.kind = "timeout" -> Error("TimeoutError", NoStatus, NoCode)
      [] resp.kind = "network" -> Error("NetworkError", NoStatus, NoCode)
      [] OTHER                 -> HandleError(resp)

\* pydantic's ValidationError, raised by model_validate: not a GotrsError.
RawValidationError == [kind |-> "PydanticValidationError", status |-> NoStatus, code |-> NoCode]

(***************************************************************************)
(* _extract_data: raw text when the body is not JSON, an error for an     *)
(* envelope with success false, else the data member of an envelope (the   *)
(* whole body when there is none, None when it is null) or the parsed      *)
(* body.  With a model_class, a value that is not None is validated        *)
(* (lines 216-220); a body the model rejects ("env_bad") raises.          *)
(***************************************************************************)
ExtractData(resp, hydrate) ==
    IF resp.body = "text" THEN Value("text")
    ELSE IF resp.body = "env_fail" THEN Error("GotrsError", resp.status, NoCode)
    ELSE IF resp.body = "env_null" THEN Value("null")
    ELSE IF hydrate THEN IF resp.body = "env_bad" THEN RawValidationError ELSE Value("model")
    ELSE IF resp.body \in {"env_ok", "env_bad"} THEN Value("data")
    ELSE Value("body")

\* Mutant: download_file shares the verbs' return _extract_data(response).
DeliverExtracted(r, resp) == ExtractData(resp, call[r] = "model")

\* What the verb returns for a successful response: download_file returns
\* response.content (lines 352-359); the others return _extract_data.
Deliver(r, resp) ==
    IF call[r] = "download" THEN Value("bytes") ELSE ExtractData(resp, call[r] = "model")

\* Mutant: the request goes on without awaiting auth.refresh() (line 77).
ReadyNoAwait == {"send", "refreshed", "refresh"}

\* Where a request may send an attempt: headers are ready (line 233).
Ready == {"send", "refreshed"}

Finish(r, res) ==
    /\ pc' = [pc EXCEPT ![r] = "done"]
    /\ result' = [result EXCEPT ![r] = res]

(***************************************************************************)
(* A verb is called: _build_url, then _prepare_headers line 76.  An        *)
(* unexpired credential is put in the headers at once (line 79).           *)
(***************************************************************************)
StartFresh(r) ==
    /\ pc[r] = "idle"
    /\ ~A!IsExpired
    /\ hdr' = [hdr EXCEPT ![r] = token]
    /\ pc' = [pc EXCEPT ![r] = "send"]
    /\ UNCHANGED <<authVars, attempt, wait, outcomes, result, call>>

\* Line 77: an expired credential makes the request await auth.refresh().
StartExpired(r) ==
    /\ pc[r] = "idle"
    /\ A!IsExpired
    /\ pc' = [pc EXCEPT ![r] = "refresh"]
    /\ UNCHANGED <<authVars, reqVars>>

(***************************************************************************)
(* A step of auth.refresh() for request r.  When refresh() returns, the   *)
(* request reads the headers in the same step (line 79): nothing awaits   *)
(* in between.                                                             *)
(***************************************************************************)
Refresh(r) ==
    /\ A!RefreshStep(r)
    /\ hdr' = IF pc'[r] = "refreshed" THEN [hdr EXCEPT ![r] = token'] ELSE hdr
    /\ UNCHANGED <<attempt, wait, outcomes, result, call>>

\* refresh() raised: the AuthenticationError leaves the verb, no attempt.
AuthFailed(r) ==
    /\ pc[r] = "auth_error"
    /\ Finish(r, Error("AuthenticationError", NoStatus, NoCode))
    /\ UNCHANGED <<authVars, attempt, hdr, wait, outcomes, call>>

(***************************************************************************)
(* One iteration of the loop of _make_request_with_retries (lines         *)
(* 151-190): the request is awaited and its response recorded.            *)
(***************************************************************************)
AttemptWith(r, resp) ==
    /\ pc[r] \in Ready
    /\ attempt[r] <= Retries
    /\ outcomes' = [outcomes EXCEPT ![r] = Append(@, resp)]

\* Lines 157-158 and 236: success; the verb returns _extract_data.
AttemptSucceeds(r) ==
    \E resp \in Responses :
        /\ AttemptWith(r, resp)
        /\ IsSuccess(resp)
        /\ Finish(r, Deliver(r, resp))
        /\ UNCHANGED <<authVars, attempt, hdr, wait, call>>

\* Lines 161-162: a client error is raised without a retry.
AttemptClientError(r) ==
    \E resp \in Responses :
        /\ AttemptWith(r, resp)
        /\ IsClientError(resp)
        /\ Finish(r, HandleError(resp))
        /\ UNCHANGED <<authVars, attempt, hdr, wait, call>>

\* Mutant: off by one, retrying while attempt <= retries.
AttemptRetryOffByOne(r) ==
    \E resp \in Responses :
        /\ AttemptWith(r, resp)
        /\ IsRetried(resp)
        /\ attempt[r] <= Retries
        /\ wait' = [wait EXCEPT ![r] = 2 ^ attempt[r]]
        /\ attempt' = [attempt EXCEPT ![r] = @ + 1]
        /\ pc' = [pc EXCEPT ![r] = "sleep"]
        /\ UNCHANGED <<authVars, hdr, result, call>>

\* Lines 165-170, 177-182, 185-190: attempts remain; sleep 2^attempt.
AttemptRetry(r) ==
    \E resp \in Responses :
        /\ AttemptWith(r, resp)
        /\ IsRetried(resp)
        /\ attempt[r] < Retries
        /\ wait' = [wait EXCEPT ![r] = 2 ^ attempt[r]]
        /\ attempt' = [attempt EXCEPT ![r] = @ + 1]
        /\ pc' = [pc EXCEPT ![r] = "sleep"]
        /\ UNCHANGED <<authVars, hdr, result, call>>

(***************************************************************************)
(* Lines 173, 193-194: the last attempt failed; its response is classified *)
(* or its TimeoutError / NetworkError, kept in last_exception, is raised.  *)
(***************************************************************************)
AttemptGiveUp(r) ==
    \E resp \in Responses :
        /\ AttemptWith(r, resp)
        /\ IsRetried(resp)
        /\ attempt[r] = Retries
        /\ Finish(r, GiveUpError(resp))
        /\ UNCHANGED <<authVars, attempt, hdr, wait, call>>

\* Lines 153-155: any other httpx exception is not caught by the loop.
AttemptRaw(r) ==
    \E resp \in Responses :
        /\ AttemptWith(r, resp)
        /\ resp.kind = "protocol"
        /\ Finish(r, RawException)
        /\ UNCHANGED <<authVars, attempt, hdr, wait, call>>

\* asyncio.sleep(delay) has elapsed; the loop continues (line 170).
Wake(r) ==
    /\ pc[r] = "sleep"
    /\ wait[r] = 0
    /\ pc' = [pc EXCEPT ![r] = "send"]
    /\ UNCHANGED <<authVars, reqVars>>

\* One time unit passes: credentials age, backoff sleeps run down.
Tick ==
    /\ A!AgeCredential
    /\ wait' = [r \in Requests |-> IF wait[r] > 0 THEN wait[r] - 1 ELSE 0]
    /\ UNCHANGED <<token, refresh_token, holder, pc, attempt, hdr, outcomes, result, call>>

Init ==
    /\ token = 0
    /\ refresh_token \in BOOLEAN
    /\ ttl \in A!TTLValues
    /\ holder = NoHolder
    /\ pc = [r \in Requests |-> "idle"]
    /\ attempt = [r \in Requests |-> 0]
    /\ hdr = [r \in Requests |-> NoHeader]
    /\ wait = [r \in Requests |-> 0]
    /\ outcomes = [r \in Requests |-> <<>>]
    /\ result = [r \in Requests |-> NoResult]
    /\ call \in [Requests -> Calls]

Request(r) ==
    \/ StartFresh(r) \/ StartExpired(r)
    \/ Refresh(r) \/ AuthFailed(r)
    \/ AttemptSucceeds(r) \/ AttemptClientError(r) \/ AttemptRetry(r)
    \/ AttemptGiveUp(r) \/ AttemptRaw(r)
    \/ Wake(r)

Next == (\E r \in Requests : Request(r)) \/ Tick

(***************************************************************************)
(* Each coroutine is scheduled by the event loop whenever it is runnable,  *)
(* time passes, the transport answers every attempt (httpx enforces the    *)
(* timeout), refresh_function returns, and asyncio.Lock is FIFO.           *)
(***************************************************************************)
Fairness ==
    /\ WF_vars(Tick)
    /\ \A r \in Requests :
          /\ WF_vars(Request(r))
          /\ SF_vars(Refresh(r) /\ pc[r] = "acquire")

Spec == Init /\ [][Next]_vars
FairSpec == Spec /\ Fairness

-----------------------------------------------------------------------------
(***************************************************************************)
(*                              Properties                                 *)
(***************************************************************************)

RequestLabels == A!Labels \cup {"send", "sleep", "done"}

TypeOK ==
    /\ token \in 0..MaxToken
    /\ refresh_token \in BOOLEAN
    /\ ttl \in A!TTLValues
    /\ holder \in Requests \cup {NoHolder}
    /\ pc \in [Requests -> RequestLabels]
    /\ attempt \in [Requests -> 0..Retries]
    /\ hdr \in [Requests -> {NoHeader} \cup 0..MaxToken]
    /\ wait \in [Requests -> 0..2 ^ Retries]
    /\ outcomes \in [Requests -> Seq(Responses)]
    /\ result \in [Requests -> [kind : STRING, status : Int, code : STRING]]
    /\ call \in [Requests -> Calls]

(***************************************************************************)
(* The design's retry state machine (spec section 4.3): a response with    *)
(* status 429 or >= 500, a timeout or a network failure is transient; only *)
(* a transient outcome is followed by another attempt.                     *)
(***************************************************************************)
SpecTransient(resp) ==
    \/ resp.kind \in {"timeout", "network"}
    \/ resp.kind = "http" /\ (resp.status = 429 \/ resp.status >= 500)

\* The class the design assigns to an error status (spec section 4.2).
SpecKind(status) ==
    CASE status = 404 -> "NotFoundError"
      [] status = 401 -> "UnauthorizedError"
      [] status = 403 -> "ForbiddenError"
      [] status = 429 -> "RateLimitError"
      [] status >= 500 /\ status < 600 -> "ServerError"
      [] OTHER -> "GotrsError"

(***************************************************************************)
(* What the design says a request of call c ends with when its last       *)
(* attempt got resp (spec sections 4.3, 6): the bytes of a download, the  *)
(* unwrapped value of a successful response (an error for a success-false *)
(* envelope, carrying the HTTP status; a value the requested shape        *)
(* rejects is a ValidationError), the locally built TimeoutError /        *)
(* NetworkError, or the class of the error status.                        *)
(***************************************************************************)
SpecOutcome(resp, c) ==
    LET Out(k, st) == [kind |-> k, status |-> st] IN
    IF resp.kind = "timeout" THEN Out("TimeoutError", NoStatus)
    ELSE IF resp.kind = "network" THEN Out("NetworkError", NoStatus)
    ELSE IF resp.status < 200 \/ resp.status >= 300 THEN Out(SpecKind(resp.status), resp.status)
    ELSE IF c = "download" THEN Out("bytes", NoStatus)
    ELSE IF resp.body = "env_fail" THEN Out("GotrsError", resp.status)
    ELSE IF resp.body = "text" THEN Out("text", NoStatus)
    ELSE IF resp.body = "env_null" THEN Out("null", NoStatus)
    ELSE IF c = "model" THEN
        IF resp.body = "env_bad" THEN Out("ValidationError", NoStatus) ELSE Out("model", NoStatus)
    ELSE IF resp.body \in {"env_ok", "env_bad"} THEN Out("data", NoStatus)
    ELSE Out("body", NoStatus)

(***************************************************************************)
(* No retry after a non-transient outcome and at most retries + 1         *)
(* attempts: a 4xx other than 429 or a success is never followed by       *)
(* another attempt of the same request (lines 151-173).                   *)
(***************************************************************************)
OnlyTransientRetried ==
    \A r \in Requests :
        /\ Len(outcomes[r]) <= Retries + 1
        /\ \A i \in 1..Len(outcomes[r]) - 1 : SpecTransient(outcomes[r][i])

(***************************************************************************)
(* A finished request whose last attempt got an outcome the design names  *)
(* (anything but a stray transport exception) ends as that attempt says,  *)
(* and ends on a transient failure only after every attempt was used.     *)
(* This relates the whole retry loop, last_exception included, and the    *)
(* classification of _handle_error and _extract_data, to the design.      *)
(***************************************************************************)
ResultFromLastOutcome ==
    \A r \in Requests :
        pc[r] = "done" /\ outcomes[r] # <<>> =>
            LET last == outcomes[r][Len(outcomes[r])] IN
            /\ last.kind # "protocol" =>
                  [kind |-> result[r].kind, status |-> result[r].status] = SpecOutcome(last, call[r])
            /\ SpecTransient(last) => Len(outcomes[r]) = Retries + 1

(***************************************************************************)
(* Spec section 3: an error class with a fixed HTTP status (404, 401, 403, *)
(* 429, 5xx) always carries that status and a fixed machine code.         *)
(***************************************************************************)
FixedErrorCodes ==
    \A r \in Requests :
        /\ result[r].kind \in DOMAIN FixedError => result[r] = FixedError[result[r].kind]
        /\ result[r].kind = "ServerError" => result[r].code = "SERVER_ERROR"

(***************************************************************************)
(* Spec section 7: no raw transport-level exception crosses the engine;   *)
(* every failure is raised as a class of the taxonomy.                    *)
(***************************************************************************)
OnlyTaxonomyErrors ==
    \A r \in Requests :
        pc[r] = "done" => result[r].kind \in ValueKinds \cup TaxonomyKinds

(***************************************************************************)
(* The authenticator as the requests see it: a request that is not inside *)
(* auth.refresh() is, to the authenticator, a caller that is idle.        *)
(***************************************************************************)
AuthPc == [r \in Requests |-> IF pc[r] \in A!AuthLabels THEN pc[r] ELSE "idle"]

Authenticator == INSTANCE Auth WITH Coro <- Requests, pc <- AuthPc

(***************************************************************************)
(* The client drives the shared authenticator only through its interface: *)
(* every behaviour of the requests is a behaviour of Auth on its own, in  *)
(* which a request enters refresh() only from idle, leaves it only once   *)
(* it returned or raised, and no step of the engine touches the token,    *)
(* its expiry or the lock.  Auth's properties then hold in the client.    *)
(***************************************************************************)
AuthImplemented == Authenticator!Spec

\* Every request eventually returns or raises.
AllRequestsComplete ==
    \A r \in Requests : <>(pc[r] = "done")

=============================================================================
