--------------------------- MODULE HTTPClientProofs ---------------------------
(***************************************************************************)
(* Proofs about the retry loop of _make_request_with_retries, composed    *)
(* with the shared authenticator, for every set of requests, every retry  *)
(* count and every set of transport answers the hypothesis below allows.  *)
(***************************************************************************)
EXTENDS HTTPClient, TLAPS

(***************************************************************************)
(* The transport answers with no 1xx and no unfollowed 3xx status.  The    *)
(* code retries those like server errors (run client_3xx_retry), so the    *)
(* property below needs this hypothesis.  The client follows redirects   *)
(* (follow_redirects=True, line 49), so what remains is a 304 or a 3xx    *)
(* without a Location header: a hypothesis about the server.              *)
(***************************************************************************)
NoUnfollowedAnswers ==
    \A resp \in Responses :
        resp.kind = "http" =>
            /\ resp.status \in Int
            /\ 200 <= resp.status
            /\ ~(300 <= resp.status /\ resp.status < 400)

\* The part of the state the retry loop is about, typed.
RetryTypeOK ==
    /\ pc \in [Requests -> RequestLabels]
    /\ attempt \in [Requests -> 0..Retries]
    /\ outcomes \in [Requests -> Seq(Responses)]

(***************************************************************************)
(* The history of a request against its loop variable: before it is done, *)
(* one outcome per attempt counted; once done, at most one more (the      *)
(* attempt that ended it); every outcome an attempt was counted for was   *)
(* transient.                                                              *)
(***************************************************************************)
RetryHistory ==
    \A r \in Requests :
        /\ pc[r] # "done" => Len(outcomes[r]) = attempt[r]
        /\ Len(outcomes[r]) <= attempt[r] + 1
        /\ \A i \in 1..Len(outcomes[r]) : i <= attempt[r] => SpecTransient(outcomes[r][i])

IInv == RetryTypeOK /\ RetryHistory

(***************************************************************************)
(* With a model_class, the data of every success envelope fits the model. *)
(* Otherwise model_validate raises pydantic's error (run                   *)
(* client_hydration), which the design does not name.                     *)
(***************************************************************************)
ModelAcceptsData ==
    "model" \in Calls => \A resp \in Responses : resp.body # "env_bad"

(***************************************************************************)
(* What the code makes of the response that ended request r: the value of *)
(* the verb, the client error, the raw exception, or the error raised once *)
(* the last retried attempt failed (the branches of lines 151-194).        *)
(***************************************************************************)
CodeResult(r, resp) ==
    CASE IsSuccess(resp)         -> Deliver(r, resp)
      [] IsClientError(resp)     -> HandleError(resp)
      [] resp.kind = "protocol"  -> RawException
      [] OTHER                   -> GiveUpError(resp)

(***************************************************************************)
(* The classification of _handle_error, _extract_data and download_file   *)
(* agrees with the design for every answer but a stray transport error.   *)
(***************************************************************************)
LEMMA CodeResultMatchesDesign ==
  ASSUME NoUnfollowedAnswers, ModelAcceptsData, HTTPClientAssumption,
         NEW r, call[r] \in Calls, NEW resp \in Responses, resp.kind # "protocol"
  PROVE  [kind |-> CodeResult(r, resp).kind, status |-> CodeResult(r, resp).status]
            = SpecOutcome(resp, call[r])
  <1> USE DEF SpecOutcome, Error, NoStatus
  <1>1. CASE resp.kind \in {"timeout", "network"}
    BY <1>1 DEF CodeResult, IsSuccess, IsClientError, GiveUpError
  <1>2. CASE resp.kind = "http" /\ IsSuccess(resp)
    <2>1. resp.status \in Int /\ 200 <= resp.status /\ resp.status < 300
      BY <1>2 DEF NoUnfollowedAnswers, IsSuccess
    <2>2. CodeResult(r, resp) = Deliver(r, resp)
      BY <1>2, <2>1 DEF CodeResult, IsSuccess, IsClientError
    <2>3. ~(resp.status < 200 \/ resp.status >= 300)
      BY <2>1
    <2>4. CASE call[r] = "download"
      BY <1>2, <2>2, <2>3, <2>4 DEF Deliver, Value
    <2>5. CASE call[r] = "model"
      <3>1. resp.body # "env_bad"
        BY <2>5 DEF ModelAcceptsData
      <3>2. QED
        BY <1>2, <2>2, <2>3, <2>5, <3>1 DEF Deliver, ExtractData, Value
    <2>6. CASE call[r] = "plain"
      BY <1>2, <2>2, <2>3, <2>6 DEF Deliver, ExtractData, Value
    <2>7. QED
      BY <2>4, <2>5, <2>6 DEF HTTPClientAssumption
  <1>3. CASE resp.kind = "http" /\ ~IsSuccess(resp)
    <2>1. resp.status \in Int /\ resp.status >= 300
      BY <1>3 DEF NoUnfollowedAnswers, IsSuccess
    <2>2. QED
      BY <1>3, <2>1 DEF CodeResult, IsSuccess, IsClientError, GiveUpError, HandleError, FixedError, SpecKind
  <1>4. QED
    BY <1>1, <1>2, <1>3 DEF HTTPClientAssumption

(***************************************************************************)
(* The strengthening of IInv for the result of a request.  A request that *)
(* has not reached the loop yet (it is idle or inside auth.refresh()) has *)
(* no outcome.  A finished request that made attempts made one more than  *)
(* it counted, holds what the code makes of its last outcome, and ended   *)
(* on a transient outcome only after its last allowed attempt.            *)
(***************************************************************************)
PreLoop ==
    \A r \in Requests : pc[r] \in A!Labels => outcomes[r] = <<>>

DoneResult ==
    \A r \in Requests :
        pc[r] = "done" /\ outcomes[r] # <<>> =>
            LET last == outcomes[r][Len(outcomes[r])] IN
            /\ Len(outcomes[r]) = attempt[r] + 1
            /\ result[r] = CodeResult(r, last)
            /\ SpecTransient(last) => attempt[r] = Retries

ResultIInv ==
    /\ IInv
    /\ call \in [Requests -> Calls]
    /\ DOMAIN result = Requests
    /\ PreLoop
    /\ DoneResult

\* Under the hypothesis, what the loop retries (line 164) is transient.
LEMMA RetriedIsTransient ==
  ASSUME NoUnfollowedAnswers, NEW resp \in Responses, IsRetried(resp)
  PROVE  SpecTransient(resp)
  BY DEF NoUnfollowedAnswers, IsRetried, IsSuccess, IsClientError, SpecTransient

\* A step of auth.refresh() moves its request between refresh labels only.
LEMMA RefreshLabels ==
  ASSUME pc \in [Requests -> RequestLabels], NEW r \in Requests, A!RefreshStep(r)
  PROVE  /\ pc[r] \in {"refresh", "acquire", "calling"}
         /\ \E l \in A!AuthLabels : pc' = [pc EXCEPT ![r] = l]
  <1> USE DEF A!AuthLabels
  <1>1. CASE A!RefreshNoCredentials(r)
    BY <1>1 DEF A!RefreshNoCredentials
  <1>2. CASE A!RefreshEnter(r)
    BY <1>2 DEF A!RefreshEnter
  <1>3. CASE A!AcquireFresh(r)
    BY <1>3 DEF A!AcquireFresh
  <1>4. CASE A!AcquireCall(r)
    BY <1>4 DEF A!AcquireCall
  <1>5. CASE A!RefreshSucceeds(r)
    BY <1>5 DEF A!RefreshSucceeds
  <1>6. CASE A!RefreshBadExpiry(r)
    BY <1>6 DEF A!RefreshBadExpiry
  <1>7. CASE A!RefreshFails(r)
    BY <1>7 DEF A!RefreshFails
  <1>8. QED
    BY <1>1, <1>2, <1>3, <1>4, <1>5, <1>6, <1>7 DEF A!RefreshStep

LEMMA InitIInv == Init => IInv
  BY HTTPClientAssumption
  DEF Init, IInv, RetryTypeOK, RetryHistory, RequestLabels, A!Labels

(***************************************************************************)
(* An attempt that ends the request (a success, a client error, the last  *)
(* failure or a raw exception) appends one outcome, counted for no        *)
(* attempt, and leaves the loop variable as it is.                         *)
(***************************************************************************)
LEMMA AttemptEndsIInv ==
  ASSUME IInv, NEW r \in Requests, NEW resp \in Responses, AttemptWith(r, resp),
         pc' = [pc EXCEPT ![r] = "done"], attempt' = attempt
  PROVE  IInv'
  <1> USE DEF IInv, RetryTypeOK
  <1>1. RetryTypeOK'
    BY DEF AttemptWith, RequestLabels
  <1>2. Len(outcomes'[r]) = attempt[r] + 1
    BY DEF AttemptWith, Ready, RetryHistory
  <1>3. \A i \in 1..attempt[r] : outcomes'[r][i] = outcomes[r][i]
    BY <1>2 DEF AttemptWith, Ready, RetryHistory
  <1>4. RetryHistory'
    BY <1>2, <1>3 DEF AttemptWith, RetryHistory
  <1>5. QED
    BY <1>1, <1>4

(***************************************************************************)
(* A retried attempt appends its outcome and counts it: the loop variable *)
(* and the history grow together, and the new outcome is transient.       *)
(***************************************************************************)
LEMMA AttemptRetryIInv ==
  ASSUME NoUnfollowedAnswers, IInv, NEW r \in Requests, AttemptRetry(r)
  PROVE  IInv'
  <1> USE DEF IInv, RetryTypeOK
  <1>1. PICK resp \in Responses :
          /\ AttemptWith(r, resp)
          /\ IsRetried(resp)
          /\ attempt[r] < Retries
          /\ attempt' = [attempt EXCEPT ![r] = @ + 1]
          /\ pc' = [pc EXCEPT ![r] = "sleep"]
    BY DEF AttemptRetry
  <1>2. SpecTransient(resp)
    BY <1>1, RetriedIsTransient
  <1>3. RetryTypeOK'
    BY <1>1, HTTPClientAssumption DEF AttemptWith, RequestLabels
  <1>4. Len(outcomes'[r]) = attempt'[r]
    BY <1>1 DEF AttemptWith, Ready, RetryHistory
  <1>5. \A i \in 1..attempt[r] : outcomes'[r][i] = outcomes[r][i]
    BY <1>1 DEF AttemptWith, Ready, RetryHistory
  <1>6. outcomes'[r][attempt'[r]] = resp
    BY <1>1 DEF AttemptWith, Ready, RetryHistory
  <1>7. RetryHistory'
    BY <1>1, <1>2, <1>4, <1>5, <1>6 DEF AttemptWith, RetryHistory
  <1>8. QED
    BY <1>3, <1>7

LEMMA NextIInv ==
  ASSUME NoUnfollowedAnswers, IInv, [Next]_vars
  PROVE  IInv'
  <1> USE DEF IInv, RetryTypeOK, RequestLabels, A!Labels, A!AuthLabels
  <1>1. ASSUME NEW r \in Requests, StartFresh(r) PROVE IInv'
    BY <1>1 DEF StartFresh, RetryHistory
  <1>2. ASSUME NEW r \in Requests, StartExpired(r) PROVE IInv'
    BY <1>2 DEF StartExpired, reqVars, RetryHistory
  <1>3. ASSUME NEW r \in Requests, Refresh(r) PROVE IInv'
    <2>1. /\ pc[r] \in {"refresh", "acquire", "calling"}
          /\ \E l \in A!AuthLabels : pc' = [pc EXCEPT ![r] = l]
      BY <1>3, RefreshLabels DEF Refresh
    <2>2. PICK l \in A!AuthLabels : pc' = [pc EXCEPT ![r] = l]
      BY <2>1
    <2>3. QED
      BY <1>3, <2>1, <2>2 DEF Refresh, RetryHistory
  <1>4. ASSUME NEW r \in Requests, AuthFailed(r) PROVE IInv'
    BY <1>4 DEF AuthFailed, Finish, RetryHistory
  <1>5. ASSUME NEW r \in Requests, AttemptSucceeds(r) PROVE IInv'
    BY <1>5, AttemptEndsIInv DEF AttemptSucceeds, Finish
  <1>6. ASSUME NEW r \in Requests, AttemptClientError(r) PROVE IInv'
    BY <1>6, AttemptEndsIInv DEF AttemptClientError, Finish
  <1>7. ASSUME NEW r \in Requests, AttemptRetry(r) PROVE IInv'
    BY <1>7, AttemptRetryIInv
  <1>8. ASSUME NEW r \in Requests, AttemptGiveUp(r) PROVE IInv'
    BY <1>8, AttemptEndsIInv DEF AttemptGiveUp, Finish
  <1>9. ASSUME NEW r \in Requests, AttemptRaw(r) PROVE IInv'
    BY <1>9, AttemptEndsIInv DEF AttemptRaw, Finish
  <1>10. ASSUME NEW r \in Requests, Wake(r) PROVE IInv'
    BY <1>10 DEF Wake, reqVars, RetryHistory
  <1>11. CASE Tick
    BY <1>11 DEF Tick, RetryHistory
  <1>12. CASE UNCHANGED vars
    BY <1>12 DEF vars, RetryHistory
  <1>13. QED
    BY <1>1, <1>2, <1>3, <1>4, <1>5, <1>6, <1>7, <1>8, <1>9, <1>10, <1>11, <1>12
    DEF Next, Request

\* The history bounds of IInv give the property: the outcomes before the
\* last were all counted, so all transient, and there are at most
\* retries + 1 of them.
LEMMA IInvImpliesProperty == IInv => OnlyTransientRetried
  <1> SUFFICES ASSUME IInv, NEW r \in Requests
               PROVE  /\ Len(outcomes[r]) <= Retries + 1
                      /\ \A i \in 1..Len(outcomes[r]) - 1 : SpecTransient(outcomes[r][i])
    BY DEF OnlyTransientRetried
  <1>1. /\ Len(outcomes[r]) \in Nat
        /\ attempt[r] \in 0..Retries
        /\ Len(outcomes[r]) <= attempt[r] + 1
    BY DEF IInv, RetryTypeOK, RetryHistory
  <1>2. \A i \in 1..Len(outcomes[r]) - 1 : i \in 1..Len(outcomes[r]) /\ i <= attempt[r]
    BY <1>1
  <1>3. \A i \in 1..Len(outcomes[r]) : i <= attempt[r] => SpecTransient(outcomes[r][i])
    BY DEF IInv, RetryHistory
  <1>4. Len(outcomes[r]) <= Retries + 1
    BY <1>1, HTTPClientAssumption
  <1>5. \A i \in 1..Len(outcomes[r]) - 1 : SpecTransient(outcomes[r][i])
    BY <1>2, <1>3, Zenon
  <1>6. QED
    BY <1>4, <1>5

LEMMA InitResultIInv == Init => ResultIInv
  BY InitIInv DEF Init, ResultIInv, PreLoop, DoneResult

(***************************************************************************)
(* An attempt that ends the request stores what the code makes of its     *)
(* outcome; if that outcome was transient, the attempt was the last one.  *)
(***************************************************************************)
LEMMA AttemptEndsResultIInv ==
  ASSUME ResultIInv, NEW r \in Requests, NEW resp \in Responses, AttemptWith(r, resp),
         pc' = [pc EXCEPT ![r] = "done"], attempt' = attempt, call' = call,
         result' = [result EXCEPT ![r] = CodeResult(r, resp)],
         SpecTransient(resp) => attempt[r] = Retries
  PROVE  ResultIInv'
  <1> USE DEF ResultIInv, IInv, RetryTypeOK
  <1>1. IInv'
    BY AttemptEndsIInv
  <1>2. PreLoop'
    BY DEF PreLoop, AttemptWith, Ready, A!Labels, A!AuthLabels
  <1>3. /\ Len(outcomes'[r]) = attempt[r] + 1
        /\ outcomes'[r][Len(outcomes'[r])] = resp
    BY DEF AttemptWith, Ready, RetryHistory
  <1>4. \A q, x : CodeResult(q, x)' = CodeResult(q, x)
    BY DEF CodeResult, Deliver
  <1>5. ASSUME NEW q \in Requests, q # r PROVE DoneResult!(q)'
    BY <1>4, <1>5 DEF DoneResult, AttemptWith
  <1>6. DoneResult!(r)'
    <2>1. result'[r] = CodeResult(r, resp)
      OBVIOUS
    <2>2. QED
      BY <1>3, <1>4, <2>1 DEF AttemptWith
  <1>7. DoneResult'
    BY <1>5, <1>6 DEF DoneResult
  <1>8. QED
    BY <1>1, <1>2, <1>7

\* The result each ending attempt stores is the one CodeResult names.
LEMMA EndingResults ==
  ASSUME NoUnfollowedAnswers, NEW r, NEW resp \in Responses
  PROVE  /\ IsSuccess(resp) => Deliver(r, resp) = CodeResult(r, resp)
         /\ IsClientError(resp) => HandleError(resp) = CodeResult(r, resp)
         /\ IsRetried(resp) => GiveUpError(resp) = CodeResult(r, resp)
         /\ resp.kind = "protocol" => RawException = CodeResult(r, resp)
  <1>1. resp.kind = "http" => resp.status \in Int
    BY DEF NoUnfollowedAnswers
  <1>2. QED
    BY <1>1 DEF CodeResult, IsSuccess, IsClientError, IsRetried

\* Only an attempt the loop retries can end on a transient outcome.
LEMMA EndingNotTransient ==
  ASSUME NoUnfollowedAnswers, NEW resp \in Responses, IsSuccess(resp) \/ IsClientError(resp) \/ resp.kind = "protocol"
  PROVE  ~SpecTransient(resp)
  <1>1. resp.kind = "http" => resp.status \in Int
    BY DEF NoUnfollowedAnswers
  <1>2. QED
    BY <1>1 DEF IsSuccess, IsClientError, SpecTransient

LEMMA NextResultIInv ==
  ASSUME NoUnfollowedAnswers, ResultIInv, [Next]_vars
  PROVE  ResultIInv'
  <1> USE DEF ResultIInv, IInv, RetryTypeOK
  <1>0. IInv'
    BY NextIInv
  <1>1. ASSUME NEW r \in Requests, StartFresh(r) PROVE ResultIInv'
    BY <1>0, <1>1 DEF StartFresh, PreLoop, DoneResult, CodeResult, Deliver,
                      A!Labels, A!AuthLabels
  <1>2. ASSUME NEW r \in Requests, StartExpired(r) PROVE ResultIInv'
    BY <1>0, <1>2 DEF StartExpired, reqVars, PreLoop, DoneResult, CodeResult, Deliver,
                      A!Labels, A!AuthLabels
  <1>3. ASSUME NEW r \in Requests, Refresh(r) PROVE ResultIInv'
    <2>1. /\ pc[r] \in {"refresh", "acquire", "calling"}
          /\ \E l \in A!AuthLabels : pc' = [pc EXCEPT ![r] = l]
      BY <1>3, RefreshLabels DEF Refresh, RequestLabels
    <2>2. PICK l \in A!AuthLabels : pc' = [pc EXCEPT ![r] = l]
      BY <2>1
    <2>3. QED
      BY <1>0, <1>3, <2>1, <2>2 DEF Refresh, PreLoop, DoneResult, CodeResult, Deliver,
                                    A!Labels, A!AuthLabels
  <1>4. ASSUME NEW r \in Requests, AuthFailed(r) PROVE ResultIInv'
    BY <1>0, <1>4 DEF AuthFailed, Finish, PreLoop, DoneResult, CodeResult, Deliver,
                      A!Labels, A!AuthLabels
  <1>5. ASSUME NEW r \in Requests, AttemptSucceeds(r) PROVE ResultIInv'
    <2>1. PICK resp \in Responses :
            AttemptWith(r, resp) /\ IsSuccess(resp) /\ Finish(r, Deliver(r, resp))
            /\ UNCHANGED <<attempt, call>>
      BY <1>5 DEF AttemptSucceeds
    <2>2. ~SpecTransient(resp)
      BY <2>1, EndingNotTransient
    <2>3. QED
      BY <2>1, <2>2, EndingResults, AttemptEndsResultIInv DEF Finish
  <1>6. ASSUME NEW r \in Requests, AttemptClientError(r) PROVE ResultIInv'
    <2>1. PICK resp \in Responses :
            AttemptWith(r, resp) /\ IsClientError(resp) /\ Finish(r, HandleError(resp))
            /\ UNCHANGED <<attempt, call>>
      BY <1>6 DEF AttemptClientError
    <2>2. ~SpecTransient(resp)
      BY <2>1, EndingNotTransient
    <2>3. QED
      BY <2>1, <2>2, EndingResults, AttemptEndsResultIInv DEF Finish
  <1>7. ASSUME NEW r \in Requests, AttemptRetry(r) PROVE ResultIInv'
    <2>1. PICK resp \in Responses :
            AttemptWith(r, resp) /\ pc' = [pc EXCEPT ![r] = "sleep"]
            /\ attempt' = [attempt EXCEPT ![r] = @ + 1]
            /\ UNCHANGED <<result, call>>
      BY <1>7 DEF AttemptRetry
    <2>2. PreLoop'
      BY <2>1 DEF PreLoop, AttemptWith, Ready, A!Labels, A!AuthLabels
    <2>3. DoneResult'
      BY <2>1 DEF DoneResult, AttemptWith, CodeResult, Deliver
    <2>4. QED
      BY <1>0, <2>1, <2>2, <2>3
  <1>8. ASSUME NEW r \in Requests, AttemptGiveUp(r) PROVE ResultIInv'
    <2>1. PICK resp \in Responses :
            AttemptWith(r, resp) /\ IsRetried(resp) /\ attempt[r] = Retries
            /\ Finish(r, GiveUpError(resp)) /\ UNCHANGED <<attempt, call>>
      BY <1>8 DEF AttemptGiveUp
    <2>2. QED
      BY <2>1, EndingResults, AttemptEndsResultIInv DEF Finish
  <1>9. ASSUME NEW r \in Requests, AttemptRaw(r) PROVE ResultIInv'
    <2>1. PICK resp \in Responses :
            AttemptWith(r, resp) /\ resp.kind = "protocol" /\ Finish(r, RawException)
            /\ UNCHANGED <<attempt, call>>
      BY <1>9 DEF AttemptRaw
    <2>2. ~SpecTransient(resp)
      BY <2>1, EndingNotTransient
    <2>3. QED
      BY <2>1, <2>2, EndingResults, AttemptEndsResultIInv DEF Finish
  <1>10. ASSUME NEW r \in Requests, Wake(r) PROVE ResultIInv'
    BY <1>0, <1>10 DEF Wake, reqVars, PreLoop, DoneResult, CodeResult, Deliver,
                       A!Labels, A!AuthLabels
  <1>11. CASE Tick
    BY <1>0, <1>11 DEF Tick, PreLoop, DoneResult, CodeResult, Deliver
  <1>12. CASE UNCHANGED vars
    BY <1>0, <1>12 DEF vars, reqVars, PreLoop, DoneResult, CodeResult, Deliver
  <1>13. QED
    BY <1>1, <1>2, <1>3, <1>4, <1>5, <1>6, <1>7, <1>8, <1>9, <1>10, <1>11, <1>12
    DEF Next, Request

\* The last outcome of a finished request decides its result as the design
\* says (CodeResultMatchesDesign), and a transient one was the last allowed.
LEMMA ResultIInvImpliesProperty ==
  ASSUME NoUnfollowedAnswers, ModelAcceptsData, ResultIInv
  PROVE  ResultFromLastOutcome
  <1> SUFFICES ASSUME NEW r \in Requests, pc[r] = "done", outcomes[r] # <<>>
               PROVE  LET last == outcomes[r][Len(outcomes[r])] IN
                      /\ last.kind # "protocol" =>
                            [kind |-> result[r].kind, status |-> result[r].status]
                               = SpecOutcome(last, call[r])
                      /\ SpecTransient(last) => Len(outcomes[r]) = Retries + 1
    BY DEF ResultFromLastOutcome
  <1>1. PICK last \in Responses : last = outcomes[r][Len(outcomes[r])]
    BY DEF ResultIInv, IInv, RetryTypeOK
  <1>2. call[r] \in Calls
    BY DEF ResultIInv
  <1>3. /\ Len(outcomes[r]) = attempt[r] + 1
        /\ result[r] = CodeResult(r, last)
        /\ SpecTransient(last) => attempt[r] = Retries
    BY <1>1 DEF ResultIInv, DoneResult
  <1>4. last.kind # "protocol" =>
           [kind |-> result[r].kind, status |-> result[r].status] = SpecOutcome(last, call[r])
    BY <1>2, <1>3, CodeResultMatchesDesign, HTTPClientAssumption
  <1>5. QED
    BY <1>1, <1>3, <1>4

(***************************************************************************)
(* When the transport gives no 1xx or unfollowed 3xx answer and a model   *)
(* accepts every success envelope, a finished request of                   *)
(* _make_request_with_retries that made attempts returns or raises what   *)
(* the design's classification makes of its last response (spec sections *)
(* 3 and 4.2), and ends on a transient failure only after retries + 1     *)
(* attempts, whatever the other requests and the shared refresh do.       *)
(***************************************************************************)
THEOREM ResultMatchesLastOutcome ==
  ASSUME NoUnfollowedAnswers, ModelAcceptsData
  PROVE  Spec => []ResultFromLastOutcome
  <1>1. Init => ResultIInv
    BY InitResultIInv
  <1>2. ResultIInv /\ [Next]_vars => ResultIInv'
    BY NextResultIInv
  <1>3. ResultIInv => ResultFromLastOutcome
    BY ResultIInvImpliesProperty
  <1>4. QED
    BY <1>1, <1>2, <1>3, PTL DEF Spec

(***************************************************************************)
(* When the transport gives no 1xx or unfollowed 3xx answer, every        *)
(* request of _make_request_with_retries, whatever other requests and     *)
(* refreshes do meanwhile, makes at most retries + 1 attempts and follows  *)
(* an attempt by another only when its outcome was transient (429, 5xx,   *)
(* timeout or network failure), for every number of requests and retries. *)
(***************************************************************************)
THEOREM RetriesOnlyTransient ==
  ASSUME NoUnfollowedAnswers
  PROVE  Spec => []OnlyTransientRetried
  <1>1. Init => IInv
    BY InitIInv
  <1>2. IInv /\ [Next]_vars => IInv'
    BY NextIInv
  <1>3. IInv => OnlyTransientRetried
    BY IInvImpliesProperty
  <1>4. QED
    BY <1>1, <1>2, <1>3, PTL DEF Spec


-----------------------------------------------------------------------------
(***************************************************************************)
(*       The engine uses the authenticator through its interface          *)
(***************************************************************************)

\* Every request is at one of its control points.
PcType == pc \in [Requests -> RequestLabels]

LEMMA PcTypeInvariant == Spec => []PcType
  <1>1. Init => PcType
    BY DEF Init, PcType, RequestLabels, A!Labels
  <1>2. PcType /\ [Next]_vars => PcType'
    <2> SUFFICES ASSUME PcType, [Next]_vars PROVE PcType'
      OBVIOUS
    <2> USE DEF PcType, RequestLabels, A!Labels, A!AuthLabels
    <2>1. ASSUME NEW r \in Requests, Refresh(r) PROVE PcType'
      <3>1. PICK l \in A!AuthLabels : pc' = [pc EXCEPT ![r] = l]
        BY <2>1, RefreshLabels DEF Refresh
      <3>2. QED
        BY <3>1
    <2>2. QED
      BY <2>1 DEF Next, Request, StartFresh, StartExpired, AuthFailed, Finish,
                  AttemptSucceeds, AttemptClientError, AttemptRetry, AttemptGiveUp,
                  AttemptRaw, Wake, Tick, vars
  <1>3. QED
    BY <1>1, <1>2, PTL DEF Spec

(***************************************************************************)
(* How a move of request r shows to the authenticator: a label of         *)
(* refresh() as itself, any other as idle.                                 *)
(***************************************************************************)
LEMMA AuthPcStep ==
  ASSUME PcType, NEW r \in Requests, NEW l, pc' = [pc EXCEPT ![r] = l]
  PROVE  AuthPc' = [AuthPc EXCEPT ![r] = IF l \in A!AuthLabels THEN l ELSE "idle"]
  BY DEF PcType, AuthPc

\* A move between two labels outside refresh() is invisible to it.
LEMMA AuthPcHidden ==
  ASSUME PcType, NEW r \in Requests, pc[r] \notin A!AuthLabels,
         NEW l, l \notin A!AuthLabels, pc' = [pc EXCEPT ![r] = l]
  PROVE  AuthPc' = AuthPc
  BY DEF PcType, AuthPc

\* A step of auth.refresh() taken by request r is one of the authenticator.
LEMMA RefreshRefines ==
  ASSUME PcType, NEW r \in Requests, A!RefreshStep(r)
  PROVE  Authenticator!RefreshStep(r)
  <1>1. AuthPc[r] = pc[r]
    BY RefreshLabels DEF AuthPc, PcType, A!AuthLabels
  <1>2. ASSUME A!RefreshNoCredentials(r) PROVE Authenticator!RefreshNoCredentials(r)
    <2>1. AuthPc' = [AuthPc EXCEPT ![r] = "auth_error"]
      BY <1>2, AuthPcStep DEF A!RefreshNoCredentials, A!AuthLabels
    <2>2. QED
      BY <1>1, <1>2, <2>1 DEF A!RefreshNoCredentials, Authenticator!RefreshNoCredentials,
                   A!authVars, Authenticator!authVars
  <1>3. ASSUME A!RefreshEnter(r) PROVE Authenticator!RefreshEnter(r)
    <2>1. AuthPc' = [AuthPc EXCEPT ![r] = "acquire"]
      BY <1>3, AuthPcStep DEF A!RefreshEnter, A!AuthLabels
    <2>2. QED
      BY <1>1, <1>3, <2>1 DEF A!RefreshEnter, Authenticator!RefreshEnter,
                   A!authVars, Authenticator!authVars
  <1>4. ASSUME A!AcquireFresh(r) PROVE Authenticator!AcquireFresh(r)
    <2>1. AuthPc' = [AuthPc EXCEPT ![r] = "refreshed"]
      BY <1>4, AuthPcStep DEF A!AcquireFresh, A!AuthLabels
    <2>2. QED
      BY <1>1, <1>4, <2>1 DEF A!AcquireFresh, Authenticator!AcquireFresh,
                   A!authVars, Authenticator!authVars, A!IsExpired, Authenticator!IsExpired,
                   A!NoExpiry, Authenticator!NoExpiry
  <1>5. ASSUME A!AcquireCall(r) PROVE Authenticator!AcquireCall(r)
    <2>1. AuthPc' = [AuthPc EXCEPT ![r] = "calling"]
      BY <1>5, AuthPcStep DEF A!AcquireCall, A!AuthLabels
    <2>2. QED
      BY <1>1, <1>5, <2>1 DEF A!AcquireCall, Authenticator!AcquireCall,
                   A!authVars, Authenticator!authVars, A!IsExpired, Authenticator!IsExpired,
                   A!NoExpiry, Authenticator!NoExpiry
  <1>6. ASSUME A!RefreshSucceeds(r) PROVE Authenticator!RefreshSucceeds(r)
    <2>1. AuthPc' = [AuthPc EXCEPT ![r] = "refreshed"]
      BY <1>6, AuthPcStep DEF A!RefreshSucceeds, A!AuthLabels
    <2>2. QED
      BY <1>1, <1>6, <2>1 DEF A!RefreshSucceeds, Authenticator!RefreshSucceeds, A!ExpiresAtField, Authenticator!ExpiresAtField,
                   A!AbsentField, Authenticator!AbsentField,
                   A!NoExpiry, Authenticator!NoExpiry
  <1>7. ASSUME A!RefreshBadExpiry(r) PROVE Authenticator!RefreshBadExpiry(r)
    <2>1. AuthPc' = [AuthPc EXCEPT ![r] = "auth_error"]
      BY <1>7, AuthPcStep DEF A!RefreshBadExpiry, A!AuthLabels
    <2>2. QED
      BY <1>1, <1>7, <2>1 DEF A!RefreshBadExpiry, Authenticator!RefreshBadExpiry,
                   A!authVars, Authenticator!authVars
  <1>8. ASSUME A!RefreshFails(r) PROVE Authenticator!RefreshFails(r)
    <2>1. AuthPc' = [AuthPc EXCEPT ![r] = "auth_error"]
      BY <1>8, AuthPcStep DEF A!RefreshFails, A!AuthLabels
    <2>2. QED
      BY <1>1, <1>8, <2>1 DEF A!RefreshFails, Authenticator!RefreshFails,
                   A!authVars, Authenticator!authVars
  <1>9. QED
    BY <1>2, <1>3, <1>4, <1>5, <1>6, <1>7, <1>8 DEF A!RefreshStep, Authenticator!RefreshStep


\* A request moving outside refresh() leaves the authenticator as it was.
LEMMA HiddenStutters ==
  ASSUME PcType, NEW r \in Requests, pc[r] \notin A!AuthLabels,
         NEW l, l \notin A!AuthLabels, pc' = [pc EXCEPT ![r] = l], UNCHANGED authVars
  PROVE  UNCHANGED Authenticator!vars
  BY AuthPcHidden DEF authVars, Authenticator!vars

(***************************************************************************)
(* An attempt is sent from headers built before (a stutter of the         *)
(* authenticator) or right after refresh() returned, which is then the    *)
(* request's return from refresh().                                        *)
(***************************************************************************)
LEMMA AttemptRefines ==
  ASSUME PcType, NEW r \in Requests, pc[r] \in Ready,
         NEW l \in {"done", "sleep"}, pc' = [pc EXCEPT ![r] = l], UNCHANGED authVars
  PROVE  [Authenticator!Next]_Authenticator!vars
  <1>1. CASE pc[r] = "send"
    BY <1>1, HiddenStutters DEF A!AuthLabels
  <1>2. CASE pc[r] = "refreshed"
    <2>1. AuthPc' = [AuthPc EXCEPT ![r] = "idle"]
      BY AuthPcStep DEF A!AuthLabels
    <2>2. AuthPc[r] = "refreshed"
      BY <1>2 DEF AuthPc, A!AuthLabels
    <2>3. Authenticator!Return(r)
      BY <2>1, <2>2 DEF Authenticator!Return, Authenticator!authVars, authVars
    <2>4. QED
      BY <2>3 DEF Authenticator!Next
  <1>3. QED
    BY <1>1, <1>2 DEF Ready

\* Every step of the engine is a step of the authenticator or leaves it alone.
LEMMA NextRefines ==
  ASSUME PcType, [Next]_vars
  PROVE  [Authenticator!Next]_Authenticator!vars
  <1> USE DEF A!AuthLabels
  <1>1. ASSUME NEW r \in Requests, StartFresh(r) PROVE [Authenticator!Next]_Authenticator!vars
    BY <1>1, HiddenStutters DEF StartFresh
  <1>2. ASSUME NEW r \in Requests, StartExpired(r) PROVE [Authenticator!Next]_Authenticator!vars
    <2>1. AuthPc' = [AuthPc EXCEPT ![r] = "refresh"] /\ AuthPc[r] = "idle"
      BY <1>2, AuthPcStep DEF StartExpired, AuthPc
    <2>2. Authenticator!Call(r)
      BY <1>2, <2>1 DEF StartExpired, Authenticator!Call, Authenticator!authVars, authVars
    <2>3. QED
      BY <2>2 DEF Authenticator!Next
  <1>3. ASSUME NEW r \in Requests, Refresh(r) PROVE [Authenticator!Next]_Authenticator!vars
    BY <1>3, RefreshRefines DEF Refresh, Authenticator!Next
  <1>4. ASSUME NEW r \in Requests, AuthFailed(r) PROVE [Authenticator!Next]_Authenticator!vars
    <2>1. AuthPc' = [AuthPc EXCEPT ![r] = "idle"]
      <3>1. pc' = [pc EXCEPT ![r] = "done"]
        BY <1>4 DEF AuthFailed, Finish
      <3>2. QED
        BY <3>1 DEF AuthPc, PcType
    <2>2. AuthPc[r] = "auth_error"
      BY <1>4 DEF AuthFailed, AuthPc
    <2>3. Authenticator!Return(r)
      BY <1>4, <2>1, <2>2 DEF AuthFailed, Authenticator!Return, Authenticator!authVars, authVars
    <2>4. QED
      BY <2>3 DEF Authenticator!Next
  <1>5. ASSUME NEW r \in Requests, AttemptSucceeds(r) PROVE [Authenticator!Next]_Authenticator!vars
    BY <1>5, AttemptRefines DEF AttemptSucceeds, AttemptWith, Finish
  <1>6. ASSUME NEW r \in Requests, AttemptClientError(r) PROVE [Authenticator!Next]_Authenticator!vars
    BY <1>6, AttemptRefines DEF AttemptClientError, AttemptWith, Finish
  <1>7. ASSUME NEW r \in Requests, AttemptRetry(r) PROVE [Authenticator!Next]_Authenticator!vars
    BY <1>7, AttemptRefines DEF AttemptRetry, AttemptWith
  <1>8. ASSUME NEW r \in Requests, AttemptGiveUp(r) PROVE [Authenticator!Next]_Authenticator!vars
    BY <1>8, AttemptRefines DEF AttemptGiveUp, AttemptWith, Finish
  <1>9. ASSUME NEW r \in Requests, AttemptRaw(r) PROVE [Authenticator!Next]_Authenticator!vars
    BY <1>9, AttemptRefines DEF AttemptRaw, AttemptWith, Finish
  <1>10. ASSUME NEW r \in Requests, Wake(r) PROVE [Authenticator!Next]_Authenticator!vars
    BY <1>10, HiddenStutters DEF Wake
  <1>11. CASE Tick
    <2>1. Authenticator!Tick
      BY <1>11 DEF Tick, A!AgeCredential, Authenticator!Tick, Authenticator!AgeCredential, AuthPc
    <2>2. QED
      BY <2>1 DEF Authenticator!Next
  <1>12. CASE UNCHANGED vars
    BY <1>12 DEF vars, Authenticator!vars, AuthPc
  <1>13. QED
    BY <1>1, <1>2, <1>3, <1>4, <1>5, <1>6, <1>7, <1>8, <1>9, <1>10, <1>11, <1>12
    DEF Next, Request

(***************************************************************************)
(* For every set of requests, retry count and transport answers, the      *)
(* engine drives the shared JWTAuth / OAuth2Auth only as the authenticator *)
(* on its own may be driven: _prepare_headers enters refresh() only from  *)
(* an idle request, a request leaves refresh() only once it returned or    *)
(* raised, and no other step of the engine changes the token, its expiry  *)
(* or the refresh lock.                                                    *)
(***************************************************************************)
THEOREM ClientImplementsAuth == Spec => AuthImplemented
  <1>1. Init => Authenticator!Init
    BY DEF Init, Authenticator!Init, AuthPc, A!AuthLabels, A!TTLValues,
           Authenticator!TTLValues, A!NoExpiry, Authenticator!NoExpiry
  <1>2. PcType /\ [Next]_vars => [Authenticator!Next]_Authenticator!vars
    BY NextRefines
  <1>3. QED
    BY <1>1, <1>2, PcTypeInvariant, PTL DEF Spec, AuthImplemented, Authenticator!Spec


\* The authenticator's proofs, read through the refinement mapping.
AP == INSTANCE AuthProofs WITH Coro <- Requests, pc <- AuthPc

(***************************************************************************)
(* Among the requests, at most one awaits refresh_function, and only on   *)
(* an expired credential.                                                  *)
(***************************************************************************)
ClientRefreshDiscipline ==
    /\ \A r \in Requests : pc[r] = "calling" => A!IsExpired
    /\ \A r, q \in Requests : pc[r] = "calling" /\ pc[q] = "calling" => r = q

(***************************************************************************)
(* Among concurrent requests of one HTTPClient, whose _prepare_headers    *)
(* may each find the shared credential expired, refresh_function is       *)
(* awaited by one request at a time and only while the credential is      *)
(* expired: no request replaces a token another request's refresh has     *)
(* just made valid.  These are Auth's lock and double-checked refresh     *)
(* (AuthProofs), carried to the engine by ClientImplementsAuth, for every *)
(* set of requests and retry count.                                       *)
(***************************************************************************)
THEOREM ClientRefreshesSerialised == Spec => []ClientRefreshDiscipline
  <1>1. Spec => AP!Spec
    <2>1. Init => AP!Init
      BY DEF Init, AP!Init, AuthPc, A!AuthLabels, A!TTLValues, AP!TTLValues,
             A!NoExpiry, AP!NoExpiry
    <2>2. [Authenticator!Next]_Authenticator!vars => [AP!Next]_AP!vars
      BY DEF Authenticator!Next, AP!Next, Authenticator!Call, AP!Call,
         Authenticator!Return, AP!Return, Authenticator!Tick, AP!Tick,
         Authenticator!AgeCredential, AP!AgeCredential,
         Authenticator!RefreshStep, AP!RefreshStep,
         Authenticator!RefreshNoCredentials, AP!RefreshNoCredentials,
         Authenticator!RefreshEnter, AP!RefreshEnter,
         Authenticator!AcquireFresh, AP!AcquireFresh,
         Authenticator!AcquireCall, AP!AcquireCall,
         Authenticator!RefreshSucceeds, AP!RefreshSucceeds,
         Authenticator!RefreshBadExpiry, AP!RefreshBadExpiry,
         Authenticator!RefreshFails, AP!RefreshFails,
         Authenticator!authVars, AP!authVars, Authenticator!vars,
         AP!vars, Authenticator!IsExpired, AP!IsExpired,
         Authenticator!NoExpiry, AP!NoExpiry,
         Authenticator!ExpiresAtField, AP!ExpiresAtField,
         Authenticator!AbsentField, AP!AbsentField
    <2>3. QED
      BY <2>1, <2>2, NextRefines, PcTypeInvariant, PTL DEF Spec, AP!Spec
  <1>2. AP!Spec => [](AP!InFlightOnlyWhenExpired /\ AP!SingleRefreshInFlight)
    <2>1. AP!AuthAssumption
      BY ClientAuthAssumption DEF A!AuthAssumption, AP!AuthAssumption
    <2>2. QED
      BY <2>1, AP!RefreshOnlyWhenExpired, AP!OneRefreshAtATime, PTL
  <1>3. AP!InFlightOnlyWhenExpired /\ AP!SingleRefreshInFlight => ClientRefreshDiscipline
    BY DEF AP!InFlightOnlyWhenExpired, AP!SingleRefreshInFlight, ClientRefreshDiscipline,
           AuthPc, A!AuthLabels, AP!IsExpired, A!IsExpired, AP!NoExpiry, A!NoExpiry
  <1>4. QED
    BY <1>1, <1>2, <1>3, PTL

-----------------------------------------------------------------------------
(***************************************************************************)
(*                 Which exceptions can leave the engine                  *)
(***************************************************************************)

(***************************************************************************)
(* The transport raises no httpx error other than a timeout or a network  *)
(* error.  Any other TransportError escapes raw (run client_raw_exception).*)
(***************************************************************************)
NoStrayTransportErrors ==
    \A resp \in Responses : resp.kind # "protocol"

\* What _handle_error raises is a class of the taxonomy, whatever the status.
LEMMA HandleErrorKind ==
  ASSUME NEW resp
  PROVE  HandleError(resp).kind \in TaxonomyKinds
  BY DEF HandleError, FixedError, Error, TaxonomyKinds

\* So is what the loop raises once its last retried attempt failed.
LEMMA GiveUpErrorKind ==
  ASSUME NEW resp
  PROVE  GiveUpError(resp).kind \in TaxonomyKinds
  BY HandleErrorKind DEF GiveUpError, Error, TaxonomyKinds

(***************************************************************************)
(* A successful response gives a value, or the GotrsError of a success-   *)
(* false envelope; with a model_class it gives pydantic's error only for  *)
(* data the model rejects.                                                 *)
(***************************************************************************)
LEMMA DeliverKind ==
  ASSUME ModelAcceptsData, NEW r, call[r] \in Calls, NEW resp \in Responses
  PROVE  Deliver(r, resp).kind \in ValueKinds \cup TaxonomyKinds
  <1>1. call[r] = "model" => resp.body # "env_bad"
    BY DEF ModelAcceptsData
  <1>2. QED
    BY <1>1 DEF Deliver, ExtractData, Value, Error, RawValidationError, ValueKinds,
                TaxonomyKinds

TaxIInv == call \in [Requests -> Calls] /\ DOMAIN result = Requests /\ OnlyTaxonomyErrors

\* Each way a request can end stores a value or a class of the taxonomy.
LEMMA NextTaxIInv ==
  ASSUME NoStrayTransportErrors, ModelAcceptsData, TaxIInv, PcType, [Next]_vars
  PROVE  TaxIInv'
  <1> USE DEF TaxIInv, OnlyTaxonomyErrors, PcType
  \* A step that ends request r with res, and leaves the others alone.
  <1>1. ASSUME NEW r \in Requests, NEW res, res.kind \in ValueKinds \cup TaxonomyKinds,
               Finish(r, res), call' = call
        PROVE  TaxIInv'
    BY <1>1 DEF Finish
  <1>2. ASSUME NEW r \in Requests, AuthFailed(r) PROVE TaxIInv'
    BY <1>2, <1>1 DEF AuthFailed, Error, TaxonomyKinds
  <1>3. ASSUME NEW r \in Requests, AttemptSucceeds(r) PROVE TaxIInv'
    <2>1. PICK resp \in Responses : Finish(r, Deliver(r, resp)) /\ call' = call
      BY <1>3 DEF AttemptSucceeds
    <2>2. Deliver(r, resp).kind \in ValueKinds \cup TaxonomyKinds
      BY DeliverKind
    <2>3. QED
      BY <2>1, <2>2, <1>1
  <1>4. ASSUME NEW r \in Requests, AttemptClientError(r) PROVE TaxIInv'
    <2>1. PICK resp \in Responses : Finish(r, HandleError(resp)) /\ call' = call
      BY <1>4 DEF AttemptClientError
    <2>2. QED
      BY <2>1, <1>1, HandleErrorKind
  <1>5. ASSUME NEW r \in Requests, AttemptGiveUp(r) PROVE TaxIInv'
    <2>1. PICK resp \in Responses : Finish(r, GiveUpError(resp)) /\ call' = call
      BY <1>5 DEF AttemptGiveUp
    <2>2. QED
      BY <2>1, <1>1, GiveUpErrorKind
  <1>6. ASSUME NEW r \in Requests, AttemptRaw(r) PROVE FALSE
    BY <1>6 DEF AttemptRaw, NoStrayTransportErrors
  <1>7. ASSUME NEW r \in Requests, StartFresh(r) \/ StartExpired(r) \/ Refresh(r)
                                  \/ AttemptRetry(r) \/ Wake(r)
        PROVE  TaxIInv'
    <2>1. /\ result' = result /\ call' = call
          /\ pc'[r] # "done"
          /\ \A q \in Requests : q # r => pc'[q] = pc[q]
      <3>1. CASE Refresh(r)
        <4>1. PICK l \in A!AuthLabels : pc' = [pc EXCEPT ![r] = l]
          BY <3>1, RefreshLabels DEF Refresh
        <4>2. QED
          BY <3>1, <4>1 DEF Refresh, A!AuthLabels
      <3>2. QED
        BY <1>7, <3>1 DEF StartFresh, StartExpired, AttemptRetry, Wake, reqVars
    <2>2. QED
      BY <2>1
  <1>8. CASE Tick \/ UNCHANGED vars
    BY <1>8 DEF Tick, vars
  <1>9. QED
    BY <1>2, <1>3, <1>4, <1>5, <1>6, <1>7, <1>8 DEF Next, Request

(***************************************************************************)
(* The two leaks of the taxonomy are the only ones: when the transport    *)
(* raises no httpx error but timeouts and network errors, and a model     *)
(* accepts every success envelope, every verb of the engine returns a     *)
(* value or raises a GotrsError class (spec section 7), whatever the      *)
(* statuses, retries and concurrent refreshes.                            *)
(***************************************************************************)
THEOREM TaxonomyOnlyErrors ==
  ASSUME NoStrayTransportErrors, ModelAcceptsData
  PROVE  Spec => []OnlyTaxonomyErrors
  <1>1. Init => TaxIInv
    BY DEF Init, TaxIInv, OnlyTaxonomyErrors
  <1>2. TaxIInv /\ PcType /\ [Next]_vars => TaxIInv'
    BY NextTaxIInv
  <1>3. QED
    BY <1>1, <1>2, PcTypeInvariant, PTL DEF Spec, TaxIInv

====
