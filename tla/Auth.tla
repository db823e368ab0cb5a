-------------------------------- MODULE Auth --------------------------------
(***************************************************************************)
(* The refreshable authenticators of the SDK, JWTAuth and OAuth2Auth       *)
(* (src/sdk/python/gotrs_sdk/auth.py).  The two classes have the same      *)
(* refresh code and differ only in the header they render, so one module   *)
(* models both.  Several coroutines of one event loop share the instance;  *)
(* each may call refresh(), which checks its preconditions outside the     *)
(* lock, takes the asyncio.Lock, re-checks is_expired() and, if still      *)
(* expired, awaits the caller-supplied refresh_function while holding the  *)
(* lock.                                                                   *)
(*                                                                         *)
(* Time is abstracted to ttl = expires_at - now, in model time units and   *)
(* clipped at 0: is_expired() only depends on that difference.  An access  *)
(* token is abstracted to a version number, bumped by every assignment of  *)
(* self.token; refresh_token is TRUE when self.refresh_token is truthy.    *)
(***************************************************************************)
EXTENDS Integers

CONSTANTS
    Coro,               \* coroutines sharing the authenticator
    NoHolder,           \* the lock holder when the lock is free
    Buffer,             \* the 60 s safety buffer of is_expired, in time units
    MaxTTL,             \* largest remaining lifetime the model distinguishes
    Lifetimes,          \* lifetimes (expires_at - now) a refresh may return
    MaxToken,           \* bound on the number of access tokens assigned
    HasRefreshFunction  \* whether a refresh_function was given

ASSUME AuthAssumption ==
    /\ NoHolder \notin Coro
    /\ Buffer \in Nat
    /\ MaxTTL \in Nat
    /\ Lifetimes \subseteq 0..MaxTTL
    /\ MaxToken \in Nat
    /\ HasRefreshFunction \in BOOLEAN

VARIABLES
    token,          \* version of self.token / self.access_token
    refresh_token,  \* TRUE iff self.refresh_token is truthy
    ttl,            \* self.expires_at - now, or NoExpiry when it is None
    holder,         \* owner of self._refresh_lock, or NoHolder
    pc              \* where each coroutine is

authVars == <<token, refresh_token, ttl, holder>>
vars == <<token, refresh_token, ttl, holder, pc>>

\* expires_at is None
NoExpiry == -1

\* A refresh result without an "expires_at" key
AbsentField == -2

\* The values the "expires_at" field of a refresh result can carry: absent,
\* None, or a valid timestamp `lifetime' units from now.
ExpiresAtField == {AbsentField, NoExpiry} \cup Lifetimes

\* Control points of refresh(): entered, waiting for the lock, awaiting
\* refresh_function with the lock held, returned, raised AuthenticationError.
AuthLabels == {"refresh", "acquire", "calling", "refreshed", "auth_error"}

\* Control points of the callers of refresh().
Labels == {"idle"} \cup AuthLabels

TTLValues == {NoExpiry} \cup 0..MaxTTL

(***************************************************************************)
(* is_expired(): no expiry never expires; otherwise expired when           *)
(* expires_at <= now + 60, i.e. ttl <= Buffer (the buffer is inclusive).   *)
(***************************************************************************)
IsExpired == ttl # NoExpiry /\ ttl <= Buffer

\* The effect of one time unit passing on the stored expiry.
AgeCredential == ttl' = IF ttl > 0 THEN ttl - 1 ELSE ttl

(***************************************************************************)
(* refresh(), line 93: no refresh_function or no refresh_token raises      *)
(* AuthenticationError before the lock is touched.                         *)
(***************************************************************************)
RefreshNoCredentials(c) ==
    /\ pc[c] = "refresh"
    /\ ~HasRefreshFunction \/ ~refresh_token
    /\ pc' = [pc EXCEPT ![c] = "auth_error"]
    /\ UNCHANGED authVars

RefreshEnter(c) ==
    /\ pc[c] = "refresh"
    /\ HasRefreshFunction /\ refresh_token
    /\ pc' = [pc EXCEPT ![c] = "acquire"]
    /\ UNCHANGED authVars

(***************************************************************************)
(* Lines 96-99: the lock is taken, is_expired() re-checked; a credential   *)
(* refreshed meanwhile makes refresh() return, releasing the lock at once. *)
(***************************************************************************)
AcquireFresh(c) ==
    /\ pc[c] = "acquire"
    /\ holder = NoHolder
    /\ ~IsExpired
    /\ pc' = [pc EXCEPT ![c] = "refreshed"]
    /\ UNCHANGED authVars

\* Mutant: the re-check after taking the lock is dropped.
AcquireCallNoRecheck(c) ==
    /\ pc[c] = "acquire"
    /\ holder = NoHolder
    /\ holder' = c
    /\ pc' = [pc EXCEPT ![c] = "calling"]
    /\ UNCHANGED <<token, refresh_token, ttl>>

\* Mutant: the lock is not awaited, only the expiry re-checked.
AcquireCallNoLock(c) ==
    /\ pc[c] = "acquire"
    /\ IsExpired
    /\ holder' = c
    /\ pc' = [pc EXCEPT ![c] = "calling"]
    /\ UNCHANGED <<token, refresh_token, ttl>>

\* Lines 96-102: still expired, so refresh_function is awaited under the lock.
AcquireCall(c) ==
    /\ pc[c] = "acquire"
    /\ holder = NoHolder
    /\ IsExpired
    /\ holder' = c
    /\ pc' = [pc EXCEPT ![c] = "calling"]
    /\ UNCHANGED <<token, refresh_token, ttl>>

(***************************************************************************)
(* Lines 102-112: refresh_function returned a mapping with access_token.   *)
(* self.token is replaced, self.refresh_token takes the result's value     *)
(* (kept when absent, possibly None), and expires_at is replaced only when *)
(* the key is present.  The lock is released on return.                    *)
(***************************************************************************)
RefreshSucceeds(c) ==
    /\ pc[c] = "calling"
    /\ token < MaxToken
    /\ token' = token + 1
    /\ refresh_token' \in BOOLEAN
    /\ \E e \in ExpiresAtField : ttl' = IF e = AbsentField THEN ttl ELSE e
    /\ holder' = NoHolder
    /\ pc' = [pc EXCEPT ![c] = "refreshed"]

\* Mutant: the lock is released by hand and not on the exception path.
RefreshBadExpiryKeepsLock(c) ==
    /\ pc[c] = "calling"
    /\ token < MaxToken
    /\ token' = token + 1
    /\ refresh_token' \in BOOLEAN
    /\ pc' = [pc EXCEPT ![c] = "auth_error"]
    /\ UNCHANGED <<ttl, holder>>

(***************************************************************************)
(* Lines 103-108, 114-115: expires_at is a string fromisoformat rejects.   *)
(* token and refresh_token were already assigned; expires_at keeps its old *)
(* value and the ValueError is re-raised as AuthenticationError.           *)
(***************************************************************************)
RefreshBadExpiry(c) ==
    /\ pc[c] = "calling"
    /\ token < MaxToken
    /\ token' = token + 1
    /\ refresh_token' \in BOOLEAN
    /\ holder' = NoHolder
    /\ pc' = [pc EXCEPT ![c] = "auth_error"]
    /\ UNCHANGED ttl

\* Mutant: the lock is not released when refresh_function raises.
RefreshFailsKeepsLock(c) ==
    /\ pc[c] = "calling"
    /\ pc' = [pc EXCEPT ![c] = "auth_error"]
    /\ UNCHANGED <<token, refresh_token, ttl, holder>>

\* Lines 102, 114-115: refresh_function raised, or its result had no
\* access_token: nothing is assigned and AuthenticationError is raised.
RefreshFails(c) ==
    /\ pc[c] = "calling"
    /\ holder' = NoHolder
    /\ pc' = [pc EXCEPT ![c] = "auth_error"]
    /\ UNCHANGED <<token, refresh_token, ttl>>

\* The steps of one call of refresh() by coroutine c.
RefreshStep(c) ==
    \/ RefreshNoCredentials(c)
    \/ RefreshEnter(c)
    \/ AcquireFresh(c)
    \/ AcquireCall(c)
    \/ RefreshSucceeds(c)
    \/ RefreshBadExpiry(c)
    \/ RefreshFails(c)

(***************************************************************************)
(* The environment of the component on its own: any coroutine may call    *)
(* refresh() at any time and come back later, and time passes.             *)
(***************************************************************************)
Call(c) ==
    /\ pc[c] = "idle"
    /\ pc' = [pc EXCEPT ![c] = "refresh"]
    /\ UNCHANGED authVars

Return(c) ==
    /\ pc[c] \in {"refreshed", "auth_error"}
    /\ pc' = [pc EXCEPT ![c] = "idle"]
    /\ UNCHANGED authVars

\* Time passes; it always can.
Tick ==
    /\ AgeCredential
    /\ UNCHANGED <<token, refresh_token, holder, pc>>

(***************************************************************************)
(* Initial states: the constructor's arguments.  token, refresh_token and  *)
(* expires_at are whatever the caller passed.                              *)
(***************************************************************************)
Init ==
    /\ token = 0
    /\ refresh_token \in BOOLEAN
    /\ ttl \in TTLValues
    /\ holder = NoHolder
    /\ pc = [c \in Coro |-> "idle"]

Next ==
    \/ \E c \in Coro : Call(c) \/ RefreshStep(c) \/ Return(c)
    \/ Tick

(***************************************************************************)
(* asyncio.Lock wakes its waiters in FIFO order, so a coroutine waiting    *)
(* for a lock that keeps being released gets it: strong fairness on the   *)
(* acquisition.  refresh_function is assumed to return (weak fairness).    *)
(***************************************************************************)
Fairness ==
    \A c \in Coro :
        /\ SF_vars(AcquireFresh(c) \/ AcquireCall(c))
        /\ WF_vars(RefreshNoCredentials(c) \/ RefreshEnter(c))
        /\ WF_vars(RefreshSucceeds(c) \/ RefreshBadExpiry(c) \/ RefreshFails(c))

Spec == Init /\ [][Next]_vars
FairSpec == Spec /\ Fairness

-----------------------------------------------------------------------------
(***************************************************************************)
(*                              Properties                                 *)
(***************************************************************************)

TypeOK ==
    /\ token \in 0..MaxToken
    /\ refresh_token \in BOOLEAN
    /\ ttl \in TTLValues
    /\ holder \in Coro \cup {NoHolder}
    /\ pc \in [Coro -> Labels]

(***************************************************************************)
(* `async with self._refresh_lock' (line 96) is released on every way out *)
(* of the block: the return at line 99, the success of lines 102-112, and *)
(* the exceptions of lines 102-108, including the one fromisoformat raises *)
(* after token and refresh_token were already assigned.  So the lock is   *)
(* held exactly by the coroutine awaiting refresh_function.               *)
(***************************************************************************)
LockHeld ==
    \A c \in Coro : holder = c <=> pc[c] = "calling"

(***************************************************************************)
(* The refresh lock of line 96 serialises the refreshes: however many     *)
(* coroutines find the credential expired, at most one awaits             *)
(* refresh_function at a time.                                            *)
(***************************************************************************)
SingleRefreshInFlight ==
    \A c, d \in Coro : pc[c] = "calling" /\ pc[d] = "calling" => c = d

(***************************************************************************)
(* Double-checked refresh (auth.py lines 96-102): while refresh_function   *)
(* is in flight the stored credential is expired, so no coroutine ever     *)
(* replaces a credential another coroutine has just made valid.  Breaking  *)
(* it takes two coroutines and a dropped lock or re-check.                 *)
(***************************************************************************)
InFlightOnlyWhenExpired ==
    \A c \in Coro : pc[c] = "calling" => IsExpired

(***************************************************************************)
(* The guard of line 93 is meant to keep refresh_function from being      *)
(* called without a refresh token ("No refresh function or refresh token  *)
(* available").  It is evaluated before the lock is taken.                *)
(***************************************************************************)
NeverRefreshWithoutToken ==
    \A c \in Coro : pc[c] = "calling" => refresh_token

(***************************************************************************)
(* The design's double-check promise: once a refresh has succeeded the     *)
(* authenticator is no longer expired, so the coroutines queued on the    *)
(* lock find is_expired() false and return without refreshing again.      *)
(***************************************************************************)
RefreshClearsExpiry ==
    [][\A c \in Coro : RefreshSucceeds(c) => ~IsExpired']_vars

\* Every call of refresh() returns or raises.
RefreshTerminates ==
    \A c \in Coro : pc[c] = "refresh" ~> pc[c] \in {"refreshed", "auth_error"}

=============================================================================
