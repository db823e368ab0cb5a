----------------------------- MODULE AuthProofs -----------------------------
(***************************************************************************)
(* Proofs about the double-checked refresh of module Auth, for every set   *)
(* of coroutines, every buffer, lifetime set and token bound.              *)
(***************************************************************************)
EXTENDS Auth, TLAPS

(***************************************************************************)
(* The inductive invariant.  InFlightOnlyWhenExpired alone is not          *)
(* inductive: a coroutine finishing its refresh could make the credential  *)
(* valid while another is still "calling".  LockHeld rules that out: only  *)
(* the lock holder is calling, so at most one coroutine is.                *)
(***************************************************************************)
IInv == TypeOK /\ LockHeld /\ InFlightOnlyWhenExpired

LEMMA InitIInv == Init => IInv
  <1> SUFFICES ASSUME Init PROVE IInv
    OBVIOUS
  <1>1. TypeOK
    BY AuthAssumption DEF Init, TypeOK, TTLValues, Labels
  <1>2. LockHeld
    BY AuthAssumption DEF Init, LockHeld
  <1>3. InFlightOnlyWhenExpired
    BY DEF Init, InFlightOnlyWhenExpired
  <1>4. QED
    BY <1>1, <1>2, <1>3 DEF IInv

\* One time unit keeps an expired credential expired.
LEMMA AgeKeepsExpired ==
  ASSUME TypeOK, AgeCredential, IsExpired
  PROVE  IsExpired'
  BY AuthAssumption DEF TypeOK, AgeCredential, IsExpired, TTLValues, NoExpiry

LEMMA NextIInv == IInv /\ [Next]_vars => IInv'
  <1> SUFFICES ASSUME IInv, [Next]_vars PROVE IInv'
    OBVIOUS
  <1> USE AuthAssumption DEF IInv, TypeOK, LockHeld, InFlightOnlyWhenExpired,
                             Labels, AuthLabels, TTLValues, IsExpired, NoExpiry
  <1>1. ASSUME NEW c \in Coro, Call(c) PROVE IInv'
    BY <1>1 DEF Call, authVars
  <1>2. ASSUME NEW c \in Coro, Return(c) PROVE IInv'
    BY <1>2 DEF Return, authVars
  <1>3. CASE Tick
    <2>1. TypeOK'
      BY <1>3 DEF Tick, AgeCredential
    <2>2. LockHeld'
      BY <1>3 DEF Tick
    <2>3. InFlightOnlyWhenExpired'
      BY <1>3, AgeKeepsExpired DEF Tick
    <2>4. QED
      BY <2>1, <2>2, <2>3
  <1>4. ASSUME NEW c \in Coro, RefreshNoCredentials(c) PROVE IInv'
    BY <1>4 DEF RefreshNoCredentials, authVars
  <1>5. ASSUME NEW c \in Coro, RefreshEnter(c) PROVE IInv'
    BY <1>5 DEF RefreshEnter, authVars
  <1>6. ASSUME NEW c \in Coro, AcquireFresh(c) PROVE IInv'
    BY <1>6 DEF AcquireFresh, authVars
  <1>7. ASSUME NEW c \in Coro, AcquireCall(c) PROVE IInv'
    BY <1>7 DEF AcquireCall
  <1>8. ASSUME NEW c \in Coro, RefreshSucceeds(c) PROVE IInv'
    <2>1. PICK e \in ExpiresAtField : ttl' = IF e = AbsentField THEN ttl ELSE e
      BY <1>8 DEF RefreshSucceeds
    <2>2. TypeOK'
      BY <1>8, <2>1 DEF RefreshSucceeds, ExpiresAtField, AbsentField, NoExpiry
    <2>3. holder = c
      BY <1>8 DEF RefreshSucceeds
    <2>4. LockHeld' /\ InFlightOnlyWhenExpired'
      BY <1>8, <2>3 DEF RefreshSucceeds
    <2>5. QED
      BY <2>2, <2>4
  <1>9. ASSUME NEW c \in Coro, RefreshBadExpiry(c) PROVE IInv'
    <2>1. holder = c
      BY <1>9 DEF RefreshBadExpiry
    <2>2. QED
      BY <1>9, <2>1 DEF RefreshBadExpiry
  <1>10. ASSUME NEW c \in Coro, RefreshFails(c) PROVE IInv'
    <2>1. holder = c
      BY <1>10 DEF RefreshFails
    <2>2. QED
      BY <1>10, <2>1 DEF RefreshFails
  <1>11. CASE UNCHANGED vars
    BY <1>11 DEF vars, IsExpired
  <1>12. QED
    BY <1>1, <1>2, <1>3, <1>4, <1>5, <1>6, <1>7, <1>8, <1>9, <1>10, <1>11
       DEF Next, RefreshStep

(***************************************************************************)
(* Type correctness of the authenticator's state.                          *)
(***************************************************************************)
THEOREM TypeCorrect == Spec => []TypeOK
  <1>1. IInv => TypeOK
    BY DEF IInv
  <1>2. QED
    BY <1>1, InitIInv, NextIInv, PTL DEF Spec

(***************************************************************************)
(* The refresh lock of line 96 is released on every exit of refresh(),    *)
(* the exception paths of lines 102-115 included: for any number of       *)
(* coroutines it is held exactly by the one awaiting refresh_function.    *)
(***************************************************************************)
THEOREM LockReleasedOnEveryExit == Spec => []LockHeld
  <1>1. IInv => LockHeld
    BY DEF IInv
  <1>2. QED
    BY <1>1, InitIInv, NextIInv, PTL DEF Spec

(***************************************************************************)
(* The double-checked refresh of JWTAuth.refresh / OAuth2Auth.refresh:    *)
(* whenever refresh_function is in flight the stored credential is        *)
(* expired, so no coroutine replaces a credential another has just made   *)
(* valid, for any number of coroutines.                                    *)
(***************************************************************************)
THEOREM RefreshOnlyWhenExpired == Spec => []InFlightOnlyWhenExpired
  <1>1. IInv => InFlightOnlyWhenExpired
    BY DEF IInv
  <1>2. QED
    BY <1>1, InitIInv, NextIInv, PTL DEF Spec

(***************************************************************************)
(* The refresh lock of JWTAuth.refresh / OAuth2Auth.refresh serialises    *)
(* the refreshes: at most one coroutine awaits refresh_function at a     *)
(* time, for any number of coroutines.  LockHeld, part of the inductive   *)
(* invariant, ties every such coroutine to the one lock holder.           *)
(***************************************************************************)
THEOREM OneRefreshAtATime == Spec => []SingleRefreshInFlight
  <1>1. IInv => SingleRefreshInFlight
    BY DEF IInv, LockHeld, SingleRefreshInFlight
  <1>2. QED
    BY <1>1, InitIInv, NextIInv, PTL DEF Spec

=============================================================================
