------------------------- MODULE AuthTokenKeyProofs -------------------------
(***************************************************************************)
(* Proofs about the auth-token key for the deployed app: calls run one at *)
(* a time (a single caller) and auth_token_key_initialized_ starts false.  *)
(* With two callers the latch can be set over a buffer a failing          *)
(* GetHmacKey overwrote (the AuthTokenKey_race and _multi runs).          *)
(***************************************************************************)
EXTENDS AuthTokenKey, TLAPS

USE AuthKeyAssumption

(* The deployed configuration.                                             *)
Deployed ==
  /\ InitLatched = FALSE
  /\ \A c, d \in Callers : c = d

(* The inductive invariant: a latched buffer and a buffer a call is about *)
(* to HMAC with hold the device key; a call only fetches the key and      *)
(* assigns the latch while it is not latched; and a call whose GetHmacKey  *)
(* succeeded finds the device key in the buffer when it sets the latch.    *)
IInv ==
  /\ TypeOK
  /\ latched => keyBuf = DeviceKey
  /\ \A c \in Callers : pc[c] = "hmac" => keyBuf = DeviceKey
  /\ \A c \in Callers : pc[c] \in {"fetch", "latch"} => ~latched
  /\ \A c \in Callers : pc[c] = "latch" /\ hmacOk[c] => keyBuf = DeviceKey
  /\ AuthKeyAuthentic

LEMMA InitIInv == ASSUME Deployed PROVE Init => IInv
BY DEF Deployed, Init, IInv, TypeOK, AuthKeyAuthentic, NoResult, Results, Keys

LEMMA RestartIInv ==
  ASSUME Deployed, IInv, Restart PROVE IInv'
<1>1. TypeOK'
  <2>1. boot' \in 1..MaxBoots
    BY DEF IInv, Restart, TypeOK
  <2>2. latched' \in BOOLEAN
    BY Zenon DEF Deployed, Restart
  <2>3. keyBuf' \in Keys /\ pc' \in [Callers -> {"idle", "fetch", "latch", "hmac"}]
    BY DEF Restart, Keys
  <2>4. /\ call' \in [Callers -> Calls] /\ result' \in [Callers -> Results]
        /\ hmacOk' \in [Callers -> BOOLEAN]
    BY DEF IInv, Restart, TypeOK
  <2>5. QED
    BY Zenon, <2>1, <2>2, <2>3, <2>4 DEF TypeOK
<1>2. QED
  BY <1>1 DEF Deployed, IInv, Restart, AuthKeyAuthentic

LEMMA BeginIInv ==
  ASSUME IInv, NEW c \in Callers, NEW cl \in Calls, Begin(c, cl) PROVE IInv'
<1>1. CASE ~latched
  BY <1>1 DEF IInv, Begin, TypeOK, AuthKeyAuthentic
<1>2. CASE latched /\ cl.op = "GetAuthTokenKey"
  <2>1. Finish(c, "OK", keyBuf) /\ call' = [call EXCEPT ![c] = cl]
    BY <1>2 DEF Begin
  <2>2. keyBuf = DeviceKey /\ UNCHANGED <<boot, latched, keyBuf, hmacOk>>
    BY <1>2 DEF Begin, IInv
  <2>3. TypeOK'
    BY <2>1, <2>2 DEF Finish, IInv, TypeOK, Results, Calls
  <2>4. AuthKeyAuthentic'
    BY <2>1, <2>2 DEF Finish, IInv, TypeOK, AuthKeyAuthentic
  <2>5. QED
    BY <1>2, <2>1, <2>2, <2>3, <2>4 DEF Finish, IInv
<1>3. CASE latched /\ cl.op # "GetAuthTokenKey"
  BY <1>3 DEF IInv, Begin, TypeOK, AuthKeyAuthentic
<1>4. QED
  BY <1>1, <1>2, <1>3

LEMMA GetHmacKeyIInv ==
  ASSUME Deployed, IInv, NEW c \in Callers, NEW ok \in BOOLEAN, GetHmacKey(c, ok)
  PROVE  IInv'
<1>1. \A d \in Callers : d = c
  BY DEF Deployed
<1>2. keyBuf' \in Keys /\ (ok => keyBuf' = DeviceKey) /\ ~latched
  BY DEF GetHmacKey, IInv, TypeOK, Keys
<1>3. pc' = [pc EXCEPT ![c] = "latch"] /\ hmacOk' = [hmacOk EXCEPT ![c] = ok]
  BY DEF GetHmacKey
<1>4. QED
  BY <1>1, <1>2, <1>3 DEF GetHmacKey, IInv, TypeOK, AuthKeyAuthentic

LEMMA LatchResultIInv ==
  ASSUME Deployed, IInv, NEW c \in Callers, LatchResult(c) PROVE IInv'
<1>1. \A d \in Callers : d = c
  BY DEF Deployed
<1>2. latched' = hmacOk[c] /\ UNCHANGED <<boot, keyBuf, call, hmacOk>>
  BY DEF LatchResult
<1>3. CASE hmacOk[c]
  <2>1. keyBuf = DeviceKey
    BY <1>3 DEF IInv, LatchResult
  <2>2. CASE call[c].op = "GetAuthTokenKey"
    BY <1>1, <1>2, <1>3, <2>1, <2>2 DEF LatchResult, Finish, IInv, TypeOK, AuthKeyAuthentic,
                                      Results, Calls
  <2>3. CASE call[c].op # "GetAuthTokenKey"
    <3>1. pc' = [pc EXCEPT ![c] = "hmac"] /\ UNCHANGED result
      BY <1>3, <2>3 DEF LatchResult
    <3>2. QED
      BY <1>1, <1>2, <1>3, <2>1, <3>1 DEF IInv, TypeOK, AuthKeyAuthentic
  <2>4. QED
    BY <2>2, <2>3
<1>4. CASE ~hmacOk[c]
  <2>1. Finish(c, "UNKNOWN_ERROR", keyBuf)
    BY <1>4 DEF LatchResult
  <2>2. latched' = FALSE
    BY <1>2, <1>4 DEF IInv, TypeOK
  <2>3. QED
    BY <1>1, <1>2, <2>1, <2>2 DEF Finish, IInv, TypeOK, AuthKeyAuthentic, Results, Calls
<1>5. QED
  BY <1>3, <1>4

LEMMA HmacIInv ==
  ASSUME IInv, NEW c \in Callers, NEW hashOk \in BOOLEAN, Hmac(c, hashOk) PROVE IInv'
<1>1. keyBuf = DeviceKey
  BY DEF IInv, Hmac
<1>2. QED
  BY <1>1 DEF IInv, Hmac, Finish, TypeOK, AuthKeyAuthentic, Results, Calls

LEMMA StepIInv == ASSUME Deployed PROVE IInv /\ [Next]_vars => IInv'
<1> SUFFICES ASSUME IInv, [Next]_vars PROVE IInv'
  OBVIOUS
<1>1. CASE Restart
  BY <1>1, RestartIInv
<1>2. ASSUME NEW c \in Callers, NEW cl \in Calls, Begin(c, cl) PROVE IInv'
  BY <1>2, BeginIInv
<1>3. ASSUME NEW c \in Callers, NEW ok \in BOOLEAN, GetHmacKey(c, ok) PROVE IInv'
  BY <1>3, GetHmacKeyIInv
<1>4. ASSUME NEW c \in Callers, LatchResult(c) PROVE IInv'
  BY <1>4, LatchResultIInv
<1>5. ASSUME NEW c \in Callers, NEW hashOk \in BOOLEAN, Hmac(c, hashOk) PROVE IInv'
  BY <1>5, HmacIInv
<1>6. CASE UNCHANGED vars
  BY <1>6 DEF vars, IInv, TypeOK, AuthKeyAuthentic
<1>7. QED
  BY <1>1, <1>2, <1>3, <1>4, <1>5, <1>6 DEF Next

(* In the deployed app, for any sets of messages and bound on restarts:    *)
(* GetAuthTokenKey only hands out, and CheckConfirmationToken only accepts *)
(* a token under, the device key, never a buffer GetHmacKey failed to fill.*)
THEOREM AuthKeyOnlyDevice ==
  ASSUME Deployed PROVE Spec => [](TypeOK /\ AuthKeyAuthentic)
<1>1. IInv => TypeOK /\ AuthKeyAuthentic
  BY DEF IInv
<1>2. QED
  BY <1>1, InitIInv, StepIInv, PTL DEF Spec

(* In the deployed app the key, once latched, is neither unlatched nor     *)
(* rewritten before the next restart (spec 5, "cached-forever").           *)
THEOREM KeyLatchedForRun ==
  ASSUME Deployed PROVE Spec => KeyCachedForever
<1>1. IInv /\ [Next]_vars => [latched /\ boot' = boot => latched' /\ keyBuf' = keyBuf]_vars
  <2> SUFFICES ASSUME IInv, [Next]_vars, latched, boot' = boot
               PROVE  (latched' /\ keyBuf' = keyBuf) \/ UNCHANGED vars
    OBVIOUS
  <2>1. CASE Restart
    BY <2>1 DEF Restart
  <2>2. ASSUME NEW c \in Callers, NEW cl \in Calls, Begin(c, cl) PROVE latched' /\ keyBuf' = keyBuf
    BY <2>2 DEF Begin
  <2>3. ASSUME NEW c \in Callers, NEW ok \in BOOLEAN, GetHmacKey(c, ok) PROVE FALSE
    BY <2>3 DEF GetHmacKey, IInv
  <2>4. ASSUME NEW c \in Callers, LatchResult(c) PROVE FALSE
    BY <2>4 DEF LatchResult, IInv
  <2>5. ASSUME NEW c \in Callers, NEW hashOk \in BOOLEAN, Hmac(c, hashOk)
        PROVE latched' /\ keyBuf' = keyBuf
    BY <2>5 DEF Hmac
  <2>6. QED
    BY <2>1, <2>2, <2>3, <2>4, <2>5 DEF Next
<1>2. QED
  BY <1>1, InitIInv, StepIInv, PTL DEF Spec, KeyCachedForever

=============================================================================
