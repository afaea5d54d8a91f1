---------------------------- MODULE AuthTokenKey ----------------------------
(***************************************************************************)
(* The auth-token key of TrustyKeymasterContext                            *)
(* (src/trusty_keymaster_context.cpp): InitializeAuthTokenKey,              *)
(* GetAuthTokenKey and CheckConfirmationToken.                             *)
(*                                                                         *)
(* The key lives in the member buffer auth_token_key_, written in place by *)
(* the enforcement policy's GetHmacKey, and is latched by                  *)
(* auth_token_key_initialized_.  GetAuthTokenKey hands out a pointer to   *)
(* that buffer, and CheckConfirmationToken computes its HMAC through the   *)
(* pointer.  A call is split where another caller can run in between: the *)
(* test of the latch, GetHmacKey's write of the buffer, the latch          *)
(* assignment with InitializeAuthTokenKey's return, and the HMAC over the  *)
(* buffer.  With one caller the steps of a call follow each other as in   *)
(* the deployed single-threaded app; with two, they are the racing first  *)
(* calls spec section 5 asks the latch to survive.                         *)
(***************************************************************************)
EXTENDS Naturals

CONSTANTS
  Callers,        \* threads calling into the context
  DeviceKey,      \* the HMAC key GetHmacKey returns
  Garbage,        \* what an unwritten or half-written buffer holds
  Messages,       \* caller-supplied input_data
  InitLatched,    \* auth_token_key_initialized_ at construction
  MaxBoots        \* bound on app restarts

ASSUME AuthKeyAssumption ==
  /\ DeviceKey # Garbage
  /\ InitLatched \in BOOLEAN
  /\ MaxBoots \in Nat \ {0}

VARIABLES
  boot,       \* the run of the app: a restart constructs a new context
  latched,    \* auth_token_key_initialized_
  keyBuf,     \* the contents of auth_token_key_
  pc,         \* pc[c]: where caller c is in its current call
  call,       \* call[c]: the operation and arguments of c's current call
  result,     \* result[c]: what c's last finished call returned
  hmacOk      \* hmacOk[c]: GetHmacKey returned KM_ERROR_OK to caller c

vars == <<boot, latched, keyBuf, pc, call, result, hmacOk>>

Keys == {DeviceKey, Garbage}

(* HMAC(EVP_sha256(), key, input_data): a tag only that key produces.      *)
HMAC(k, m) == <<k, m>>

(* A confirmation token a caller may present: made by the confirmation UI *)
(* with the device key, or with any other key.                             *)
Tokens == {HMAC(k, m) : k \in Keys, m \in Messages}

Calls == [op : {"GetAuthTokenKey", "CheckConfirmationToken"}, msg : Messages, tok : Tokens]

NoResult == [op |-> "none", code |-> "none", key |-> Garbage]

Results == [op : {"none", "GetAuthTokenKey", "CheckConfirmationToken"},
            code : {"none", "OK", "UNKNOWN_ERROR", "NO_USER_CONFIRMATION"}, key : Keys]

(* The constructor leaves auth_token_key_ unwritten.                       *)
Init ==
  /\ boot = 1
  /\ latched = InitLatched
  /\ keyBuf = Garbage
  /\ pc = [c \in Callers |-> "idle"]
  /\ call \in [Callers -> Calls]
  /\ result = [c \in Callers |-> NoResult]
  /\ hmacOk = [c \in Callers |-> FALSE]

(* The app restarts: a fresh context; calls in flight are gone.            *)
Restart ==
  /\ boot < MaxBoots
  /\ boot' = boot + 1
  /\ latched' = InitLatched
  /\ keyBuf' = Garbage
  /\ pc' = [c \in Callers |-> "idle"]
  /\ UNCHANGED <<call, result, hmacOk>>

(* Caller c's call ends with code; the key is what the caller got back.   *)
Finish(c, code, key) ==
  /\ pc' = [pc EXCEPT ![c] = "idle"]
  /\ result' = [result EXCEPT ![c] = [op |-> call[c].op, code |-> code, key |-> key]]

(* Mutant: the two tests of GetAuthTokenKey joined by || instead of &&:  *)
(* an unlatched key is reported missing without a call of GetHmacKey.     *)
BeginNoInitialize(c, cl) ==
  /\ pc[c] = "idle"
  /\ call' = [call EXCEPT ![c] = cl]
  /\ IF ~latched
       THEN Finish(c, "UNKNOWN_ERROR", keyBuf)
     ELSE IF cl.op = "GetAuthTokenKey"
       THEN Finish(c, "OK", keyBuf)
     ELSE pc' = [pc EXCEPT ![c] = "hmac"] /\ UNCHANGED result
  /\ UNCHANGED <<boot, latched, keyBuf, hmacOk>>

(* Mutant: the latch is not tested, the key is fetched on every call.     *)
BeginNoLatchTest(c, cl) ==
  /\ pc[c] = "idle"
  /\ call' = [call EXCEPT ![c] = cl]
  /\ pc' = [pc EXCEPT ![c] = "fetch"]
  /\ UNCHANGED <<boot, latched, keyBuf, result, hmacOk>>

(* GetAuthTokenKey, or CheckConfirmationToken entering it: a latched key  *)
(* is used at once; otherwise InitializeAuthTokenKey, whose own test of    *)
(* the latch sees the same value, goes on to fetch it.                     *)
Begin(c, cl) ==
  /\ pc[c] = "idle"
  /\ call' = [call EXCEPT ![c] = cl]
  /\ IF ~latched
       THEN pc' = [pc EXCEPT ![c] = "fetch"] /\ UNCHANGED result
     ELSE IF cl.op = "GetAuthTokenKey"
       THEN Finish(c, "OK", keyBuf)
     ELSE pc' = [pc EXCEPT ![c] = "hmac"] /\ UNCHANGED result
  /\ UNCHANGED <<boot, latched, keyBuf, hmacOk>>

(* InitializeAuthTokenKey calls GetHmacKey, which writes the key straight *)
(* into auth_token_key_ (a failing one may have written part of it); its  *)
(* result stays in the caller's local error until the latch is assigned.  *)
GetHmacKey(c, ok) ==
  /\ pc[c] = "fetch"
  /\ \E written \in IF ok THEN {DeviceKey} ELSE {keyBuf, Garbage} :
       keyBuf' = written
  /\ hmacOk' = [hmacOk EXCEPT ![c] = ok]
  /\ pc' = [pc EXCEPT ![c] = "latch"]
  /\ UNCHANGED <<boot, latched, call, result>>

(* Mutant: the latch is set whatever GetHmacKey returned.                 *)
LatchResultAlways(c) ==
  /\ pc[c] = "latch"
  /\ latched' = TRUE
  /\ IF call[c].op = "GetAuthTokenKey"
       THEN Finish(c, "OK", keyBuf)
     ELSE pc' = [pc EXCEPT ![c] = "hmac"] /\ UNCHANGED result
  /\ UNCHANGED <<boot, keyBuf, call, hmacOk>>

(* The latch takes GetHmacKey's result and InitializeAuthTokenKey returns *)
(* the value it stored.  GetAuthTokenKey then fails with UNKNOWN_ERROR or *)
(* hands out the pointer to the buffer, whatever it holds by now.         *)
LatchResult(c) ==
  /\ pc[c] = "latch"
  /\ latched' = hmacOk[c]
  /\ IF ~hmacOk[c]
       THEN Finish(c, "UNKNOWN_ERROR", keyBuf)
     ELSE IF call[c].op = "GetAuthTokenKey"
       THEN Finish(c, "OK", keyBuf)
     ELSE pc' = [pc EXCEPT ![c] = "hmac"] /\ UNCHANGED result
  /\ UNCHANGED <<boot, keyBuf, call, hmacOk>>

(* CheckConfirmationToken after GetAuthTokenKey: HMAC over input_data with *)
(* the key the pointer reaches now; a failing HMAC is UNKNOWN_ERROR, a     *)
(* mismatch NO_USER_CONFIRMATION.  The SHA-256 tag always has the length   *)
(* kConfirmationTokenSize, so only the comparison can fail.                *)
Hmac(c, hashOk) ==
  /\ pc[c] = "hmac"
  /\ LET code == IF ~hashOk THEN "UNKNOWN_ERROR"
                 ELSE IF call[c].tok = HMAC(keyBuf, call[c].msg) THEN "OK"
                 ELSE "NO_USER_CONFIRMATION"
     IN  Finish(c, code, keyBuf)
  /\ UNCHANGED <<boot, latched, keyBuf, call, hmacOk>>

Next ==
  \/ Restart
  \/ \E c \in Callers :
       \/ \E cl \in Calls : Begin(c, cl)
       \/ \E ok \in BOOLEAN : GetHmacKey(c, ok)
       \/ LatchResult(c)
       \/ \E hashOk \in BOOLEAN : Hmac(c, hashOk)

(* Callers keep calling, and the enforcement policy's GetHmacKey does not *)
(* fail forever: a fetch that can succeed eventually does.                 *)
Fairness ==
  \A c \in Callers :
    /\ WF_vars(\E cl \in Calls : Begin(c, cl))
    /\ WF_vars(\E hashOk \in BOOLEAN : Hmac(c, hashOk))
    /\ WF_vars(LatchResult(c))
    /\ SF_vars(GetHmacKey(c, TRUE))

Spec == Init /\ [][Next]_vars /\ Fairness

-----------------------------------------------------------------------------
TypeOK ==
  /\ boot \in 1..MaxBoots
  /\ latched \in BOOLEAN
  /\ keyBuf \in Keys
  /\ pc \in [Callers -> {"idle", "fetch", "latch", "hmac"}]
  /\ call \in [Callers -> Calls]
  /\ result \in [Callers -> Results]
  /\ hmacOk \in [Callers -> BOOLEAN]

(* Whatever the interleaving of callers, a key GetAuthTokenKey hands out  *)
(* and a key CheckConfirmationToken accepts a token under is the device    *)
(* key, never the contents of a buffer GetHmacKey failed to fill.          *)
AuthKeyAuthentic ==
  \A c \in Callers : result[c].code = "OK" => result[c].key = DeviceKey

(* Spec 5 (latch exactly-once under racing first calls): with racing      *)
(* callers CheckConfirmationToken accepts a token only if it was made with *)
(* the device key, whatever another caller's GetHmacKey wrote meanwhile.   *)
ConfirmedUnderDeviceKey ==
  \A c \in Callers :
    result[c].op = "CheckConfirmationToken" /\ result[c].code = "OK"
      => result[c].key = DeviceKey

(* Spec 5: the auth-token key latch is exactly-once under racing first   *)
(* calls, so even with racing callers the buffer GetAuthTokenKey points    *)
(* at when it returns OK holds the device key.                            *)
HandedOutKeyAuthentic ==
  \A c \in Callers :
    result[c].op = "GetAuthTokenKey" /\ result[c].code = "OK" => result[c].key = DeviceKey

(* Spec 5 ("lazily-initialized, cached-forever"): within a run, once the  *)
(* key is latched it stays latched and the buffer is never rewritten.     *)
KeyCachedForever ==
  [][latched /\ boot' = boot => latched' /\ keyBuf' = keyBuf]_vars

(* The lazy initialisation retries: as long as GetHmacKey does not fail   *)
(* forever, the key ends up latched for good.                              *)
LatchEventuallyHeld == <>[]latched

=============================================================================
