---------------------------- MODULE KeyWrapProofs ----------------------------
(***************************************************************************)
(* Proofs about UnwrapKey for every transport key length: the masking XOR *)
(* undoes the producer's exactly when the masking keys agree, so UnwrapKey *)
(* yields key material exactly for an importable call.                    *)
(***************************************************************************)
EXTENDS KeyWrap, TLAPS

USE KeyWrapAssumption

(* Byte-wise XOR with the producer's masking key m is undone by XOR with  *)
(* m2 exactly when m2 = m.                                                 *)
LEMMA XorCancel ==
  ASSUME NEW n \in Nat, NEW t \in KeyBytes(n), NEW m \in KeyBytes(n), NEW m2 \in KeyBytes(n)
  PROVE  XorBytes(XorBytes(t, m), m2) = t <=> m2 = m
<1>1. XorBytes(XorBytes(t, m), m2) = [i \in 1..n |-> (((t[i] + m[i]) % 2) + m2[i]) % 2]
  BY DEF XorBytes, KeyBytes
<1>2. ASSUME NEW i \in 1..n
      PROVE  (((t[i] + m[i]) % 2) + m2[i]) % 2 = t[i] <=> m2[i] = m[i]
  <2>1. t[i] \in {0, 1} /\ m[i] \in {0, 1} /\ m2[i] \in {0, 1}
    BY DEF KeyBytes, Bytes
  <2>2. QED
    BY <2>1
<1>3. ASSUME XorBytes(XorBytes(t, m), m2) = t PROVE m2 = m
  <2>1. \A i \in 1..n : (((t[i] + m[i]) % 2) + m2[i]) % 2 = t[i]
    BY <1>1, <1>3 DEF KeyBytes
  <2>2. \A i \in 1..n : m2[i] = m[i]
    BY <2>1, <1>2
  <2>3. QED
    BY <2>2 DEF KeyBytes
<1>4. ASSUME m2 = m PROVE XorBytes(XorBytes(t, m), m2) = t
  <2>1. \A i \in 1..n : (((t[i] + m[i]) % 2) + m2[i]) % 2 = t[i]
    BY <1>2, <1>4
  <2>2. QED
    BY <1>1, <2>1 DEF KeyBytes
<1>5. QED
  BY <1>3, <1>4

(* A masking key of one more byte than the transport key is rejected.     *)
LEMMA LengthsDiffer ==
  ASSUME NEW n \in Nat \ {0}, NEW tk \in KeyBytes(n), NEW mk \in KeyBytes(n + 1)
  PROVE  DOMAIN tk # DOMAIN mk
<1>1. n + 1 \in DOMAIN mk /\ n + 1 \notin DOMAIN tk
  BY DEF KeyBytes
<1>2. QED
  BY <1>1

(* The shape of every result: a return code other than "none", and        *)
(* out-parameters of their types.                                          *)
LEMMA ResultTyped ==
  ASSUME NEW c \in Calls
  PROVE  /\ UnwrapResult(c).code # "none"
         /\ UnwrapResult(c).params \in {Unset, "wrapped_key_params"}
         /\ UnwrapResult(c).material \in SecureKeys \cup {Unset, "empty"}
<1>1. c.wk.parse \in {"OK"} \cup ParseErrors /\ c.fault \in Faults
  BY DEF Calls, WrappingKeys
<1>2. WrappingKeyCheck(c) # "none" /\ ParseWrappedKey(c.wrapped) # "none"
      /\ DecryptTransitCode(c) # "none"
  BY <1>1 DEF WrappingKeyCheck, ParseWrappedKey, DecryptTransitCode, ParseErrors,
             Faults, CollaboratorCodes
<1>3. \A k : Unmask(c.wrapped.transit, c.mask).code # "none" /\ DecryptSecureCode(c, k) # "none"
  BY <1>1 DEF Unmask, DecryptSecureCode, Faults, CollaboratorCodes
<1>4. c.wrapped.wellFormed => c.wrapped.secure.pt \in SecureKeys
  BY DEF Calls, Containers, Malformed
<1>5. UnwrapResult(c).code # "none"
  BY <1>2, <1>3 DEF UnwrapResult, Result
<1>6. UnwrapResult(c).params \in {Unset, "wrapped_key_params"}
  BY DEF UnwrapResult, Result
<1>7. UnwrapResult(c).material \in SecureKeys \cup {Unset, "empty"}
  BY <1>4 DEF UnwrapResult, Result, ParseWrappedKey
<1>8. QED
  BY <1>5, <1>6, <1>7

(* UnwrapKey returns OK exactly for an importable call, with the secure   *)
(* key the producer sealed.                                                *)
LEMMA OkIffImportable ==
  ASSUME NEW c \in Calls
  PROVE  /\ UnwrapResult(c).code = "OK" <=> Importable(c)
         /\ UnwrapResult(c).code = "OK" => UnwrapResult(c).material = c.wrapped.secure.pt
<1> DEFINE um == Unmask(c.wrapped.transit, c.mask)
           k4 == DecryptSecureCode(c, um.key)
<1>1. c.wk.parse \in {"OK"} \cup ParseErrors /\ c.fault \in Faults
  BY DEF Calls, WrappingKeys
<1>2. WrappingKeyCheck(c) = "OK" <=>
        /\ c.wk.parse = "OK" /\ c.wk.purposeWrap /\ c.wk.sha256 /\ c.wk.oaep
        /\ c.params.sha256 /\ c.params.oaep
  BY <1>1 DEF WrappingKeyCheck, ParseErrors
<1>3. CASE ~c.wrapped.wellFormed
  <2>1. ~Importable(c)
    BY <1>3 DEF Importable
  <2>2. UnwrapResult(c).code # "OK"
    BY <1>1, <1>3 DEF UnwrapResult, Result, WrappingKeyCheck, ParseWrappedKey, ParseErrors
  <2>3. QED
    BY <2>1, <2>2
<1>4. CASE c.wrapped.wellFormed
  <2>1. PICK tg \in {"this", "other"}, t \in KeyBytes(KeyLen), m \in KeyBytes(KeyLen),
             pt \in SecureKeys, d \in WrappedDescs, d2 \in WrappedDescs :
          c.wrapped = [wellFormed |-> TRUE, target |-> tg, transit |-> XorBytes(t, m),
                       secure |-> [key |-> t, aad |-> d, pt |-> pt], desc |-> d2, mask |-> m]
    BY <1>4 DEF Calls, Containers, Malformed
  <2>2. XorBytes(t, m) \in KeyBytes(KeyLen)
    BY DEF XorBytes, KeyBytes, Bytes
  <2>3. c.mask \in KeyBytes(KeyLen) \/ c.mask \in KeyBytes(KeyLen + 1)
    BY DEF Calls, MaskingKeys
  <2>4. um.code = "OK" <=> c.mask \in KeyBytes(KeyLen)
    <3>1. CASE c.mask \in KeyBytes(KeyLen)
      BY <2>1, <3>1 DEF Unmask, KeyBytes, XorBytes
    <3>2. CASE c.mask \notin KeyBytes(KeyLen)
      <4>1. c.mask \in KeyBytes(KeyLen + 1)
        BY <2>3, <3>2
      <4>2. DOMAIN XorBytes(t, m) # DOMAIN c.mask
        BY <2>2, <4>1, LengthsDiffer
      <4>3. QED
        BY <2>1, <3>2, <4>2 DEF Unmask
    <3>3. QED
      BY <3>1, <3>2
  <2>5. c.mask \in KeyBytes(KeyLen) =>
          (um.key = t <=> c.mask = m)
    <3>1. c.mask \in KeyBytes(KeyLen) => um.key = XorBytes(XorBytes(t, m), c.mask)
      BY <2>1, <2>2 DEF Unmask, KeyBytes
    <3>2. QED
      BY <3>1, XorCancel
  <2>6. k4 = "OK" <=> c.fault.at \notin {"aes"} /\ um.key = t /\ d2 = d
    BY <1>1, <2>1 DEF DecryptSecureCode, Faults, CollaboratorCodes
  <2>7. DecryptTransitCode(c) = "OK" <=> c.fault.at # "rsa" /\ tg = "this"
    BY <1>1, <2>1 DEF DecryptTransitCode, Faults, CollaboratorCodes
  <2>8. Importable(c) <=>
          /\ ~c.nullOut /\ WrappingKeyCheck(c) = "OK"
          /\ tg = "this" /\ c.mask = m /\ d2 = d /\ c.fault.at = "none"
    BY <1>2, <2>1 DEF Importable
  <2>9. c.fault.at \in {"none", "output", "rsa", "aes"}
    BY <1>1 DEF Faults
  <2>10. UnwrapResult(c).code = "OK" <=>
           /\ ~c.nullOut /\ WrappingKeyCheck(c) = "OK"
           /\ DecryptTransitCode(c) = "OK" /\ um.code = "OK" /\ k4 = "OK"
           /\ c.fault.at # "output"
    BY <2>1 DEF UnwrapResult, Result, ParseWrappedKey
  <2>11. UnwrapResult(c).code = "OK" => UnwrapResult(c).material = c.wrapped.secure.pt
    BY <2>1 DEF UnwrapResult, Result, ParseWrappedKey
  <2>12. c.mask = m => c.mask \in KeyBytes(KeyLen)
    OBVIOUS
  <2>13. QED
    BY <2>4, <2>5, <2>6, <2>7, <2>8, <2>9, <2>10, <2>11, <2>12
<1>5. QED
  BY <1>3, <1>4

(* Between calls the caller's out-parameters are fresh.                   *)
IInv ==
  /\ TypeOK
  /\ call = NoCall => out = NoOutput
  /\ UnwrapCorrect

LEMMA InitIInv == Init => IInv
BY DEF Init, IInv, TypeOK, UnwrapCorrect, NoOutput, Result

LEMMA StepIInv == IInv /\ [Next]_vars => IInv'
<1> SUFFICES ASSUME IInv, [Next]_vars PROVE IInv'
  OBVIOUS
<1>1. CASE Begin
  BY <1>1 DEF Begin, IInv, TypeOK, UnwrapCorrect
<1>2. CASE UnwrapKey
  <2>1. call \in Calls
    BY <1>2 DEF UnwrapKey, IInv, TypeOK
  <2>2. out' = UnwrapResult(call) /\ call' = call /\ call # NoCall
    BY <1>2 DEF UnwrapKey
  <2>3. out' # NoOutput
    BY <2>1, <2>2, ResultTyped DEF NoOutput, Result
  <2>4. TypeOK'
    BY <2>1, <2>2, ResultTyped DEF TypeOK
  <2>5. UnwrapCorrect'
    BY <2>1, <2>2, OkIffImportable DEF UnwrapCorrect
  <2>6. QED
    BY <2>2, <2>4, <2>5 DEF IInv
<1>3. CASE Return
  BY <1>3 DEF Return, IInv, TypeOK, UnwrapCorrect, NoOutput, Result
<1>4. CASE UNCHANGED vars
  BY <1>4 DEF vars, IInv, TypeOK, UnwrapCorrect
<1>5. QED
  BY <1>1, <1>2, <1>3, <1>4 DEF Next

(* For every transport key length and every set of secure keys and        *)
(* descriptions: UnwrapKey returns OK exactly when the wrapping key, the  *)
(* caller's parameters, the container, the masking key and the            *)
(* description are the ones spec 4.7 requires, and then yields the key    *)
(* material the producer sealed.                                           *)
THEOREM UnwrapKeyCorrect == Spec => [](TypeOK /\ UnwrapCorrect)
<1>1. IInv => TypeOK /\ UnwrapCorrect
  BY DEF IInv
<1>2. QED
  BY <1>1, InitIInv, StepIInv, PTL DEF Spec

=============================================================================
