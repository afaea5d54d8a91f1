------------------------------ MODULE KeyWrap ------------------------------
(***************************************************************************)
(* The secure key import of TrustyKeymasterContext::UnwrapKey              *)
(* (src/trusty_keymaster_context.cpp): check the wrapping key, parse the  *)
(* wrapped-key container, RSA-OAEP decrypt the transit key, XOR it with    *)
(* the masking key, and AES-GCM decrypt the secure key with the           *)
(* description as associated data.                                         *)
(*                                                                         *)
(* The wrapping key's ParseKeyBlob (modelled in KeymasterContext) is       *)
(* abstracted to the code it returns and the authorizations of the key it  *)
(* yields, of which UnwrapKey only asks Contains(PURPOSE, WRAP),           *)
(* Contains(DIGEST, SHA_2_256) and Contains(PADDING, RSA_OAEP).  Key       *)
(* bytes are drawn from a two-value alphabet, so XOR of bytes is XOR of    *)
(* bits; lengths are kept, as the code compares them.  RSA-OAEP decryption *)
(* succeeds only with the key the transit key was encrypted to, AES-GCM    *)
(* only with the key, nonce and associated data the producer used.         *)
(***************************************************************************)
EXTENDS Naturals

CONSTANTS
  KeyLen,         \* length of the transport key, in bytes
  SecureKeys,     \* key material a producer wraps
  WrappedDescs,   \* wrapped key descriptions (the AES-GCM associated data)
  Unset           \* an out-parameter UnwrapKey has not written

ASSUME KeyWrapAssumption ==
  /\ KeyLen \in Nat \ {0}
  /\ Unset \notin SecureKeys

VARIABLES
  call,   \* the arguments of the call in progress, NoCall between calls
  out     \* the return code and the caller's three out-parameters

vars == <<call, out>>

Bytes == {0, 1}
KeyBytes(n) == [1..n -> Bytes]

(* The loop of step 3: transport_key[i] ^= masking_key[i] for every byte   *)
(* of the transport key.                                                   *)
XorBytes(tk, mk) == [i \in DOMAIN tk |-> (tk[i] + mk[i]) % 2]

(* What ParseKeyBlob may return for the wrapping key.                      *)
ParseErrors == {"INVALID_KEY_BLOB", "MEMORY_ALLOCATION_FAILED"}

WrappingKeys ==
  [parse : {"OK"} \cup ParseErrors,
   purposeWrap : BOOLEAN, sha256 : BOOLEAN, oaep : BOOLEAN]

(* wrapping_key_params: whether it holds DIGEST SHA_2_256, PADDING OAEP.  *)
WrappingParams == [sha256 : BOOLEAN, oaep : BOOLEAN]

(* A wrapped-key container as a producer builds it for the wrapping key   *)
(* "this" or another one: the transport key t masked with m and encrypted *)
(* to the wrapping key, and the secure key sealed under t with the        *)
(* description d.  The container's description may have been replaced    *)
(* (desc # d).  "mask" is the producer's masking key, a ghost field no    *)
(* step of UnwrapKey reads.                                                *)
Malformed == [wellFormed |-> FALSE]

Containers ==
  {[wellFormed |-> TRUE, target |-> tg, transit |-> XorBytes(t, m),
    secure |-> [key |-> t, aad |-> d, pt |-> pt], desc |-> d2, mask |-> m] :
     tg \in {"this", "other"}, t \in KeyBytes(KeyLen), m \in KeyBytes(KeyLen),
     pt \in SecureKeys, d \in WrappedDescs, d2 \in WrappedDescs}
  \cup {Malformed}

MaskingKeys == KeyBytes(KeyLen) \cup KeyBytes(KeyLen + 1)

(* A collaborator failing: the RSA operation factory, CreateOperation,    *)
(* Begin, the input buffer or Finish ("rsa"); the AES factory, LoadKey,   *)
(* the operation, its buffers or writes, is_valid on a built set, Update  *)
(* or Finish ("aes"); the copy into wrapped_key_material ("output").      *)
CollaboratorCodes == {"UNKNOWN_ERROR", "MEMORY_ALLOCATION_FAILED"}

Faults ==
  {[at |-> "none", code |-> "OK"], [at |-> "output", code |-> "MEMORY_ALLOCATION_FAILED"]}
  \cup [at : {"rsa", "aes"}, code : CollaboratorCodes]

Calls ==
  [nullOut : BOOLEAN, wk : WrappingKeys, params : WrappingParams,
   wrapped : Containers, mask : MaskingKeys, fault : Faults]

NoCall == [nullOut |-> FALSE]

Result(code, written, material) ==
  [code |-> code,
   params |-> IF written THEN "wrapped_key_params" ELSE Unset,
   format |-> IF written THEN "wrapped_key_format" ELSE Unset,
   material |-> material]

NoOutput == Result("none", FALSE, Unset)

-----------------------------------------------------------------------------
(* Step 1: ParseKeyBlob of the wrapping key, then its authorizations and  *)
(* the caller's parameters, each with its own error.                       *)
WrappingKeyCheck(c) ==
  CASE c.wk.parse # "OK"  -> c.wk.parse
    [] ~c.wk.purposeWrap  -> "INCOMPATIBLE_PURPOSE"
    [] ~c.wk.sha256       -> "INCOMPATIBLE_DIGEST"
    [] ~c.wk.oaep         -> "INCOMPATIBLE_PADDING_MODE"
    [] ~c.params.sha256   -> "INCOMPATIBLE_DIGEST"
    [] ~c.params.oaep     -> "INCOMPATIBLE_PADDING_MODE"
    [] OTHER              -> "OK"

(* Step 2: parse_wrapped_key, which fills wrapped_key_params and           *)
(* wrapped_key_format when it succeeds.                                    *)
ParseWrappedKey(w) == IF w.wellFormed THEN "OK" ELSE "INVALID_ARGUMENT"

(* Step 3a: one Begin and one Finish of an RSA decrypt operation with the *)
(* wrapping key; OAEP decoding fails unless the transit key was encrypted *)
(* to it.                                                                  *)
DecryptTransitCode(c) ==
  IF c.fault.at = "rsa" THEN c.fault.code
  ELSE IF c.wrapped.target # "this" THEN "UNKNOWN_ERROR"
  ELSE "OK"

(* Mutant: the length test is left out, the loop still runs over the      *)
(* transport key's bytes.                                                  *)
UnmaskNoLengthCheck(tk, mk) == [code |-> "OK", key |-> XorBytes(tk, mk)]

(* Step 3b: a masking key of another length is INVALID_ARGUMENT; else the *)
(* transport key is XORed with it.                                         *)
Unmask(tk, mk) ==
  IF DOMAIN tk # DOMAIN mk THEN [code |-> "INVALID_ARGUMENT", key |-> tk]
  ELSE [code |-> "OK", key |-> XorBytes(tk, mk)]

(* Step 4: one Update over secure key and tag with the description as     *)
(* associated data, then an empty Finish; the GCM tag fails               *)
(* (VERIFICATION_FAILED) unless key and associated data are the sealing   *)
(* ones.                                                                   *)
DecryptSecureCode(c, k) ==
  IF c.fault.at = "aes" THEN c.fault.code
  ELSE IF k # c.wrapped.secure.key \/ c.wrapped.desc # c.wrapped.secure.aad
    THEN "VERIFICATION_FAILED"
  ELSE "OK"

(* UnwrapKey: the steps in order, the first error returned as it is.  The *)
(* out-parameters parse_wrapped_key filled stay filled on a later error;  *)
(* a failed copy of the plaintext leaves wrapped_key_material empty.      *)
UnwrapResult(c) ==
  LET k1 == WrappingKeyCheck(c)
      um == Unmask(c.wrapped.transit, c.mask)
      k4 == DecryptSecureCode(c, um.key)
  IN  IF c.nullOut THEN Result("UNEXPECTED_NULL_POINTER", FALSE, Unset)
      ELSE IF k1 # "OK" THEN Result(k1, FALSE, Unset)
      ELSE IF ParseWrappedKey(c.wrapped) # "OK"
        THEN Result(ParseWrappedKey(c.wrapped), FALSE, Unset)
      ELSE IF DecryptTransitCode(c) # "OK" THEN Result(DecryptTransitCode(c), TRUE, Unset)
      ELSE IF um.code # "OK" THEN Result(um.code, TRUE, Unset)
      ELSE IF k4 # "OK" THEN Result(k4, TRUE, Unset)
      ELSE IF c.fault.at = "output" THEN Result("MEMORY_ALLOCATION_FAILED", TRUE, "empty")
      ELSE Result("OK", TRUE, c.wrapped.secure.pt)

-----------------------------------------------------------------------------
Init ==
  /\ call = NoCall
  /\ out = NoOutput

(* A caller passes its arguments and fresh out-parameters.                *)
Begin ==
  /\ call = NoCall
  /\ \E c \in Calls : call' = c
  /\ UNCHANGED out

UnwrapKey ==
  /\ call # NoCall
  /\ out = NoOutput
  /\ out' = UnwrapResult(call)
  /\ UNCHANGED call

(* The caller takes the results; the next call starts afresh.             *)
Return ==
  /\ out # NoOutput
  /\ call' = NoCall
  /\ out' = NoOutput

Next == Begin \/ UnwrapKey \/ Return

Spec == Init /\ [][Next]_vars

-----------------------------------------------------------------------------
TypeOK ==
  /\ call = NoCall \/ call \in Calls
  /\ out.params \in {Unset, "wrapped_key_params"}
  /\ out.material \in SecureKeys \cup {Unset, "empty"}

(* The four steps of spec 4.7 as one contract: a wrapping key that parses *)
(* and may wrap with SHA-256 and OAEP, requested with both; a well-formed  *)
(* container encrypted to that key; the producer's masking key; the       *)
(* authenticated description; and no collaborator failing.                 *)
Importable(c) ==
  /\ ~c.nullOut
  /\ c.wk.parse = "OK" /\ c.wk.purposeWrap /\ c.wk.sha256 /\ c.wk.oaep
  /\ c.params.sha256 /\ c.params.oaep
  /\ c.wrapped.wellFormed
  /\ c.wrapped.target = "this"
  /\ c.mask = c.wrapped.mask
  /\ c.wrapped.desc = c.wrapped.secure.aad
  /\ c.fault.at = "none"

(* UnwrapKey returns OK exactly for an importable call, and then hands    *)
(* back the secure key the producer sealed: the masking XOR inverts the   *)
(* producer's, and a masking key of another length, a replaced            *)
(* description or a container for another wrapping key never yields key  *)
(* material.                                                               *)
UnwrapCorrect ==
  out # NoOutput =>
    /\ out.code = "OK" <=> Importable(call)
    /\ out.code = "OK" => out.material = call.wrapped.secure.pt

(* Spec 4.7 and 7: a failing UnwrapKey returns no partial output, none of *)
(* its three out-parameters written.                                       *)
NoPartialOutput ==
  out.code \notin {"none", "OK"} =>
    out.params = Unset /\ out.format = Unset /\ out.material = Unset

=============================================================================
