# Verification of TrustyKeymasterContext

TLA+ models, TLC runs and TLAPS proofs for `src/trusty_keymaster_context.cpp`.
That file holds the process-wide keymaster context of the Trusty keymaster app.

## The system

`TrustyKeymasterContext` is one object that lives as long as the keymaster app.
Its mutable state, as used by this project:

| code | model variable |
|---|---|
| `root_of_trust_set_`, `verified_boot_key_`, `verified_boot_state_`, `device_locked_` | `rotSet`, `bootKey`, `bootState`, `deviceLocked` |
| `version_info_set_`, `boot_os_version_`, `boot_os_patchlevel_` | `versionSet`, `osVersion`, `osPatchlevel` |
| hwkey sessions opened by `DeriveMasterKey` and never closed | `sessions` |
| the key blobs held by the caller (keystore) across calls and restarts | `blobs` |
| restarts of the app, each running the constructor | `boot` |
| the last call and its result code | `lastOp` |

RngGate (`rng_initialized_` and `calls_since_reseed_`) is modelled in a module of its own, `RngGate.tla`.

The auth-token key (`auth_token_key_initialized_` and the buffer `auth_token_key_`) is modelled in `AuthTokenKey.tla`, and `UnwrapKey`, which changes no member of the context, in `KeyWrap.tla`.

The operations, and how they interact:

- **SetBootParams** sets the root of trust once per run. It keeps the boot key only for a verified or self-signed boot. With no key it falls back to unverified and unlocked. An unsigned image is never reported locked.
- **SetSystemVersion** latches the OS version and patchlevel once per run.
- **CreateKeyBlob** runs three steps in order:
  - SetAuthorizations classifies the description's tags into hw_enforced and sw_enforced, rejecting forbidden tags, and appends the boot OS version and patchlevel to hw_enforced.
  - CreateAuthEncryptedKeyBlob builds the hidden authorizations: the application id and data, then the root-of-trust triple.
  - It then derives the master key through hwkey and encrypts under AES_GCM_WITH_SW_ENFORCED.
- **ParseKeyBlob** proceeds in this order:
  - strips or rejects a km_compat prefix;
  - accepts an AES_OCB blob whatever `allow_ocb` says;
  - derives the master key and rebuilds the hidden set;
  - decrypts, then requires an ALGORITHM tag.
- **UpgradeKeyBlob** proceeds in this order:
  - parses the blob;
  - on a boot OS version of 0, resets an OS version stored in sw_enforced;
  - upgrades the hw-enforced OS version and patchlevel, refusing a downgrade;
  - re-encrypts only if something changed.
- **DeriveMasterKey** opens a hwkey session, allocates the key buffer, derives the key and closes the session. On the two middle failures it returns without closing.
- **InitializeAuthTokenKey / GetAuthTokenKey** fetch the HMAC key lazily. GetAuthTokenKey tests the latch; if it is clear, InitializeAuthTokenKey lets the enforcement policy's `GetHmacKey` write the key straight into the member buffer and then sets the latch to whether that succeeded. The caller gets a pointer into the buffer. Nothing is locked.
- **CheckConfirmationToken** gets the auth-token key, computes HMAC-SHA256 over the input through that pointer and compares the tag with the token.
- **UnwrapKey** (secure key import) checks the wrapping key's parse result and authorizations and the caller's digest and padding, parses the wrapped-key container (filling the caller's params and format), RSA-OAEP decrypts the transit key, XORs it with the masking key after a length check, AES-GCM decrypts the secure key with the description as associated data, and copies the plaintext out. Each step returns its error at once.
- **SeedRngIfNeeded** is called by the RNG users of the context. It reseeds from the hardware RNG on every call until a seeding succeeds. After that, it reseeds on every 32nd call, counted by `calls_since_reseed_`. A failed hardware read is ignored.

## Modules

- `KeymasterContext.tla` models the context above together with the caller's blob store. Each of these is one action that models the whole handler, including every call it makes:
  - `Restart` (the constructor);
  - `SetSystemVersion`;
  - `SetBootParams`;
  - `CreateKeyBlob`;
  - `ParseKeyBlob`;
  - `UpgradeKeyBlob`.

  Abstractions:
  - Authenticated encryption is abstracted. A blob records the hidden authorizations it was encrypted under, and decryption succeeds exactly when the parse-time hidden set equals them.
  - Every fallible call is a named failure point, chosen nondeterministically. The failure points are `open`, `alloc` and `derive` in DeriveMasterKey, `hidden` for the hidden set, `encrypt` for EncryptKey and serialization, and the allocation check of SetAuthorizations.
  - `hwkey_open` fails exactly when `MaxSessions` handles are held. This is the resource limit the leak runs into. Other transient IPC failures of `hwkey_open` are not modelled.
  - A blob's prefix (`NONE`, `HW`, `SW`, `BAD`) and the caller's application params are chosen per call.

  Initial state:
  - The initial blobs are none, or one AES_OCB blob from earlier firmware, with or without version tags.
  - The constructor leaves `verified_boot_state_` and `device_locked_` at the values of their declaration, which is in a header outside this file. These are the constants `InitBootState` and `InitDeviceLocked`.

  Left out:
  - The `KEYMASTER_DEBUG` branch of SetSystemVersion is a debug-only build path.
  - The algorithm-specific `LoadKey` is outside the context.
- `MCKeymasterContext.tla` gives the tag sets used by the runs.
- `KeyStore.tla` is the abstract specification of the key-blob store as its caller sees it (spec §4.3, §4.4). A key is an identity (its binding, algorithm and tags) with a hw-enforced OS version and patchlevel. `Add` creates a key, and `Upgrade` replaces a key by the same identity with a version and patchlevel that are not older. Nothing else happens, so no key is ever lost. `KeymasterContext` instantiates it as `Store`, mapping `keys` to `{KeyOf(b) : b \in blobs}`, and checks it as the property `KeysKept`. The blob format, the sw-enforced tags, the run and the latch flags a blob records are not part of the abstract key.
- `KeymasterContextProofs.tla` holds the TLAPS proofs for KeymasterContext's root-of-trust invariants, with the type lemma and the inductive `BindingInv` they rest on. `KeymasterUpgradeProofs.tla` extends it with the proofs about UpgradeKeyBlob and the inductive `VersionInv`, and `KeymasterStoreProofs.tla` with the refinement of KeyStore.
- `RngGate.tla` models the RNG seeding policy: `ShouldReseedRng`, `ReseedRng` and `SeedRngIfNeeded`. `SeedRngIfNeeded` is one action, `SeedRngIfNeeded(hwOk)`, where `hwOk` says whether the hardware read succeeds. `Restart` runs the constructor.
  - The counter's declared type is outside this file, so its wrap is the constant `CounterModulus`, which is 2^w for its width w.
  - A wrapping signed int gives the same values modulo 32.
  - `since` is a history variable: the checks since the last reseed request. No code reads it.
  - RngGate is independent of the key-blob state, so it is checked separately. This keeps the two state spaces from multiplying.
- `ReseedSchedule.tla` is the abstract schedule spec §8 promises: a check of an unseeded RNG requests a seeding, a seeded one requests a reseed once in 32 checks, and a requested seeding succeeds or not. `RngGate` instantiates it with `phase <- calls_since_reseed_ % 32` and checks it as the property `ScheduleSpec`.
- `RngGateProofs.tla` holds the TLAPS proofs for RngGate.
- `AuthTokenKey.tla` models the auth-token key for a set of callers. Each call is split at the points where another caller can run between its steps:
  - `Begin(c, cl)`: the latch test of GetAuthTokenKey (or CheckConfirmationToken entering it). A latched key finishes a GetAuthTokenKey with the buffer's contents, or moves on to the HMAC.
  - `GetHmacKey(c, ok)`: InitializeAuthTokenKey's call of GetHmacKey, which writes the buffer in place (the device key, or, when it fails, possibly garbage). Its result stays in the caller's local `error`, the variable `hmacOk[c]`.
  - `LatchResult(c)`: the latch takes that result (lines 614-617) and InitializeAuthTokenKey returns it. GetAuthTokenKey then fails, or returns the pointer to the buffer with whatever the buffer holds by now, or CheckConfirmationToken moves on to the HMAC. The return reads back the value just stored, as the compiled code does: nothing between the store and the return changes it in a race-free program.
  - `Hmac(c, hashOk)`: CheckConfirmationToken's HMAC over the buffer as it is now, and the comparison.
  - `Restart`: a new context. The latch's initial value comes from the header declaration outside `src/`, so it is the constant `InitLatched`; the runs take FALSE.

  Keys are `DeviceKey` or `Garbage`, and an HMAC tag is the pair of key and message, so a token verifies exactly under the key that made it.
- `KeyWrap.tla` models one `UnwrapKey` call as the action `UnwrapKey`, whose result `UnwrapResult(call)` is the chain of early returns in the code's order. `Begin` picks arguments and `Return` hands the results back. Abstractions:
  - the wrapping key's `ParseKeyBlob` is its result code and the three authorizations UnwrapKey asks about;
  - key bytes are over {0,1}, so the XOR loop is addition modulo 2, while lengths are kept because the code compares them;
  - RSA-OAEP decryption succeeds only for a container encrypted to this wrapping key, and AES-GCM only with the sealing key and associated data;
  - collaborator failures are a fault at `rsa`, `aes` or `output` with a code;
  - a container has a ghost field `mask`, the producer's masking key, that no step reads.
- `AuthTokenKeyProofs.tla` and `KeyWrapProofs.tla` hold the TLAPS proofs for these two modules.

## Runs

| run | cfg | result | shows |
|---|---|---|---|
| rot | `MCKeymasterContext_rot.cfg` | pass, 196k states | `RootOfTrustConsistent`, `KeysUsableWithinBoot`, `PlaceholderKeysUnusable` |
| upgrade | `MCKeymasterContext_upgrade.cfg` | pass, 106k states | `UpgradeIdempotent`, `NoVersionRollback` |
| store | `MCKeymasterContext_store.cfg` | pass, 32k states | `KeysKept` |
| rng | `RngGate.cfg` | pass, 130 states | `TypeOK`, `PhaseInv`, `ReseedOnEvery32nd`, `SeededEventually`, `ScheduleSpec` |
| auth | `AuthTokenKey.cfg` | pass, 1.6k states | `AuthKeyAuthentic`, `KeyCachedForever`, `LatchEventuallyHeld` |
| authrace | `AuthTokenKey_race.cfg` | violation | `ConfirmedUnderDeviceKey` fails |
| authmulti | `AuthTokenKey_multi.cfg` | violation | `HandedOutKeyAuthentic` fails |
| keywrap | `KeyWrap.cfg` | pass, 456k states | `UnwrapCorrect` |
| keywrap_partial | `KeyWrap_partial.cfg` | violation | `NoPartialOutput` fails |
| devbuild | `MCKeymasterContext_devbuild.cfg` | violation | `UpgradeToDevBuildAccepted` fails |
| hwkey | `MCKeymasterContext_hwkey.cfg` | violation | `HwkeySessionsReleased` fails |

What the properties say:

- **RootOfTrustConsistent**: once set, the boot key is kept exactly for verified or self-signed boots, and only those may be locked.
- **KeysUsableWithinBoot**: a blob written after SetBootParams in the current run stays decryptable until the next restart. This is what the `root_of_trust_set_` latch is for.
- **UpgradeIdempotent**: a blob written after SetSystemVersion in this run needs no further upgrade. This is spec §8 "upgrading twice is idempotent", and it depends on the `version_info_set_` latch.
- **KeysKept** (store): the blobs refine `KeyStore`. UpgradeKeyBlob re-encrypts under `upgrade_params` (line 422), the params its ParseKeyBlob has just authenticated against the blob's hidden set. So the new blob keeps the old one's application and root-of-trust binding, its algorithm and its tags, and only moves its hw version and patchlevel forward. It catches a downgrading upgrade, an upgrade that re-encrypts under a binding other than the one it parsed, and a CreateAuthEncryptedKeyBlob that passes hw_enforced and sw_enforced in swapped order.
- **ReseedOnEvery32nd** (rng run): an action property. Once the RNG is seeded, a check requests a reseed exactly when the 31 checks before it did not. This is spec §8 "exactly one reseed in 32 checks". It must hold across failed hardware reads and across the counter's wrap.
- **PhaseInv**: the inductive form of ReseedOnEvery32nd. The counter is 0 until the RNG is seeded, and from then on `since` is the counter modulo 32.
- **PlaceholderKeysUnusable**: once the root of trust is set, a blob made earlier in the run, before SetBootParams, is bound to the placeholder boot key of the constructor and cannot be decrypted. SetBootParams must replace the placeholder even when it is given no key (line 829).
- **SeededEventually** (rng): an unseeded RNG is eventually seeded.
- **ScheduleSpec** (rng): the policy implements `ReseedSchedule`.
- **AuthKeyAuthentic** (auth): a key GetAuthTokenKey hands out, and a key CheckConfirmationToken accepts a token under, is the device key, never a buffer GetHmacKey failed to fill.
- **HandedOutKeyAuthentic** (authmulti): with racing callers, the buffer GetAuthTokenKey points at when it returns OK holds the device key (spec §5). TLC finds it violated (finding 5).
- **ConfirmedUnderDeviceKey** (authrace): with racing callers, CheckConfirmationToken accepts only a token made with the device key (spec §5). TLC finds it violated (finding 3).
- **KeyCachedForever** (auth): an action property. Within a run, a latched key stays latched and the buffer is never rewritten (spec §5, "cached forever").
- **LatchEventuallyHeld** (auth): the key ends up latched for good.
- **UnwrapCorrect** (keywrap): UnwrapKey returns OK exactly for an importable call, and then yields the secure key the producer sealed. An importable call has a wrapping key that parses and allows WRAP, SHA-256 and OAEP, parameters asking for both, a well-formed container encrypted to that key, the producer's masking key, an unchanged description and no collaborator failure.
- **NoPartialOutput** (keywrap_partial): a failing UnwrapKey writes none of its out-parameters.
- **NoVersionRollback**: an action property. Every blob the caller drops is covered by a blob it now holds whose hw-enforced OS version and patchlevel are not older. It catches both a downgrading upgrade and a failed re-encryption that loses the old blob.

Bounds and why they are enough:

- **rot**:
  - one real boot key plus the empty and placeholder keys;
  - all four boot states and both lock values, the boot state and lock value being inputs of SetBootParams;
  - one application id, plus none;
  - a description with and without a rejected tag;
  - two runs, so that a restart happens between blobs;
  - two blobs, so that blobs from before and after SetBootParams coexist.
- **upgrade**:
  - versions {0,1,2}, covering the development build 0, an upgrade and a downgrade;
  - patchlevels {0,1};
  - legacy blobs with absent or present tags;
  - three runs, so that the system version can rise and then fall back to 0.
- **store**:
  - one application id plus none, descriptions with and without an algorithm, and one hw-enforced (PURPOSE) and one sw-enforced (USER_ID) tag, so that the keys UpgradeKeyBlob re-encrypts differ in binding, algorithm and tags;
  - versions {0,1} and two runs, so that a blob written under version 0 is upgraded after a restart to version 1;
  - one blob at a time. With two, the state space grows past what TLC finishes in minutes. Replacement within a set of blobs is covered by the proof for every bound.
- **KeymasterContext runs**: one hwkey handle, so that a single leak exhausts the pool.
- **auth**: one caller, as in the deployed app, which serves one request at a time; two messages, so that a token for another message is presented; three runs, so that the latch is reset by restarts. **authrace** and **authmulti**: two callers and one or two runs, the smallest instances of the race.
- **keywrap**: a transport key of one byte, so masking keys of length 1 and 2 cover both sides of the length check; one secure key; two descriptions, so that a replaced description occurs; every fault point. The proof covers every length.
- **rng**: a 7-bit counter (modulus 128). It wraps after four reseed periods, and all 130 states of the policy are reached, including the wrap. The proof covers every width of at least 5 bits.

Every action and every disjunct of UpgradeKeyBlob fires in the rot, upgrade and store runs together. The KeymasterContext and KeyWrap runs assume no fairness: the context only reacts to calls (spec §5: synchronous, no timeouts), so nothing in it must eventually happen on its own.

Two modules check liveness, under fairness that models the environment, not a scheduler:
- **RngGate**: `WF_vars(SeedRngIfNeeded(TRUE))`. The RNG users keep calling, and the hardware RNG does not fail forever. The code retries the first seeding on every call until it succeeds (line 549), and `SeededEventually` checks that this retry is enough.
- **AuthTokenKey**: weak fairness on each caller's `Begin` and `Hmac` (callers keep calling) weak fairness on `LatchResult` (a call that fetched goes on), and strong fairness on `GetHmacKey(c, TRUE)` (GetHmacKey does not fail forever). Strong fairness is needed because a fetch is enabled only intermittently: a failed fetch ends the call. A failure is not remembered, so the next call fetches again.

Each property of a passing run has a mutant in `PROJECT.json`: a plausible bug in the mapped code that TLC finds violating it. The mutants are:

- SetBootParams without the latch;
- SetBootParams keeping the lock flag of an unsigned image;
- SetSystemVersion relatching;
- CreateAuthEncryptedKeyBlob with hw_enforced and sw_enforced swapped;
- UpgradeIntegerTag without the downgrade check;
- ShouldReseedRng post-incrementing the counter;
- ShouldReseedRng advancing the counter before the initialization test;
- ShouldReseedRng with a period of 33;
- SetBootParams keeping the placeholder key when given none;
- ShouldReseedRng requesting only for a seeded RNG;
- a counter advanced on every check;
- InitializeAuthTokenKey latching whatever GetHmacKey returned;
- GetAuthTokenKey fetching without testing the latch;
- GetAuthTokenKey reporting an unlatched key missing instead of initialising it;
- UnwrapKey without the masking-key length test.

## Findings

1. **Development-build upgrade is refused** (devbuild run). With a boot OS version of 0, `UpgradeKeyBlob` resets only an OS_VERSION in sw_enforced (lines 398-407). `UpgradeIntegerTag` then finds the hw-enforced OS_VERSION greater than 0 and the call returns INVALID_ARGUMENT. Spec §4.4 says the stored OS version is forced to 0 unconditionally. TLC's trace:
   - a blob with hw-enforced OS version 1;
   - `SetSystemVersion(0, 0)`;
   - `UpgradeKeyBlob` returns INVALID_ARGUMENT.
2. **hwkey session leak** (hwkey run). `DeriveMasterKey` returns at line 589 (allocation failure) and at line 598 (derive failure) without `hwkey_close`. Spec §4.5 requires the release on every exit. Once the handles are exhausted, every later blob operation fails with UNKNOWN_ERROR until the app restarts.

3. **Racing first calls: a confirmation token accepted under garbage** (authrace run). Nothing is locked in InitializeAuthTokenKey: GetHmacKey writes into the shared buffer (line 613), and the latch is assigned after it. With two first calls, both see the latch clear. The other caller's failing GetHmacKey leaves garbage in the buffer before the HMAC at line 1109 runs through the pointer, so CheckConfirmationToken accepts a token made with the garbage. Spec §5 asks the latch to be exactly-once under racing first calls. With a single caller, as in the deployed app, the property holds and is proved.
4. **UnwrapKey leaves partial output** (keywrap_partial run). `parse_wrapped_key` fills `wrapped_key_params` and `wrapped_key_format` (line 915) before the RSA decryption, the length check, the AES-GCM decryption and the copy. A later failure returns an error with them filled. A failed copy returns MEMORY_ALLOCATION_FAILED after `*wrapped_key_material` was assigned (lines 1083-1087). Spec §4.7 and §7 say a failure leaves no partial unwrap output.
5. **Racing first calls: the latch set over garbage** (authmulti run). InitializeAuthTokenKey assigns the latch from its own GetHmacKey result (lines 614-617), but the buffer is shared. TLC's trace with two first calls of GetAuthTokenKey:
   - A's GetHmacKey writes the device key;
   - B's GetHmacKey fails and overwrites the buffer;
   - B clears the latch and returns UNKNOWN_ERROR;
   - A sets the latch and returns OK with a pointer to garbage (lines 628-630).

   The latch then stays set over garbage until the app restarts. Every later GetAuthTokenKey and CheckConfirmationToken uses the garbage key.

## Proofs (TLAPS)

Assumption: `ConstantsAssumption`, the constants' types and distinctness. For example, 0 is a version, `Absent` is not a number, and the placeholder keys are not boot keys.

- The lemma **TypeCorrect**, `Spec => []TypeOK`, carries the types every other proof needs. TypeOK is inductive by itself. The proof has one step per action. Its bound on `sessions` is no property of the code: it comes from the model's assumption that `hwkey_open` fails once `MaxSessions` handles are held. It rests on these lemmas:
  - `LeakBounded`: a failure point leaks at most one session, and only when a handle was free.
  - `UpgradeIntegerTagTyped`
  - `NewBlobTyped`
  - `CodesTyped`
  - `ParseCodeOK`
- **RootOfTrustSound**: `Spec => []RootOfTrustConsistent`, from the inductive invariant of RootOfTrustBinding below.
- **RootOfTrustBinding**: `Spec => [](RootOfTrustConsistent /\ KeysUsableWithinBoot)`. KeysUsableWithinBoot alone is not inductive, because SetBootParams could rebind a blob's run if the latch were open. The strengthening `BindingInv` adds two facts:
  - every blob is from this run or an earlier one;
  - a blob from this run written with the root of trust set implies the root of trust is still set.

  So SetBootParams can only fire while no such blob exists, and Restart moves every blob into an earlier run. The lemma `BindingKept` covers every action that keeps the run and the root of trust and only adds blobs bound to them. TypeOK is taken from TypeCorrect. The initiation and the step are the lemmas `RotInvInit` and `RotInvStep`.
- **PlaceholderBindingDies**: `Spec => []PlaceholderKeysUnusable`. The strengthening `PlaceholderInv` says that the root of trust is set exactly when the boot key is not the placeholder, and that a blob from this run made before SetBootParams holds the placeholder in its hidden set. Then a set root of trust, with a non-placeholder key, can never match that hidden set.

- **UpgradeIdempotentHolds** (`KeymasterUpgradeProofs.tla`): `Spec => [](VersionInv /\ UpgradeIdempotent)`. UpgradeIdempotent alone is not inductive, because a later SetSystemVersion would change what "up to date" means if the latch were open. `VersionInv` adds that a blob of this run written after SetSystemVersion implies the version is still latched. Restart moves every blob into an earlier run. The lemmas:
  - `UpgradeIntegerTagSame`: upgrading a tag to the value it holds succeeds and changes nothing;
  - `NewBlobUpToDate`: a blob written after SetSystemVersion holds the current version and patchlevel;
  - `VersionKept`: an action that keeps the run and the latched version, and adds only such blobs, keeps VersionInv.
- **NoRollback** (`KeymasterUpgradeProofs.tla`): `Spec => NoVersionRollback`, for every version and patchlevel set. UpgradeKeyBlob drops the old blob only after it has built the new one, and the lemma `UpgradeIntegerTagAccepted` says an accepted tag upgrade never lowers the value. Every other action drops no blob.
- **ImplementsKeyStore** (`KeymasterStoreProofs.tla`): `Spec => KeysKept`, for all constants. The initial blobs map to keys of `KeyStore` (`StoreInit`, from TypeOK). `StoreStep` takes one case per action:
  - every action other than CreateKeyBlob and UpgradeKeyBlob leaves the blobs, so it is a stutter;
  - a successful CreateKeyBlob adds a blob, which maps to `Add` (`AddRefined`);
  - a successful re-encryption replaces blob b by nb. `UpgradeIsLater` shows that nb is the same key, not older. It uses `ParseCodeOK` (a parse that succeeds had `b.hidden = Hidden(app)`, and nb is encrypted under `Hidden(app)`) and `UpgradeIntegerTagAccepted`.

  The mapping is not one-to-one: two blobs may hold the same abstract key. So `ReplaceRefined` splits on whether another blob holds b's key. If one does, the step is an `Add`; otherwise it is an `Upgrade`.
- **RngTypeCorrect**: `Spec => []TypeOK` for RngGate, from PhaseCorrect.
- **PhaseCorrect** and **ReseedPeriodic** (`RngGateProofs.tla`): `Spec => [](TypeOK /\ PhaseInv)` and `Spec => ReseedOnEvery32nd`.
  - Assumption: `CounterModulus` is a positive multiple of 32, that is, the counter has at least 5 bits.
  - The key lemma, `WrapKeepsPhase`, says that advancing the counter modulo `CounterModulus` advances it modulo 32. The case split is on whether the counter wraps.
  - `SeededCheck` and `UnseededCheck` show that both kinds of check keep `PhaseInv`.
  - The action property follows from `PhaseInv` in the check step.

- **ImplementsSchedule** (`RngGateProofs.tla`): `Spec => ScheduleSpec`. The initial state maps to the abstract one (`InitRefined`), and every step maps to an abstract step or stutter (`StepRefined`, split into `SeededStepRefined` and `UnseededStepRefined`), using `PhaseInv` and `WrapKeepsPhase`. Only the safety part is proved, because RngGate's fairness is not part of ReseedSchedule.
- **AuthKeyOnlyDevice** and **KeyLatchedForRun** (`AuthTokenKeyProofs.tla`): `Spec => [](TypeOK /\ AuthKeyAuthentic)` and `Spec => KeyCachedForever`. They rest on the assumption `Deployed`: a single caller, as in the deployed app, and a latch that starts clear. The authrace and authmulti runs show that the first half is needed. The inductive invariant `IInv` adds four facts, one lemma per action:
  - a latched buffer holds the device key;
  - a caller at the HMAC step reads the device key;
  - a caller fetching or assigning the latch sees it clear;
  - a caller whose GetHmacKey succeeded finds the device key in the buffer when it assigns the latch.
- **UnwrapKeyCorrect** (`KeyWrapProofs.tla`): `Spec => [](TypeOK /\ UnwrapCorrect)` for every transport-key length. The lemmas:
  - `XorCancel`: XOR with the producer's masking key undoes the producer's XOR.
  - `LengthsDiffer`: a masking key of another length has another domain.
  - `OkIffImportable`: `UnwrapResult` is OK exactly for an importable call.
  - The invariant adds that between calls nothing is written.

What stays with TLC:
- the violation runs;
- the liveness properties `SeededEventually` and `LatchEventuallyHeld`. They rest on fairness and ENABLED, which TLAPS cannot reason about here;
- racing callers for the auth-token key. The latch is not sound then, as the authrace and authmulti runs show, so both auth-token proofs assume a single caller.

Every safety invariant and action property of a passing run is proved for all values of the constants. TLAPS cannot prove liveness, ENABLED, or induction over recursive data.

## Not modelled, and the plan

- **AttestationIssuer** (`GenerateAttestation`, the attestation key and certificate-chain getters) and the factory and version getters: each is stateless delegation to keymaster library code outside `src/`, or a read of a latched field. None changes the context's state.
- **Full AuthorizationClassifier**: the USER_AUTH_TYPE masking and the certificate-only tags are abstracted today.
- **The auth-token key race with a fix**: a lock, or a write through a temporary buffer, would make HandedOutKeyAuthentic and ConfirmedUnderDeviceKey hold for two callers.
