-------------------------- MODULE KeymasterContext --------------------------
(***************************************************************************)
(* The process-wide TrustyKeymasterContext and the key blobs its callers   *)
(* hold (src/trusty_keymaster_context.cpp).                                *)
(*                                                                         *)
(* The context keeps the root of trust (set once per boot by              *)
(* SetBootParams), the system version (set once per boot by               *)
(* SetSystemVersion) and talks to the hwkey service to derive the master   *)
(* key.  Callers (keystore) keep the blobs it returns across restarts of   *)
(* the context and hand them back to ParseKeyBlob and UpgradeKeyBlob.      *)
(*                                                                         *)
(* Authenticated encryption is abstracted: a blob records the hidden       *)
(* authorizations it was encrypted under, and DecryptKey succeeds exactly  *)
(* when the hidden authorizations rebuilt at parse time are the same.      *)
(***************************************************************************)
EXTENDS Naturals, FiniteSets

CONSTANTS
  Versions,          \* values of boot_os_version_ the system may report
  Patchlevels,       \* values of boot_os_patchlevel_ the system may report
  BootKeys,          \* non-empty verified boot keys a bootloader may report
  Unbound,           \* the constructor's placeholder boot key "Unbound"
  EmptyKey,          \* an empty boot key buffer
  InitBootState,     \* verified_boot_state_ as the context declares it
  InitDeviceLocked,  \* device_locked_ as the context declares it
  AppIds,            \* TAG_APPLICATION_ID/DATA values, NoApp for none
  NoApp,
  Algorithms,        \* TAG_ALGORITHM values key descriptions carry
  DescTags,          \* other tags a key description may carry
  Absent,            \* a tag missing from an authorization set
  WithHwwskSupport,  \* the WITH_HWWSK_SUPPORT build flag
  MaxSessions,       \* hwkey channel handles the context may hold at once
  MaxBoots,          \* bound on restarts of the context
  MaxBlobs           \* bound on blobs the caller keeps

ASSUME ConstantsAssumption ==
  /\ 0 \in Versions /\ Versions \subseteq Nat
  /\ 0 \in Patchlevels /\ Patchlevels \subseteq Nat
  /\ Absent \notin Nat
  /\ Unbound \notin BootKeys /\ EmptyKey \notin BootKeys
  /\ Unbound # EmptyKey
  /\ NoApp \notin AppIds
  /\ Absent \notin Algorithms
  /\ WithHwwskSupport \in BOOLEAN
  /\ InitBootState \in {"VERIFIED", "SELF_SIGNED", "UNVERIFIED", "FAILED"}
  /\ InitDeviceLocked \in BOOLEAN
  /\ MaxSessions \in Nat \ {0}
  /\ MaxBoots \in Nat \ {0}
  /\ MaxBlobs \in Nat

(* keymaster_verified_boot_t *)
VERIFIED == "VERIFIED"
SELF_SIGNED == "SELF_SIGNED"
UNVERIFIED == "UNVERIFIED"
FAILED == "FAILED"
BootStates == {VERIFIED, SELF_SIGNED, UNVERIFIED, FAILED}

(* Blob encryption formats: AES_GCM_WITH_SW_ENFORCED, written by this     *)
(* code, and the legacy AES_OCB of blobs from earlier firmware.            *)
Formats == {"AES_GCM_WITH_SW_ENFORCED", "AES_OCB"}

(* The keystore km_compat prefix: none, type byte 0, type byte 1, other.   *)
Prefixes == {"NONE", "HW", "SW", "BAD"}

(***************************************************************************)
(* The per-tag policy of SetAuthorizations.                                *)
(***************************************************************************)
ForbiddenTags ==
  {"ASSOCIATED_DATA", "AUTH_TOKEN", "BOOTLOADER_ONLY", "INVALID",
   "MAC_LENGTH", "NONCE", "ROOT_OF_TRUST", "UNIQUE_ID",
   "IDENTITY_CREDENTIAL_KEY"}
HwEnforcedTags ==
  {"ALGORITHM", "AUTH_TIMEOUT", "BLOB_USAGE_REQUIREMENTS", "BLOCK_MODE",
   "CALLER_NONCE", "DIGEST", "EARLY_BOOT_ONLY", "ECIES_SINGLE_HASH_MODE",
   "EC_CURVE", "KDF", "KEY_SIZE", "MAX_USES_PER_BOOT", "MIN_MAC_LENGTH",
   "MIN_SECONDS_BETWEEN_OPS", "NO_AUTH_REQUIRED", "PADDING", "PURPOSE",
   "RSA_OAEP_MGF_DIGEST", "RSA_PUBLIC_EXPONENT",
   "TRUSTED_CONFIRMATION_REQUIRED", "TRUSTED_USER_PRESENCE_REQUIRED",
   "UNLOCKED_DEVICE_REQUIRED", "USER_SECURE_ID", "USER_AUTH_TYPE"}
   \cup (IF WithHwwskSupport THEN {"STORAGE_KEY"} ELSE {})
SwEnforcedTags ==
  {"ACTIVE_DATETIME", "ALL_USERS", "CREATION_DATETIME", "EXPORTABLE",
   "INCLUDE_UNIQUE_ID", "MAX_BOOT_LEVEL", "ORIGINATION_EXPIRE_DATETIME",
   "USAGE_COUNT_LIMIT", "USAGE_EXPIRE_DATETIME", "USER_ID"}

(* The error a tag of the description makes SetAuthorizations return.     *)
TagError(t) ==
  CASE t \in ForbiddenTags                         -> "INVALID_KEY_BLOB"
    [] t = "ROLLBACK_RESISTANCE"                   -> "ROLLBACK_RESISTANCE_UNAVAILABLE"
    [] t = "DEVICE_UNIQUE_ATTESTATION"             -> "INVALID_ARGUMENT"
    [] t = "STORAGE_KEY" /\ ~WithHwwskSupport      -> "UNIMPLEMENTED"
    [] OTHER                                       -> "OK"

(* The codes SetAuthorizations may return for a description: the error of *)
(* whichever failing tag comes first in the caller's order, else OK or an  *)
(* allocation failure of the validity checks.                              *)
SetAuthorizationsCodes(desc) ==
  LET errs == {TagError(t) : t \in desc.tags} \ {"OK"}
  IN  IF errs # {} THEN errs ELSE {"OK", "MEMORY_ALLOCATION_FAILED"}

-----------------------------------------------------------------------------
VARIABLES
  boot,          \* number of the current run of the context (0: earlier firmware)
  rotSet,        \* root_of_trust_set_
  bootKey,       \* verified_boot_key_
  bootState,     \* verified_boot_state_
  deviceLocked,  \* device_locked_
  versionSet,    \* version_info_set_
  osVersion,     \* boot_os_version_
  osPatchlevel,  \* boot_os_patchlevel_
  sessions,      \* hwkey sessions opened and never closed
  blobs,         \* key blobs the caller holds
  lastOp         \* the last call and its result

vars == <<boot, rotSet, bootKey, bootState, deviceLocked, versionSet,
          osVersion, osPatchlevel, sessions, blobs, lastOp>>

RootOfTrust == <<bootKey, bootState, deviceLocked>>

(* BuildHiddenAuthorizations: application id/data, then the three root-of- *)
(* trust entries.                                                          *)
Hidden(app) == <<app, RootOfTrust>>

BlobKeys == BootKeys \cup {Unbound, EmptyKey}

Blobs ==
  [fmt : Formats, hidden : (AppIds \cup {NoApp}) \X (BlobKeys \X BootStates \X BOOLEAN),
   alg : Algorithms \cup {Absent}, hwTags : SUBSET DescTags,
   swTags : SUBSET DescTags,
   hwOsVersion : Versions \cup {Absent}, hwOsPatchlevel : Patchlevels \cup {Absent},
   swOsVersion : Versions \cup {Absent},
   boot : 0..MaxBoots, rotSet : BOOLEAN, versionSet : BOOLEAN]

Descriptions ==
  [app : AppIds \cup {NoApp}, alg : Algorithms \cup {Absent}, tags : SUBSET DescTags]

(* Blobs written by earlier firmware: legacy format, possibly without the *)
(* version tags in hw_enforced or with OS version in sw_enforced, bound to *)
(* a root of trust a bootloader may report.                                *)
LegacyBlobs ==
  {[fmt |-> "AES_OCB", hidden |-> <<app, <<k, s, l>>>>, alg |-> alg,
    hwTags |-> {}, swTags |-> {},
    hwOsVersion |-> hv, hwOsPatchlevel |-> hp, swOsVersion |-> sv,
    boot |-> 0, rotSet |-> TRUE, versionSet |-> TRUE] :
     app \in AppIds \cup {NoApp}, k \in BootKeys, s \in {VERIFIED, SELF_SIGNED},
     l \in BOOLEAN, alg \in Algorithms, hv \in Versions \cup {Absent},
     hp \in Patchlevels \cup {Absent}, sv \in Versions \cup {Absent}}

(* DeriveMasterKey: hwkey_open fails ("open") when no handle is left;    *)
(* after a successful open, a failed buffer allocation ("alloc") or a      *)
(* failed hwkey_derive ("derive") returns without hwkey_close, leaking the *)
(* session.                                                                *)
MasterKeyFailures ==
  IF sessions >= MaxSessions THEN {"open"} ELSE {"none", "alloc", "derive"}
Leak(f) == IF f \in {"alloc", "derive"} THEN 1 ELSE 0
MasterKeyCode(f) ==
  CASE f = "none"  -> "OK"
    [] f = "alloc" -> "MEMORY_ALLOCATION_FAILED"
    [] OTHER       -> "UNKNOWN_ERROR"

(* ParseKeyBlob derives the master key, then builds the hidden set, whose *)
(* allocation may fail ("hidden").                                         *)
ParseFailures ==
  MasterKeyFailures \cup (IF "none" \in MasterKeyFailures THEN {"hidden"} ELSE {})

(* ParseKeyBlob(blob, additional_params, allow_ocb): the result code for  *)
(* prefix p, application params app and failure point f.  An AES_OCB blob  *)
(* is accepted whatever allow_ocb says.                                    *)
ParseCode(b, p, app, f) ==
  CASE p \in {"SW", "BAD"}    -> "INVALID_KEY_BLOB"
    [] f = "hidden"           -> "MEMORY_ALLOCATION_FAILED"
    [] f # "none"             -> MasterKeyCode(f)
    [] b.hidden # Hidden(app) -> "INVALID_KEY_BLOB"
    [] b.alg = Absent         -> "INVALID_KEY_BLOB"
    [] OTHER                  -> "OK"

(* Sessions leaked by a ParseKeyBlob that got past the prefix check.       *)
ParseLeak(p, f) == IF p \in {"SW", "BAD"} THEN 0 ELSE Leak(f)

(* Mutant: a stored value above the current one is overwritten.           *)
UpgradeIntegerTagNoDowngradeCheck(stored, value) ==
  [ok |-> TRUE, changed |-> stored # value, val |-> value]

(* UpgradeIntegerTag(tag, value, set, &set_changed) on the stored value.   *)
UpgradeIntegerTag(stored, value) ==
  IF stored = Absent THEN [ok |-> TRUE, changed |-> TRUE, val |-> value]
  ELSE IF stored > value THEN [ok |-> FALSE, changed |-> FALSE, val |-> stored]
  ELSE [ok |-> TRUE, changed |-> stored # value, val |-> value]

Op(name, code) == [op |-> name, code |-> code]

-----------------------------------------------------------------------------
(* The constructor, with boot_os_version_ and boot_os_patchlevel_ zero     *)
(* until set; verified_boot_state_ and device_locked_ keep the values the  *)
(* context's declaration gives them.                                       *)
ContextInit ==
  /\ rotSet = FALSE
  /\ bootKey = Unbound
  /\ bootState = InitBootState
  /\ deviceLocked = InitDeviceLocked
  /\ versionSet = FALSE
  /\ osVersion = 0
  /\ osPatchlevel = 0
  /\ sessions = 0

Init ==
  /\ boot = 1
  /\ ContextInit
  /\ blobs \in {{}} \cup {{b} : b \in LegacyBlobs}
  /\ lastOp = Op("Start", "OK")

(* The keymaster app restarts: a fresh context, the caller's blobs kept.  *)
Restart ==
  /\ boot < MaxBoots
  /\ boot' = boot + 1
  /\ rotSet' = FALSE
  /\ bootKey' = Unbound
  /\ bootState' = InitBootState
  /\ deviceLocked' = InitDeviceLocked
  /\ versionSet' = FALSE
  /\ osVersion' = 0
  /\ osPatchlevel' = 0
  /\ sessions' = 0
  /\ lastOp' = Op("Restart", "OK")
  /\ UNCHANGED blobs

(* Mutant: every call sets the version, as if version_info_set_ were      *)
(* never checked.                                                          *)
SetSystemVersionRelatch(v, p) ==
  /\ osVersion' = v /\ osPatchlevel' = p /\ versionSet' = TRUE
  /\ lastOp' = Op("SetSystemVersion", "OK")
  /\ UNCHANGED <<boot, rotSet, bootKey, bootState, deviceLocked, sessions, blobs>>

(* SetSystemVersion: the first call sets the version, later ones do not.  *)
SetSystemVersion(v, p) ==
  /\ IF ~versionSet
       THEN /\ osVersion' = v /\ osPatchlevel' = p /\ versionSet' = TRUE
       ELSE UNCHANGED <<osVersion, osPatchlevel, versionSet>>
  /\ lastOp' = Op("SetSystemVersion", "OK")
  /\ UNCHANGED <<boot, rotSet, bootKey, bootState, deviceLocked, sessions, blobs>>

(* Mutant: the root_of_trust_set_ check dropped.                          *)
SetBootParamsNoLatch(key, state, locked) ==
  /\ rotSet' = TRUE
  /\ IF state \in {VERIFIED, SELF_SIGNED}
       THEN IF key # EmptyKey
              THEN bootKey' = key /\ bootState' = state /\ deviceLocked' = locked
              ELSE bootKey' = EmptyKey /\ bootState' = UNVERIFIED /\ deviceLocked' = FALSE
       ELSE bootKey' = EmptyKey /\ bootState' = state /\ deviceLocked' = FALSE
  /\ lastOp' = Op("SetBootParams", "OK")
  /\ UNCHANGED <<boot, versionSet, osVersion, osPatchlevel, sessions, blobs>>

(* Mutant: verified_boot_key_ is not cleared first, so a call without a   *)
(* usable boot key keeps the constructor's placeholder.                    *)
SetBootParamsKeepsPlaceholder(key, state, locked) ==
  /\ IF rotSet
       THEN /\ lastOp' = Op("SetBootParams", "ROOT_OF_TRUST_ALREADY_SET")
            /\ UNCHANGED <<rotSet, bootKey, bootState, deviceLocked>>
       ELSE /\ rotSet' = TRUE
            /\ IF state \in {VERIFIED, SELF_SIGNED}
                 THEN IF key # EmptyKey
                        THEN bootKey' = key /\ bootState' = state /\ deviceLocked' = locked
                        ELSE bootKey' = bootKey /\ bootState' = UNVERIFIED /\ deviceLocked' = FALSE
                 ELSE bootKey' = bootKey /\ bootState' = state /\ deviceLocked' = FALSE
            /\ lastOp' = Op("SetBootParams", "OK")
  /\ UNCHANGED <<boot, versionSet, osVersion, osPatchlevel, sessions, blobs>>

(* Mutant: an unsigned image keeps the caller's device-locked flag.        *)
SetBootParamsUnsignedLocked(key, state, locked) ==
  /\ IF rotSet
       THEN /\ lastOp' = Op("SetBootParams", "ROOT_OF_TRUST_ALREADY_SET")
            /\ UNCHANGED <<rotSet, bootKey, bootState, deviceLocked>>
       ELSE /\ rotSet' = TRUE
            /\ IF state \in {VERIFIED, SELF_SIGNED}
                 THEN IF key # EmptyKey
                        THEN bootKey' = key /\ bootState' = state /\ deviceLocked' = locked
                        ELSE bootKey' = EmptyKey /\ bootState' = UNVERIFIED /\ deviceLocked' = FALSE
                 ELSE bootKey' = EmptyKey /\ bootState' = state /\ deviceLocked' = locked
            /\ lastOp' = Op("SetBootParams", "OK")
  /\ UNCHANGED <<boot, versionSet, osVersion, osPatchlevel, sessions, blobs>>

(* SetBootParams: rejected once the root of trust is set.  A boot key is  *)
(* kept only for a verified or self-signed boot; without one the state     *)
(* becomes unverified; only a signed image may be reported locked.         *)
SetBootParams(key, state, locked) ==
  /\ IF rotSet
       THEN /\ lastOp' = Op("SetBootParams", "ROOT_OF_TRUST_ALREADY_SET")
            /\ UNCHANGED <<rotSet, bootKey, bootState, deviceLocked>>
       ELSE /\ rotSet' = TRUE
            /\ IF state \in {VERIFIED, SELF_SIGNED}
                 THEN IF key # EmptyKey
                        THEN /\ bootKey' = key /\ bootState' = state
                             /\ deviceLocked' = locked
                        ELSE /\ bootKey' = EmptyKey /\ bootState' = UNVERIFIED
                             /\ deviceLocked' = FALSE
                 ELSE /\ bootKey' = EmptyKey /\ bootState' = state
                      /\ deviceLocked' = FALSE
            /\ lastOp' = Op("SetBootParams", "OK")
  /\ UNCHANGED <<boot, versionSet, osVersion, osPatchlevel, sessions, blobs>>

(* CreateAuthEncryptedKeyBlob builds the hidden set ("hidden" if its     *)
(* allocation fails), derives the master key, then encrypts and serializes *)
(* under AES_GCM_WITH_SW_ENFORCED ("encrypt" if EncryptKey or              *)
(* SerializeAuthEncryptedBlob fails).                                      *)
EncryptFailures ==
  {"hidden"} \cup MasterKeyFailures
    \cup (IF "none" \in MasterKeyFailures THEN {"encrypt"} ELSE {})
EncryptCode(f) ==
  CASE f = "hidden"  -> "MEMORY_ALLOCATION_FAILED"
    [] f = "encrypt" -> "UNKNOWN_ERROR"
    [] OTHER         -> MasterKeyCode(f)

(* Mutant: hw_enforced and sw_enforced passed to EncryptKey and           *)
(* SerializeAuthEncryptedBlob in swapped order.                            *)
NewBlobSwappedEnforced(app, alg, hwTags, swTags, hwV, hwP, swV) ==
  [fmt |-> "AES_GCM_WITH_SW_ENFORCED", hidden |-> Hidden(app),
   alg |-> alg, hwTags |-> swTags, swTags |-> hwTags,
   hwOsVersion |-> swV, hwOsPatchlevel |-> Absent, swOsVersion |-> hwV,
   boot |-> boot, rotSet |-> rotSet, versionSet |-> versionSet]

NewBlob(app, alg, hwTags, swTags, hwV, hwP, swV) ==
  [fmt |-> "AES_GCM_WITH_SW_ENFORCED", hidden |-> Hidden(app),
   alg |-> alg, hwTags |-> hwTags, swTags |-> swTags,
   hwOsVersion |-> hwV, hwOsPatchlevel |-> hwP, swOsVersion |-> swV,
   boot |-> boot, rotSet |-> rotSet, versionSet |-> versionSet]

(* CreateKeyBlob: SetAuthorizations, then CreateAuthEncryptedKeyBlob.     *)
CreateKeyBlob(desc) ==
  /\ Cardinality(blobs) < MaxBlobs
  /\ \E setCode \in SetAuthorizationsCodes(desc), f \in EncryptFailures :
       LET nb == NewBlob(desc.app, desc.alg, desc.tags \cap HwEnforcedTags,
                         desc.tags \cap SwEnforcedTags, osVersion, osPatchlevel, Absent)
           code == IF setCode # "OK" THEN setCode ELSE EncryptCode(f)
       IN  /\ sessions' = sessions + (IF setCode = "OK" THEN Leak(f) ELSE 0)
           /\ blobs' = IF code = "OK" THEN blobs \cup {nb} ELSE blobs
           /\ lastOp' = Op("CreateKeyBlob", code)
  /\ UNCHANGED <<boot, rotSet, bootKey, bootState, deviceLocked, versionSet,
                 osVersion, osPatchlevel>>

(* ParseKeyBlob from a caller, with the blob's prefix p and params app.   *)
ParseKeyBlob(b, p, app) ==
  /\ \E f \in ParseFailures :
       /\ sessions' = sessions + ParseLeak(p, f)
       /\ lastOp' = Op("ParseKeyBlob", ParseCode(b, p, app, f))
  /\ UNCHANGED <<boot, rotSet, bootKey, bootState, deviceLocked, versionSet,
                 osVersion, osPatchlevel, blobs>>

(* UpgradeKeyBlob: parse with allow_ocb; on a zero boot OS version reset  *)
(* an OS version in sw_enforced to zero; upgrade OS version and patchlevel *)
(* in hw_enforced, refusing a downgrade; re-encrypt only if changed.  The  *)
(* caller replaces the old blob by the new one.                            *)
UpgradeKeyBlob(b, p, app) ==
  /\ \E f \in ParseFailures :
       LET parseCode == ParseCode(b, p, app, f)
           swReset   == osVersion = 0 /\ b.swOsVersion \notin {Absent, osVersion}
           swV       == IF swReset THEN osVersion ELSE b.swOsVersion
           ver       == UpgradeIntegerTag(b.hwOsVersion, osVersion)
           pl        == UpgradeIntegerTag(b.hwOsPatchlevel, osPatchlevel)
           changed   == swReset \/ ver.changed \/ pl.changed
       IN  \/ /\ parseCode # "OK"
               /\ sessions' = sessions + ParseLeak(p, f)
               /\ lastOp' = Op("UpgradeKeyBlob", parseCode)
               /\ UNCHANGED blobs
           \/ /\ parseCode = "OK"
               /\ ~(ver.ok /\ pl.ok)
               /\ sessions' = sessions + ParseLeak(p, f)
               /\ lastOp' = Op("UpgradeKeyBlob", "INVALID_ARGUMENT")
               /\ UNCHANGED blobs
           \/ /\ parseCode = "OK"
               /\ ver.ok /\ pl.ok /\ ~changed
               /\ sessions' = sessions + ParseLeak(p, f)
               /\ lastOp' = Op("UpgradeKeyBlob", "OK")
               /\ UNCHANGED blobs
           \/ /\ parseCode = "OK"
               /\ ver.ok /\ pl.ok /\ changed
               /\ \E f2 \in EncryptFailures :
                    LET nb   == NewBlob(app, b.alg, b.hwTags, b.swTags, ver.val, pl.val, swV)
                        code == EncryptCode(f2)
                    IN  /\ sessions' = sessions + ParseLeak(p, f) + Leak(f2)
                        /\ blobs' = IF code = "OK" THEN (blobs \ {b}) \cup {nb} ELSE blobs
                        /\ lastOp' = Op("UpgradeKeyBlob", code)
  /\ UNCHANGED <<boot, rotSet, bootKey, bootState, deviceLocked, versionSet,
                 osVersion, osPatchlevel>>

Next ==
  \/ Restart
  \/ \E v \in Versions, p \in Patchlevels : SetSystemVersion(v, p)
  \/ \E k \in BootKeys \cup {EmptyKey}, s \in BootStates, l \in BOOLEAN :
       SetBootParams(k, s, l)
  \/ \E desc \in Descriptions : CreateKeyBlob(desc)
  \/ \E b \in blobs, p \in Prefixes, app \in AppIds \cup {NoApp} :
       \/ ParseKeyBlob(b, p, app)
       \/ UpgradeKeyBlob(b, p, app)

Spec == Init /\ [][Next]_vars

(* The state without lastOp, which no action reads: the view for runs     *)
(* whose properties do not mention it.                                     *)
ContextView == <<boot, rotSet, bootKey, bootState, deviceLocked, versionSet,
                 osVersion, osPatchlevel, sessions, blobs>>

-----------------------------------------------------------------------------
(***************************************************************************)
(* Properties.                                                             *)
(***************************************************************************)
Codes ==
  {"OK", "INVALID_KEY_BLOB", "ROLLBACK_RESISTANCE_UNAVAILABLE",
   "INVALID_ARGUMENT", "UNIMPLEMENTED", "MEMORY_ALLOCATION_FAILED",
   "UNKNOWN_ERROR", "ROOT_OF_TRUST_ALREADY_SET"}
OpNames ==
  {"Start", "Restart", "SetSystemVersion", "SetBootParams", "CreateKeyBlob",
   "ParseKeyBlob", "UpgradeKeyBlob"}

TypeOK ==
  /\ boot \in 1..MaxBoots
  /\ rotSet \in BOOLEAN
  /\ bootKey \in BlobKeys
  /\ bootState \in BootStates
  /\ deviceLocked \in BOOLEAN
  /\ versionSet \in BOOLEAN
  /\ osVersion \in Versions
  /\ osPatchlevel \in Patchlevels
  /\ sessions \in 0..MaxSessions
  /\ blobs \subseteq Blobs
  /\ lastOp \in [op : OpNames, code : Codes]

(* Once SetBootParams has run, the root of trust the context binds keys   *)
(* to is one a bootloader may legitimately report: a boot key is kept      *)
(* exactly for a verified or self-signed boot, and only such a boot is     *)
(* reported locked.                                                        *)
RootOfTrustConsistent ==
  rotSet =>
    /\ bootState \in {VERIFIED, SELF_SIGNED} <=> bootKey \in BootKeys
    /\ deviceLocked => bootKey \in BootKeys

(* A blob created or upgraded after the root of trust was set stays bound *)
(* to the root of trust for the rest of that run of the context: no later  *)
(* SetBootParams (or any other call) makes BuildHiddenAuthorizations       *)
(* rebuild a different binding, so ParseKeyBlob keeps decrypting it.       *)
KeysUsableWithinBoot ==
  \A b \in blobs : b.boot = boot /\ b.rotSet => b.hidden[2] = RootOfTrust

(* A key created in this run before the bootloader reported the root of  *)
(* trust is bound to the constructor's placeholder boot key "Unbound"; once *)
(* SetBootParams has run, no such key decrypts for the rest of the run, so  *)
(* a key never outlives the placeholder binding it was made under.         *)
PlaceholderKeysUnusable ==
  rotSet => \A b \in blobs : b.boot = boot /\ ~b.rotSet => b.hidden[2] # RootOfTrust

(* What a second UpgradeKeyBlob of blob b would do now: TRUE when it would *)
(* return OK without a new blob.                                           *)
UpToDate(b) ==
  LET ver == UpgradeIntegerTag(b.hwOsVersion, osVersion)
      pl  == UpgradeIntegerTag(b.hwOsPatchlevel, osPatchlevel)
  IN  /\ ver.ok /\ pl.ok /\ ~ver.changed /\ ~pl.changed
      /\ ~(osVersion = 0 /\ b.swOsVersion \notin {Absent, osVersion})

(* Upgrading is idempotent: a blob written by CreateKeyBlob or            *)
(* UpgradeKeyBlob after SetSystemVersion in the current run needs no       *)
(* further upgrade for the rest of that run.                               *)
UpgradeIdempotent ==
  \A b \in blobs : b.boot = boot /\ b.versionSet => UpToDate(b)

(* The hw-enforced OS version and patchlevel never go back: neither ever  *)
(* goes from present to absent or to a lower value.                        *)
NotOlder(old, new) ==
  /\ old.hwOsVersion # Absent =>
       new.hwOsVersion # Absent /\ new.hwOsVersion >= old.hwOsVersion
  /\ old.hwOsPatchlevel # Absent =>
       new.hwOsPatchlevel # Absent /\ new.hwOsPatchlevel >= old.hwOsPatchlevel

(* UpgradeKeyBlob never returns a blob whose hw-enforced OS version or    *)
(* patchlevel is older than the blob it was given, and a failed upgrade    *)
(* leaves the caller its old blob: every blob the caller drops is covered  *)
(* by a blob it holds afterwards that is not older.                        *)
NoVersionRollback ==
  [][\A old \in blobs \ blobs' : \E new \in blobs' : NotOlder(old, new)]_vars

(* The key a blob holds, as KeyStore sees it: the hidden authorizations it *)
(* is bound to, its algorithm and tags, and its hw-enforced version and    *)
(* patchlevel.                                                             *)
Identities ==
  [hidden : (AppIds \cup {NoApp}) \X (BlobKeys \X BootStates \X BOOLEAN),
   alg : Algorithms \cup {Absent}, hwTags : SUBSET DescTags, swTags : SUBSET DescTags]
KeyOf(b) ==
  <<[hidden |-> b.hidden, alg |-> b.alg, hwTags |-> b.hwTags, swTags |-> b.swTags],
    b.hwOsVersion, b.hwOsPatchlevel>>

Store == INSTANCE KeyStore WITH keys <- {KeyOf(b) : b \in blobs}

(* Spec 4.3/4.4: the caller's blobs behave as the abstract KeyStore.       *)
(* UpgradeKeyBlob re-encrypts under upgrade_params, the params its         *)
(* ParseKeyBlob just authenticated, so the new blob keeps the old one's    *)
(* application and root-of-trust binding, algorithm and tags, and only     *)
(* moves its version and patchlevel forward; no call loses a key.          *)
KeysKept == Store!Spec

(* The spec (4.4): on an unnumbered development build (boot OS version 0) *)
(* upgrading forces the blob's stored OS version to 0, so a key that       *)
(* parses is never refused as a downgrade.                                 *)
UpgradeToDevBuildAccepted ==
  lastOp.op = "UpgradeKeyBlob" /\ versionSet /\ osVersion = 0 =>
    lastOp.code # "INVALID_ARGUMENT"

(* The spec (4.5): the hwkey session DeriveMasterKey opens is released on *)
(* every exit path, so no session stays open between calls.                *)
HwkeySessionsReleased == sessions = 0

=============================================================================
