----------------------- MODULE KeymasterContextProofs -----------------------
(***************************************************************************)
(* Proofs about KeymasterContext for every value of its constants.         *)
(***************************************************************************)
EXTENDS KeymasterContext, TLAPS

USE ConstantsAssumption
USE DEF VERIFIED, SELF_SIGNED, UNVERIFIED, FAILED, BootStates, Formats,
        BlobKeys, Codes, OpNames, Op

(* ParseKeyBlob succeeds only past the prefix check and with no failure   *)
(* of the master key derivation or of the hidden set.                      *)
LEMMA ParseCodeOK ==
  ASSUME NEW b, NEW p, NEW app, NEW f, ParseCode(b, p, app, f) = "OK"
  PROVE  p \notin {"SW", "BAD"} /\ f = "none" /\ b.hidden = Hidden(app)
BY DEF ParseCode, MasterKeyCode

(* Every result code an action records is one of Codes.                    *)
LEMMA CodesTyped ==
  /\ \A f : MasterKeyCode(f) \in Codes
  /\ \A f : EncryptCode(f) \in Codes
  /\ \A b, p, app, f : ParseCode(b, p, app, f) \in Codes
  /\ \A desc \in Descriptions : SetAuthorizationsCodes(desc) \subseteq Codes
BY DEF MasterKeyCode, EncryptCode, ParseCode, SetAuthorizationsCodes,
       TagError, Codes

(* A failure point leaks at most the one session it opened, and only when *)
(* a handle was left.                                                      *)
LEMMA LeakBounded ==
  ASSUME sessions \in 0..MaxSessions
  PROVE  /\ \A f \in MasterKeyFailures : sessions + Leak(f) \in 0..MaxSessions
         /\ \A f \in ParseFailures : sessions + Leak(f) \in 0..MaxSessions
         /\ \A f \in EncryptFailures : sessions + Leak(f) \in 0..MaxSessions
BY DEF MasterKeyFailures, ParseFailures, EncryptFailures, Leak

(* UpgradeIntegerTag keeps a stored value within the set it ranges over.  *)
LEMMA UpgradeIntegerTagTyped ==
  ASSUME NEW S, NEW stored \in S \cup {Absent}, NEW value \in S
  PROVE  /\ UpgradeIntegerTag(stored, value).val \in S
         /\ UpgradeIntegerTag(stored, value).ok \in BOOLEAN
         /\ UpgradeIntegerTag(stored, value).changed \in BOOLEAN
BY DEF UpgradeIntegerTag

(* A blob written now is a blob of the model's type.                       *)
LEMMA NewBlobTyped ==
  ASSUME TypeOK,
         NEW app \in AppIds \cup {NoApp}, NEW alg \in Algorithms \cup {Absent},
         NEW hwT \in SUBSET DescTags, NEW swT \in SUBSET DescTags,
         NEW hwV \in Versions \cup {Absent}, NEW hwP \in Patchlevels \cup {Absent},
         NEW swV \in Versions \cup {Absent}
  PROVE  NewBlob(app, alg, hwT, swT, hwV, hwP, swV) \in Blobs
BY DEF TypeOK, NewBlob, Blobs, Hidden, RootOfTrust, BlobKeys

(* Every reachable state is of the model's type; the other proofs rest on *)
(* it.                                                                     *)
LEMMA TypeCorrect == Spec => []TypeOK
<1>1. Init => TypeOK
  <2> SUFFICES ASSUME Init PROVE TypeOK
    OBVIOUS
  <2>1. LegacyBlobs \subseteq Blobs
    <3> SUFFICES ASSUME NEW app \in AppIds \cup {NoApp}, NEW k \in BootKeys,
                        NEW s \in {VERIFIED, SELF_SIGNED}, NEW l \in BOOLEAN,
                        NEW alg \in Algorithms, NEW hv \in Versions \cup {Absent},
                        NEW hp \in Patchlevels \cup {Absent}, NEW sv \in Versions \cup {Absent}
                 PROVE  [fmt |-> "AES_OCB", hidden |-> <<app, <<k, s, l>>>>, alg |-> alg,
                         hwTags |-> {}, swTags |-> {},
                         hwOsVersion |-> hv, hwOsPatchlevel |-> hp, swOsVersion |-> sv,
                         boot |-> 0, rotSet |-> TRUE, versionSet |-> TRUE] \in Blobs
      BY DEF LegacyBlobs
    <3> QED
      BY DEF Blobs
  <2>2. blobs \subseteq Blobs
    BY <2>1 DEF Init
  <2>3. boot \in 1..MaxBoots /\ sessions \in 0..MaxSessions
    BY DEF Init, ContextInit
  <2>4. bootKey \in BlobKeys /\ bootState \in BootStates /\ deviceLocked \in BOOLEAN
    BY DEF Init, ContextInit
  <2>5. QED
    BY <2>2, <2>3, <2>4 DEF Init, ContextInit, TypeOK
<1>2. TypeOK /\ [Next]_vars => TypeOK'
  <2> SUFFICES ASSUME TypeOK, [Next]_vars PROVE TypeOK'
    OBVIOUS
  <2>1. CASE Restart
    <3>1. boot' \in 1..MaxBoots
      BY <2>1 DEF Restart, TypeOK
    <3>2. bootState' \in BootStates /\ deviceLocked' \in BOOLEAN
      BY <2>1 DEF Restart
    <3>3. osVersion' \in Versions /\ osPatchlevel' \in Patchlevels
      BY <2>1 DEF Restart
    <3>4. sessions' \in 0..MaxSessions /\ bootKey' \in BlobKeys
      BY <2>1 DEF Restart
    <3>5. lastOp' \in [op : OpNames, code : Codes]
      BY <2>1 DEF Restart
    <3>6. blobs' \subseteq Blobs
      BY <2>1 DEF Restart, TypeOK
    <3>7. QED
      BY <2>1, <3>1, <3>2, <3>3, <3>4, <3>5, <3>6 DEF Restart, TypeOK
  <2>2. ASSUME NEW v \in Versions, NEW p \in Patchlevels, SetSystemVersion(v, p)
        PROVE TypeOK'
    BY <2>2 DEF SetSystemVersion, TypeOK, Op, OpNames, Codes
  <2>3. ASSUME NEW k \in BootKeys \cup {EmptyKey}, NEW s \in BootStates,
               NEW l \in BOOLEAN, SetBootParams(k, s, l)
        PROVE TypeOK'
    <3>1. CASE rotSet
      BY <2>3, <3>1 DEF SetBootParams, TypeOK
    <3>2. CASE ~rotSet
      <4>1. bootKey' \in BlobKeys /\ bootState' \in BootStates /\ deviceLocked' \in BOOLEAN
        BY <2>3, <3>2 DEF SetBootParams
      <4>2. QED
        BY <2>3, <3>2, <4>1 DEF SetBootParams, TypeOK
    <3>3. QED
      BY <3>1, <3>2
  <2>4. ASSUME NEW desc \in Descriptions, CreateKeyBlob(desc)
        PROVE TypeOK'
    <3>1. PICK setCode \in SetAuthorizationsCodes(desc), f \in EncryptFailures :
            LET nb == NewBlob(desc.app, desc.alg, desc.tags \cap HwEnforcedTags,
                              desc.tags \cap SwEnforcedTags, osVersion, osPatchlevel, Absent)
                code == IF setCode # "OK" THEN setCode ELSE EncryptCode(f)
            IN  /\ sessions' = sessions + (IF setCode = "OK" THEN Leak(f) ELSE 0)
                /\ blobs' = IF code = "OK" THEN blobs \cup {nb} ELSE blobs
                /\ lastOp' = Op("CreateKeyBlob", code)
      BY <2>4 DEF CreateKeyBlob
    <3>2. NewBlob(desc.app, desc.alg, desc.tags \cap HwEnforcedTags,
                  desc.tags \cap SwEnforcedTags, osVersion, osPatchlevel, Absent) \in Blobs
      BY NewBlobTyped DEF Descriptions, TypeOK
    <3>3. sessions' \in 0..MaxSessions
      BY <3>1, LeakBounded DEF TypeOK
    <3>4. lastOp' \in [op : OpNames, code : Codes]
      BY <3>1, CodesTyped DEF Op, OpNames
    <3>5. UNCHANGED <<boot, rotSet, bootKey, bootState, deviceLocked, versionSet,
                      osVersion, osPatchlevel>>
      BY <2>4 DEF CreateKeyBlob
    <3>6. QED
      BY <3>1, <3>2, <3>3, <3>4, <3>5 DEF TypeOK
  <2>5. ASSUME NEW b \in blobs, NEW p \in Prefixes, NEW app \in AppIds \cup {NoApp},
               ParseKeyBlob(b, p, app)
        PROVE TypeOK'
    <3>1. PICK f \in ParseFailures :
            /\ sessions' = sessions + ParseLeak(p, f)
            /\ lastOp' = Op("ParseKeyBlob", ParseCode(b, p, app, f))
      BY <2>5 DEF ParseKeyBlob
    <3>2. sessions' \in 0..MaxSessions
      BY <3>1, LeakBounded DEF TypeOK, ParseLeak
    <3>3. QED
      BY <2>5, <3>1, <3>2, CodesTyped DEF ParseKeyBlob, TypeOK, Op, OpNames
  <2>6. ASSUME NEW b \in blobs, NEW p \in Prefixes, NEW app \in AppIds \cup {NoApp},
               UpgradeKeyBlob(b, p, app)
        PROVE TypeOK'
    <3>1. b \in Blobs
      BY DEF TypeOK
    <3>2. PICK f \in ParseFailures : UpgradeKeyBlob(b, p, app)!1!(f)
      BY <2>6 DEF UpgradeKeyBlob
    <3> DEFINE parseCode == ParseCode(b, p, app, f)
               swReset   == osVersion = 0 /\ b.swOsVersion \notin {Absent, osVersion}
               swV       == IF swReset THEN osVersion ELSE b.swOsVersion
               ver       == UpgradeIntegerTag(b.hwOsVersion, osVersion)
               pl        == UpgradeIntegerTag(b.hwOsPatchlevel, osPatchlevel)
               changed   == swReset \/ ver.changed \/ pl.changed
    <3>3. UNCHANGED <<boot, rotSet, bootKey, bootState, deviceLocked, versionSet,
                      osVersion, osPatchlevel>>
      BY <2>6 DEF UpgradeKeyBlob
    <3>4. sessions + ParseLeak(p, f) \in 0..MaxSessions
      BY LeakBounded DEF TypeOK, ParseLeak
    <3>5. CASE /\ parseCode # "OK"
               /\ sessions' = sessions + ParseLeak(p, f)
               /\ lastOp' = Op("UpgradeKeyBlob", parseCode)
               /\ UNCHANGED blobs
      BY <3>3, <3>4, <3>5, CodesTyped DEF TypeOK
    <3>6. CASE /\ sessions' = sessions + ParseLeak(p, f)
               /\ lastOp' = Op("UpgradeKeyBlob", "INVALID_ARGUMENT")
               /\ UNCHANGED blobs
      BY <3>3, <3>4, <3>6 DEF TypeOK
    <3>7. CASE /\ sessions' = sessions + ParseLeak(p, f)
               /\ lastOp' = Op("UpgradeKeyBlob", "OK")
               /\ UNCHANGED blobs
      BY <3>3, <3>4, <3>7 DEF TypeOK
    <3>8. CASE /\ parseCode = "OK"
               /\ \E f2 \in EncryptFailures :
                    LET nb   == NewBlob(app, b.alg, b.hwTags, b.swTags, ver.val, pl.val, swV)
                        code == EncryptCode(f2)
                    IN  /\ sessions' = sessions + ParseLeak(p, f) + Leak(f2)
                        /\ blobs' = IF code = "OK" THEN (blobs \ {b}) \cup {nb} ELSE blobs
                        /\ lastOp' = Op("UpgradeKeyBlob", code)
      <4>1. ParseLeak(p, f) = 0
        BY <3>8, ParseCodeOK DEF ParseLeak, Leak
      <4>2. PICK f2 \in EncryptFailures :
              LET nb   == NewBlob(app, b.alg, b.hwTags, b.swTags, ver.val, pl.val, swV)
                  code == EncryptCode(f2)
              IN  /\ sessions' = sessions + ParseLeak(p, f) + Leak(f2)
                  /\ blobs' = IF code = "OK" THEN (blobs \ {b}) \cup {nb} ELSE blobs
                  /\ lastOp' = Op("UpgradeKeyBlob", code)
        BY <3>8
      <4>3. ver.val \in Versions /\ pl.val \in Patchlevels /\ swV \in Versions \cup {Absent}
        BY <3>1, UpgradeIntegerTagTyped DEF Blobs, TypeOK
      <4>4. NewBlob(app, b.alg, b.hwTags, b.swTags, ver.val, pl.val, swV) \in Blobs
        <5>1. /\ b.alg \in Algorithms \cup {Absent}
              /\ b.hwTags \in SUBSET DescTags /\ b.swTags \in SUBSET DescTags
          BY <3>1 DEF Blobs
        <5>2. QED
          BY <4>3, <5>1, NewBlobTyped
      <4>5. sessions' \in 0..MaxSessions
        BY <4>1, <4>2, LeakBounded DEF TypeOK
      <4>6. QED
        BY <3>3, <4>2, <4>4, <4>5, CodesTyped DEF TypeOK
    <3>9. QED
      BY <3>2, <3>5, <3>6, <3>7, <3>8
  <2>7. CASE UNCHANGED vars
    BY <2>7 DEF vars, TypeOK
  <2>8. QED
    BY <2>1, <2>2, <2>3, <2>4, <2>5, <2>6, <2>7 DEF Next
<1>3. QED
  BY <1>1, <1>2, PTL DEF Spec

-----------------------------------------------------------------------------
(* A blob this run writes is bound to the current root of trust and run.  *)
LEMMA NewBlobBound ==
  ASSUME NEW app, NEW alg, NEW hwT, NEW swT, NEW hwV, NEW hwP, NEW swV
  PROVE  LET nb == NewBlob(app, alg, hwT, swT, hwV, hwP, swV)
         IN  nb.boot = boot /\ nb.rotSet = rotSet /\ nb.hidden[2] = RootOfTrust
BY DEF NewBlob, Hidden

(* The inductive form of KeysUsableWithinBoot: no blob is from a later run *)
(* than the current one, and a blob written in this run after             *)
(* SetBootParams implies the root of trust is still set (so SetBootParams  *)
(* cannot run again before the next restart) and still the one the blob   *)
(* is bound to.                                                            *)
BindingInv ==
  \A b \in blobs :
    /\ b.boot <= boot
    /\ b.boot = boot /\ b.rotSet => rotSet /\ b.hidden[2] = RootOfTrust

(* The root-of-trust invariants, given the type invariant.                 *)
RotInv == RootOfTrustConsistent /\ BindingInv

(* A step that keeps the run and the root of trust, and adds only blobs    *)
(* bound to them, keeps BindingInv.                                        *)
LEMMA BindingKept ==
  ASSUME TypeOK, BindingInv,
         UNCHANGED <<boot, rotSet, bootKey, bootState, deviceLocked>>,
         \A nb \in blobs' \ blobs :
           nb.boot = boot /\ nb.rotSet = rotSet /\ nb.hidden[2] = RootOfTrust
  PROVE  BindingInv'
<1>1. \A b \in blobs' : b.boot <= boot'
  BY DEF TypeOK, BindingInv
<1>2. \A b \in blobs' : b.boot = boot' /\ b.rotSet => rotSet' /\ b.hidden[2] = RootOfTrust'
  BY DEF BindingInv, RootOfTrust
<1>3. QED
  BY <1>1, <1>2 DEF BindingInv

(* Once SetBootParams has run, the context's root of trust is one a        *)
(* bootloader may report, and a blob CreateKeyBlob or UpgradeKeyBlob wrote *)
(* after it stays decryptable by ParseKeyBlob until the next restart: this *)
(* holds for all key, state, version and bound sets.                       *)
LEMMA RotInvInit == Init => RotInv
BY DEF Init, ContextInit, RotInv, RootOfTrustConsistent, BindingInv, LegacyBlobs

LEMMA RotInvStep == TypeOK /\ RotInv /\ [Next]_vars => RotInv'
<1> SUFFICES ASSUME TypeOK, RotInv, [Next]_vars PROVE RotInv'
  OBVIOUS
<1>1. CASE Restart
  <2>1. RootOfTrustConsistent'
    BY <1>1 DEF Restart, RootOfTrustConsistent
  <2>2. BindingInv'
    BY <1>1 DEF Restart, TypeOK, Blobs, RotInv, BindingInv
  <2>3. QED
    BY <2>1, <2>2 DEF RotInv
<1>2. ASSUME NEW v \in Versions, NEW pl \in Patchlevels, SetSystemVersion(v, pl)
      PROVE RotInv'
  BY <1>2, BindingKept DEF SetSystemVersion, RotInv, RootOfTrustConsistent
<1>3. ASSUME NEW k \in BootKeys \cup {EmptyKey}, NEW s \in BootStates,
             NEW l \in BOOLEAN, SetBootParams(k, s, l)
      PROVE RotInv'
  <2>1. CASE rotSet
    BY <1>3, <2>1, BindingKept DEF SetBootParams, RotInv, RootOfTrustConsistent
  <2>2. CASE ~rotSet
    <3>1. RootOfTrustConsistent'
      BY <1>3, <2>2 DEF SetBootParams, RootOfTrustConsistent
    <3>2. \A b \in blobs : ~(b.boot = boot /\ b.rotSet)
      BY <2>2 DEF RotInv, BindingInv
    <3>3. BindingInv'
      BY <1>3, <2>2, <3>2 DEF SetBootParams, RotInv, BindingInv
    <3>4. QED
      BY <3>1, <3>3 DEF RotInv
  <2>3. QED
    BY <2>1, <2>2
<1>4. ASSUME NEW desc \in Descriptions, CreateKeyBlob(desc)
      PROVE RotInv'
  <2>1. PICK setCode \in SetAuthorizationsCodes(desc), f \in EncryptFailures :
          LET nb == NewBlob(desc.app, desc.alg, desc.tags \cap HwEnforcedTags,
                            desc.tags \cap SwEnforcedTags, osVersion, osPatchlevel, Absent)
              code == IF setCode # "OK" THEN setCode ELSE EncryptCode(f)
          IN  blobs' = IF code = "OK" THEN blobs \cup {nb} ELSE blobs
    BY <1>4 DEF CreateKeyBlob
  <2>2. \A nb \in blobs' \ blobs :
          nb.boot = boot /\ nb.rotSet = rotSet /\ nb.hidden[2] = RootOfTrust
    BY <2>1, NewBlobBound
  <2>3. QED
    BY <1>4, <2>2, BindingKept DEF CreateKeyBlob, RotInv, RootOfTrustConsistent
<1>5. ASSUME NEW b \in blobs, NEW p \in Prefixes, NEW app \in AppIds \cup {NoApp},
             ParseKeyBlob(b, p, app)
      PROVE RotInv'
  BY <1>5, BindingKept DEF ParseKeyBlob, RotInv, RootOfTrustConsistent
<1>6. ASSUME NEW b \in blobs, NEW p \in Prefixes, NEW app \in AppIds \cup {NoApp},
             UpgradeKeyBlob(b, p, app)
      PROVE RotInv'
  <2>1. PICK f \in ParseFailures : UpgradeKeyBlob(b, p, app)!1!(f)
    BY <1>6 DEF UpgradeKeyBlob
  <2> DEFINE swReset   == osVersion = 0 /\ b.swOsVersion \notin {Absent, osVersion}
             swV       == IF swReset THEN osVersion ELSE b.swOsVersion
             ver       == UpgradeIntegerTag(b.hwOsVersion, osVersion)
             pl        == UpgradeIntegerTag(b.hwOsPatchlevel, osPatchlevel)
             nbs       == {NewBlob(app, b.alg, b.hwTags, b.swTags, ver.val, pl.val, swV)}
  <2>2. blobs' \subseteq blobs \cup nbs
    BY <2>1
  <2>3. \A nb \in blobs' \ blobs :
          nb.boot = boot /\ nb.rotSet = rotSet /\ nb.hidden[2] = RootOfTrust
    BY <2>2, NewBlobBound
  <2>4. QED
    BY <1>6, <2>3, BindingKept DEF UpgradeKeyBlob, RotInv, RootOfTrustConsistent
<1>7. CASE UNCHANGED vars
  BY <1>7, BindingKept DEF vars, RotInv, RootOfTrustConsistent
<1>8. QED
  BY <1>1, <1>2, <1>3, <1>4, <1>5, <1>6, <1>7 DEF Next

(* Once SetBootParams has run, the context's root of trust is one a        *)
(* bootloader may report, and a blob CreateKeyBlob or UpgradeKeyBlob wrote *)
(* after it stays decryptable by ParseKeyBlob until the next restart: this *)
(* holds for all key, state, version and bound sets.                       *)
THEOREM RootOfTrustBinding ==
  Spec => [](RootOfTrustConsistent /\ KeysUsableWithinBoot)
<1>3. RotInv => RootOfTrustConsistent /\ KeysUsableWithinBoot
  BY DEF RotInv, BindingInv, KeysUsableWithinBoot
<1>4. QED
  BY RotInvInit, RotInvStep, <1>3, TypeCorrect, PTL DEF Spec

(* For every key and state set: once SetBootParams has run, the root of   *)
(* trust the context reports and binds keys to keeps a boot key exactly    *)
(* for a verified or self-signed boot, and is locked only for such a boot. *)
THEOREM RootOfTrustSound == Spec => []RootOfTrustConsistent
<1>1. RotInv => RootOfTrustConsistent
  BY DEF RotInv
<1>2. QED
  BY RotInvInit, RotInvStep, <1>1, TypeCorrect, PTL DEF Spec

-----------------------------------------------------------------------------
(* The placeholder binding.  Until SetBootParams runs the boot key is the  *)
(* constructor's "Unbound", and after it never is; a blob written in this  *)
(* run before SetBootParams carries that placeholder.                      *)
PlaceholderInv ==
  /\ rotSet <=> bootKey # Unbound
  /\ \A b \in blobs : b.boot = boot /\ ~b.rotSet => b.hidden[2][1] = Unbound

(* A step that keeps the run and the root of trust, and adds only blobs    *)
(* bound to them, keeps PlaceholderInv.                                    *)
LEMMA PlaceholderKept ==
  ASSUME PlaceholderInv,
         UNCHANGED <<boot, rotSet, bootKey, bootState, deviceLocked>>,
         \A nb \in blobs' \ blobs :
           nb.boot = boot /\ nb.rotSet = rotSet /\ nb.hidden[2] = RootOfTrust
  PROVE  PlaceholderInv'
BY DEF PlaceholderInv, RootOfTrust

LEMMA PlaceholderStep ==
  TypeOK /\ RotInv /\ PlaceholderInv /\ [Next]_vars => PlaceholderInv'
<1> SUFFICES ASSUME TypeOK, RotInv, PlaceholderInv, [Next]_vars
             PROVE  PlaceholderInv'
  OBVIOUS
<1>1. CASE Restart
  <2>1. \A b \in blobs : b.boot < boot'
    BY <1>1 DEF Restart, TypeOK, Blobs, RotInv, BindingInv
  <2>2. QED
    BY <1>1, <2>1 DEF Restart, PlaceholderInv
<1>2. ASSUME NEW v \in Versions, NEW pl \in Patchlevels, SetSystemVersion(v, pl)
      PROVE PlaceholderInv'
  BY <1>2, PlaceholderKept DEF SetSystemVersion
<1>3. ASSUME NEW k \in BootKeys \cup {EmptyKey}, NEW st \in BootStates,
             NEW l \in BOOLEAN, SetBootParams(k, st, l)
      PROVE PlaceholderInv'
  <2>1. CASE rotSet
    BY <1>3, <2>1, PlaceholderKept DEF SetBootParams
  <2>2. CASE ~rotSet
    <3>1. rotSet' /\ bootKey' \in BootKeys \cup {EmptyKey}
      BY <1>3, <2>2 DEF SetBootParams
    <3>2. UNCHANGED <<boot, blobs>>
      BY <1>3 DEF SetBootParams
    <3>3. QED
      BY <3>1, <3>2 DEF PlaceholderInv
  <2>3. QED
    BY <2>1, <2>2
<1>4. ASSUME NEW desc \in Descriptions, CreateKeyBlob(desc)
      PROVE PlaceholderInv'
  <2>1. PICK setCode \in SetAuthorizationsCodes(desc), f \in EncryptFailures :
          LET nb == NewBlob(desc.app, desc.alg, desc.tags \cap HwEnforcedTags,
                            desc.tags \cap SwEnforcedTags, osVersion, osPatchlevel, Absent)
              code == IF setCode # "OK" THEN setCode ELSE EncryptCode(f)
          IN  blobs' = IF code = "OK" THEN blobs \cup {nb} ELSE blobs
    BY <1>4 DEF CreateKeyBlob
  <2>2. \A nb \in blobs' \ blobs :
          nb.boot = boot /\ nb.rotSet = rotSet /\ nb.hidden[2] = RootOfTrust
    BY <2>1, NewBlobBound
  <2>3. QED
    BY <1>4, <2>2, PlaceholderKept DEF CreateKeyBlob
<1>5. ASSUME NEW b \in blobs, NEW p \in Prefixes, NEW app \in AppIds \cup {NoApp},
             ParseKeyBlob(b, p, app)
      PROVE PlaceholderInv'
  BY <1>5, PlaceholderKept DEF ParseKeyBlob
<1>6. ASSUME NEW b \in blobs, NEW p \in Prefixes, NEW app \in AppIds \cup {NoApp},
             UpgradeKeyBlob(b, p, app)
      PROVE PlaceholderInv'
  <2>1. PICK f \in ParseFailures : UpgradeKeyBlob(b, p, app)!1!(f)
    BY <1>6 DEF UpgradeKeyBlob
  <2> DEFINE swReset   == osVersion = 0 /\ b.swOsVersion \notin {Absent, osVersion}
             swV       == IF swReset THEN osVersion ELSE b.swOsVersion
             ver       == UpgradeIntegerTag(b.hwOsVersion, osVersion)
             pl        == UpgradeIntegerTag(b.hwOsPatchlevel, osPatchlevel)
             nbs       == {NewBlob(app, b.alg, b.hwTags, b.swTags, ver.val, pl.val, swV)}
  <2>2. blobs' \subseteq blobs \cup nbs
    BY <2>1
  <2>3. \A nb \in blobs' \ blobs :
          nb.boot = boot /\ nb.rotSet = rotSet /\ nb.hidden[2] = RootOfTrust
    BY <2>2, NewBlobBound
  <2>4. QED
    BY <1>6, <2>3, PlaceholderKept DEF UpgradeKeyBlob
<1>7. CASE UNCHANGED vars
  BY <1>7, PlaceholderKept DEF vars
<1>8. QED
  BY <1>1, <1>2, <1>3, <1>4, <1>5, <1>6, <1>7 DEF Next

(* For every key set: a key CreateKeyBlob wrote in a run before the        *)
(* bootloader's SetBootParams, bound to the constructor's placeholder boot *)
(* key, is never decryptable by ParseKeyBlob in that run once the root of *)
(* trust is set.                                                           *)
THEOREM PlaceholderBindingDies == Spec => []PlaceholderKeysUnusable
<1>1. Init => PlaceholderInv
  BY DEF Init, ContextInit, PlaceholderInv, LegacyBlobs
<1>2. PlaceholderInv => PlaceholderKeysUnusable
  BY DEF PlaceholderInv, PlaceholderKeysUnusable, RootOfTrust
<1>3. QED
  BY <1>1, <1>2, PlaceholderStep, RotInvInit, RotInvStep, TypeCorrect, PTL DEF Spec

====
