------------------------ MODULE KeymasterStoreProofs ------------------------
(***************************************************************************)
(* KeymasterContext implements the abstract KeyStore under the mapping    *)
(* keys = {KeyOf(b) : b \in blobs}: every step of the context adds a key,  *)
(* replaces one by a later version of the same key, or leaves the keys     *)
(* alone.                                                                  *)
(***************************************************************************)
EXTENDS KeymasterUpgradeProofs

USE ConstantsAssumption
USE DEF VERIFIED, SELF_SIGNED, UNVERIFIED, FAILED, BootStates, BlobKeys

(* The abstract key of a blob of the model's type is a key of KeyStore.   *)
LEMMA KeyOfTyped ==
  ASSUME NEW b \in Blobs PROVE KeyOf(b) \in Store!Keys
BY DEF KeyOf, Blobs, Identities, Store!Keys

LEMMA StoreInit == TypeOK => Store!Init
BY KeyOfTyped DEF TypeOK, Store!Init

(* A step that only adds blob nb to the blobs is an abstract Add.         *)
LEMMA AddRefined ==
  ASSUME NEW nb \in Blobs, blobs' = blobs \cup {nb}
  PROVE  Store!Next
<1>1. {KeyOf(b) : b \in blobs'} = {KeyOf(b) : b \in blobs} \cup {KeyOf(nb)}
  OBVIOUS
<1>2. KeyOf(nb) \in {KeyOf(b) : b \in blobs'} /\ KeyOf(nb) \in Store!Keys
  BY KeyOfTyped
<1>3. QED
  BY <1>1, <1>2 DEF Store!Next, Store!Add

(* A step that replaces blob b by blob nb holding a later version of the  *)
(* same key is an abstract Upgrade, or an Add when another blob holds the *)
(* same key as b.                                                          *)
LEMMA ReplaceRefined ==
  ASSUME NEW b \in blobs, NEW nb \in Blobs,
         blobs' = (blobs \ {b}) \cup {nb},
         Store!Later(KeyOf(b), KeyOf(nb))
  PROVE  Store!Next
<1> DEFINE keys == {KeyOf(c) : c \in blobs}
<1>1. KeyOf(nb) \in {KeyOf(c) : c \in blobs'} /\ KeyOf(nb) \in Store!Keys
  BY KeyOfTyped
<1>2. CASE \E c \in blobs \ {b} : KeyOf(c) = KeyOf(b)
  <2>1. {KeyOf(c) : c \in blobs'} = keys \cup {KeyOf(nb)}
    BY <1>2
  <2>2. QED
    BY <1>1, <2>1 DEF Store!Next, Store!Add
<1>3. CASE ~\E c \in blobs \ {b} : KeyOf(c) = KeyOf(b)
  <2>1. {KeyOf(c) : c \in blobs'} = (keys \ {KeyOf(b)}) \cup {KeyOf(nb)}
    BY <1>3
  <2>2. KeyOf(b) \in keys
    OBVIOUS
  <2>3. QED
    BY <1>1, <2>1, <2>2 DEF Store!Next, Store!Upgrade
<1>4. QED
  BY <1>2, <1>3

(* A successful UpgradeKeyBlob re-encrypts under the params its parse     *)
(* authenticated, with the blob's algorithm and tags, and with a version  *)
(* and patchlevel UpgradeIntegerTag accepted: the same key, not older.    *)
LEMMA UpgradeIsLater ==
  ASSUME TypeOK, NEW b \in blobs, NEW p, NEW app \in AppIds \cup {NoApp}, NEW f,
         ParseCode(b, p, app, f) = "OK",
         UpgradeIntegerTag(b.hwOsVersion, osVersion).ok,
         UpgradeIntegerTag(b.hwOsPatchlevel, osPatchlevel).ok,
         NEW swV \in Versions \cup {Absent}
  PROVE  LET nb == NewBlob(app, b.alg, b.hwTags, b.swTags,
                           UpgradeIntegerTag(b.hwOsVersion, osVersion).val,
                           UpgradeIntegerTag(b.hwOsPatchlevel, osPatchlevel).val, swV)
         IN  nb \in Blobs /\ Store!Later(KeyOf(b), KeyOf(nb))
<1> DEFINE ver == UpgradeIntegerTag(b.hwOsVersion, osVersion)
           pl  == UpgradeIntegerTag(b.hwOsPatchlevel, osPatchlevel)
           nb  == NewBlob(app, b.alg, b.hwTags, b.swTags, ver.val, pl.val, swV)
<1>1. b \in Blobs
  BY DEF TypeOK
<1>2. /\ b.hwOsVersion \in Versions \cup {Absent}
      /\ b.hwOsPatchlevel \in Patchlevels \cup {Absent}
      /\ b.alg \in Algorithms \cup {Absent}
      /\ b.hwTags \in SUBSET DescTags /\ b.swTags \in SUBSET DescTags
  BY <1>1 DEF Blobs
<1>3. /\ osVersion \in Versions /\ osPatchlevel \in Patchlevels
      /\ osVersion \in Nat /\ osPatchlevel \in Nat
  BY DEF TypeOK
<1>4. /\ ver.val = osVersion /\ osVersion # Absent
      /\ b.hwOsVersion # Absent => osVersion >= b.hwOsVersion
  BY <1>2, <1>3, UpgradeIntegerTagAccepted
<1>5. /\ pl.val = osPatchlevel /\ osPatchlevel # Absent
      /\ b.hwOsPatchlevel # Absent => osPatchlevel >= b.hwOsPatchlevel
  BY <1>2, <1>3, UpgradeIntegerTagAccepted
<1>6. nb \in Blobs
  BY <1>2, <1>3, <1>4, <1>5, NewBlobTyped
<1>7. b.hidden = Hidden(app)
  BY ParseCodeOK
<1>8. KeyOf(nb)[1] = KeyOf(b)[1]
  BY <1>1, <1>7 DEF KeyOf, NewBlob, Blobs
<1>9. /\ Store!NotBefore(KeyOf(b)[2], KeyOf(nb)[2])
      /\ Store!NotBefore(KeyOf(b)[3], KeyOf(nb)[3])
  BY <1>4, <1>5 DEF KeyOf, NewBlob, Store!NotBefore
<1>10. QED
  BY <1>6, <1>8, <1>9 DEF Store!Later

(* Every step of the context is a step of KeyStore or leaves its keys.   *)
LEMMA StoreStep == TypeOK /\ [Next]_vars => [Store!Next]_{KeyOf(b) : b \in blobs}
<1> SUFFICES ASSUME TypeOK, [Next]_vars PROVE [Store!Next]_{KeyOf(b) : b \in blobs}
  OBVIOUS
<1>1. CASE UNCHANGED blobs
  BY <1>1
<1>2. ASSUME NEW desc \in Descriptions, CreateKeyBlob(desc), blobs' # blobs
      PROVE  Store!Next
  <2>1. PICK setCode \in SetAuthorizationsCodes(desc), f \in EncryptFailures :
          CreateKeyBlob(desc)!2!(setCode, f)
    BY <1>2 DEF CreateKeyBlob
  <2> DEFINE nb == NewBlob(desc.app, desc.alg, desc.tags \cap HwEnforcedTags,
                           desc.tags \cap SwEnforcedTags, osVersion, osPatchlevel, Absent)
  <2>2. blobs' = blobs \cup {nb}
    BY <1>2, <2>1
  <2>3. nb \in Blobs
    <3>1. desc.app \in AppIds \cup {NoApp} /\ desc.alg \in Algorithms \cup {Absent}
          /\ desc.tags \cap HwEnforcedTags \in SUBSET DescTags
          /\ desc.tags \cap SwEnforcedTags \in SUBSET DescTags
      BY DEF Descriptions
    <3>2. osVersion \in Versions /\ osPatchlevel \in Patchlevels
      BY DEF TypeOK
    <3>3. QED
      BY <3>1, <3>2, NewBlobTyped
  <2>4. QED
    BY <2>2, <2>3, AddRefined
<1>3. ASSUME NEW b \in blobs, NEW p \in Prefixes, NEW app \in AppIds \cup {NoApp},
             UpgradeKeyBlob(b, p, app), blobs' # blobs
      PROVE  Store!Next
  <2>1. PICK f \in ParseFailures : UpgradeKeyBlob(b, p, app)!1!(f)
    BY <1>3 DEF UpgradeKeyBlob
  <2> DEFINE swReset == osVersion = 0 /\ b.swOsVersion \notin {Absent, osVersion}
             swV     == IF swReset THEN osVersion ELSE b.swOsVersion
             ver     == UpgradeIntegerTag(b.hwOsVersion, osVersion)
             pl      == UpgradeIntegerTag(b.hwOsPatchlevel, osPatchlevel)
             nb      == NewBlob(app, b.alg, b.hwTags, b.swTags, ver.val, pl.val, swV)
  <2>2. /\ ParseCode(b, p, app, f) = "OK" /\ ver.ok /\ pl.ok
        /\ blobs' = (blobs \ {b}) \cup {nb}
    BY <1>3, <2>1
  <2>3. swV \in Versions \cup {Absent}
    <3>1. b \in Blobs /\ osVersion \in Versions
      BY DEF TypeOK
    <3>2. QED
      BY <3>1 DEF Blobs
  <2>4. nb \in Blobs /\ Store!Later(KeyOf(b), KeyOf(nb))
    BY <2>2, <2>3, UpgradeIsLater
  <2>5. QED
    BY <2>2, <2>4, ReplaceRefined
<1>4. QED
  <2>1. CASE blobs' # blobs
    <3>1. \/ \E desc \in Descriptions : CreateKeyBlob(desc)
          \/ \E b \in blobs, p \in Prefixes, app \in AppIds \cup {NoApp} :
               UpgradeKeyBlob(b, p, app)
      BY <2>1 DEF Next, vars, Restart, SetSystemVersion, SetBootParams, ParseKeyBlob
    <3>2. QED
      BY <2>1, <3>1, <1>2, <1>3
  <2>2. QED
    BY <2>1, <1>1

(* For all constants: the blobs the caller holds behave as the abstract   *)
(* KeyStore.  UpgradeKeyBlob keeps a key's application and root-of-trust  *)
(* binding, its algorithm and its tags, and never makes its hw-enforced    *)
(* OS version or patchlevel older; no call of the context loses a key.    *)
THEOREM ImplementsKeyStore == Spec => KeysKept
BY StoreInit, StoreStep, TypeCorrect, PTL DEF Spec, KeysKept, Store!Spec

=============================================================================
