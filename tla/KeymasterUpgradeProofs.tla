----------------------- MODULE KeymasterUpgradeProofs -----------------------
(***************************************************************************)
(* Proofs about UpgradeKeyBlob and the system-version latch of             *)
(* KeymasterContext, for every value of the constants: upgrading is        *)
(* idempotent within a run, and never rolls a blob's version back.         *)
(***************************************************************************)
EXTENDS KeymasterContextProofs

USE ConstantsAssumption

(* UpgradeIntegerTag of a value against itself accepts and changes nothing.*)
LEMMA UpgradeIntegerTagSame ==
  ASSUME NEW v \in Nat
  PROVE  UpgradeIntegerTag(v, v).ok /\ ~UpgradeIntegerTag(v, v).changed
<1>1. v # Absent /\ ~(v > v)
  OBVIOUS
<1>2. UpgradeIntegerTag(v, v) = [ok |-> TRUE, changed |-> FALSE, val |-> v]
  BY <1>1 DEF UpgradeIntegerTag
<1>3. QED
  BY <1>2

(* When UpgradeIntegerTag accepts, the tag takes the current value, which  *)
(* is present and not below a stored one.                                  *)
LEMMA UpgradeIntegerTagAccepted ==
  ASSUME NEW stored \in Nat \cup {Absent}, NEW value \in Nat,
         UpgradeIntegerTag(stored, value).ok
  PROVE  /\ UpgradeIntegerTag(stored, value).val = value
         /\ value # Absent
         /\ stored # Absent => value >= stored
<1>1. value \in Nat /\ value # Absent
  OBVIOUS
<1>2. CASE stored = Absent
  <2>1. UpgradeIntegerTag(stored, value).val = value
    BY <1>2, Zenon DEF UpgradeIntegerTag
  <2>2. QED
    BY <1>1, <1>2, <2>1, Zenon
<1>3. CASE stored # Absent
  <2>1. stored \in Nat
    BY <1>3
  <2>2. ~(stored > value)
    BY <1>3, Zenon DEF UpgradeIntegerTag
  <2>3. UpgradeIntegerTag(stored, value).val = value
    BY <1>3, <2>2, Zenon DEF UpgradeIntegerTag
  <2>4. value >= stored
    BY <1>1, <2>1, <2>2
  <2>5. QED
    BY <1>1, <2>3, <2>4, Zenon
<1>4. QED
  BY <1>2, <1>3

(* A blob written with the context's current version and patchlevel, and *)
(* with no stale sw-enforced OS version, needs no upgrade.                 *)
LEMMA NewBlobUpToDate ==
  ASSUME TypeOK, NEW app, NEW alg, NEW hwT, NEW swT, NEW swV,
         ~(osVersion = 0 /\ swV \notin {Absent, osVersion})
  PROVE  UpToDate(NewBlob(app, alg, hwT, swT, osVersion, osPatchlevel, swV))
<1>1. osVersion \in Nat /\ osPatchlevel \in Nat
  BY DEF TypeOK
<1>2. /\ UpgradeIntegerTag(osVersion, osVersion).ok
      /\ ~UpgradeIntegerTag(osVersion, osVersion).changed
      /\ UpgradeIntegerTag(osPatchlevel, osPatchlevel).ok
      /\ ~UpgradeIntegerTag(osPatchlevel, osPatchlevel).changed
  BY <1>1, UpgradeIntegerTagSame
<1>3. QED
  BY <1>2 DEF UpToDate, NewBlob

(* The inductive form of UpgradeIdempotent: no blob is from a later run   *)
(* than the current one, and a blob written in this run after             *)
(* SetSystemVersion implies that the version is still latched (so         *)
(* SetSystemVersion cannot change it before the next restart) and that the *)
(* blob is up to date with it.                                             *)
VersionInv ==
  \A b \in blobs :
    /\ b.boot <= boot
    /\ b.boot = boot /\ b.versionSet => versionSet /\ UpToDate(b)

(* A step that keeps the run and the version, and adds only blobs of this  *)
(* run that are up to date when latched, keeps VersionInv.                 *)
LEMMA VersionKept ==
  ASSUME TypeOK, VersionInv,
         UNCHANGED <<boot, versionSet, osVersion, osPatchlevel>>,
         \A nb \in blobs' \ blobs :
           nb.boot = boot /\ nb.versionSet = versionSet /\ (nb.versionSet => UpToDate(nb))
  PROVE  VersionInv'
<1>1. \A b : UpToDate(b)' = UpToDate(b)
  BY DEF UpToDate
<1>2. \A b \in blobs' : b.boot <= boot'
  <2>1. \A b \in blobs : b.boot <= boot
    BY Zenon DEF VersionInv
  <2>2. boot \in Nat
    BY DEF TypeOK
  <2>3. QED
    BY <2>1, <2>2
<1>3. \A b \in blobs' : b.boot = boot' /\ b.versionSet => versionSet' /\ UpToDate(b)'
  BY <1>1, Zenon DEF VersionInv
<1>4. QED
  BY <1>2, <1>3, Zenon DEF VersionInv

LEMMA VersionInit == Init => VersionInv
BY DEF Init, ContextInit, VersionInv, LegacyBlobs

LEMMA VersionStep == TypeOK /\ VersionInv /\ [Next]_vars => VersionInv'
<1> SUFFICES ASSUME TypeOK, VersionInv, [Next]_vars PROVE VersionInv'
  OBVIOUS
<1>1. CASE Restart
  <2>1. \A b \in blobs : b.boot \in Nat /\ b.boot < boot'
    BY <1>1 DEF Restart, TypeOK, Blobs, VersionInv
  <2>2. \A b \in blobs' : b.boot <= boot' /\ b.boot # boot'
    BY <1>1, <2>1 DEF Restart
  <2>3. QED
    BY <2>2, Zenon DEF VersionInv
<1>2. ASSUME NEW v \in Versions, NEW pl \in Patchlevels, SetSystemVersion(v, pl)
      PROVE VersionInv'
  <2>1. CASE versionSet
    BY <1>2, <2>1, VersionKept DEF SetSystemVersion
  <2>2. CASE ~versionSet
    <3>1. \A b \in blobs : ~(b.boot = boot /\ b.versionSet)
      BY <2>2 DEF VersionInv
    <3>2. UNCHANGED <<boot, blobs>>
      BY <1>2 DEF SetSystemVersion
    <3>3. QED
      BY <3>1, <3>2 DEF VersionInv
  <2>3. QED
    BY <2>1, <2>2
<1>3. ASSUME NEW k \in BootKeys \cup {EmptyKey}, NEW s \in BootStates,
             NEW l \in BOOLEAN, SetBootParams(k, s, l)
      PROVE VersionInv'
  BY <1>3, VersionKept DEF SetBootParams
<1>4. ASSUME NEW desc \in Descriptions, CreateKeyBlob(desc)
      PROVE VersionInv'
  <2> DEFINE nb == NewBlob(desc.app, desc.alg, desc.tags \cap HwEnforcedTags,
                           desc.tags \cap SwEnforcedTags, osVersion, osPatchlevel, Absent)
  <2>1. blobs' \subseteq blobs \cup {nb}
    BY <1>4 DEF CreateKeyBlob
  <2>2. nb.boot = boot /\ nb.versionSet = versionSet /\ UpToDate(nb)
    BY NewBlobUpToDate DEF NewBlob
  <2>3. QED
    BY <1>4, <2>1, <2>2, VersionKept DEF CreateKeyBlob
<1>5. ASSUME NEW b \in blobs, NEW p \in Prefixes, NEW app \in AppIds \cup {NoApp},
             ParseKeyBlob(b, p, app)
      PROVE VersionInv'
  BY <1>5, VersionKept DEF ParseKeyBlob
<1>6. ASSUME NEW b \in blobs, NEW p \in Prefixes, NEW app \in AppIds \cup {NoApp},
             UpgradeKeyBlob(b, p, app)
      PROVE VersionInv'
  <2>1. PICK f \in ParseFailures : UpgradeKeyBlob(b, p, app)!1!(f)
    BY <1>6 DEF UpgradeKeyBlob
  <2> DEFINE swReset   == osVersion = 0 /\ b.swOsVersion \notin {Absent, osVersion}
             swV       == IF swReset THEN osVersion ELSE b.swOsVersion
             ver       == UpgradeIntegerTag(b.hwOsVersion, osVersion)
             pl        == UpgradeIntegerTag(b.hwOsPatchlevel, osPatchlevel)
             nb        == NewBlob(app, b.alg, b.hwTags, b.swTags, ver.val, pl.val, swV)
  <2>2. UNCHANGED <<boot, versionSet, osVersion, osPatchlevel>>
    BY <1>6 DEF UpgradeKeyBlob
  <2>3. CASE UNCHANGED blobs
    BY <2>2, <2>3, VersionKept
  <2>4. CASE /\ ver.ok /\ pl.ok
             /\ blobs' \subseteq blobs \cup {nb}
    <3>1. b \in Blobs
      BY DEF TypeOK
    <3>2. ver.val = osVersion /\ pl.val = osPatchlevel
      <4>1. b.hwOsVersion \in Versions \cup {Absent} /\ b.hwOsPatchlevel \in Patchlevels \cup {Absent}
        BY <3>1 DEF Blobs
      <4>2. osVersion \in Nat /\ osPatchlevel \in Nat
            /\ b.hwOsVersion \in Nat \cup {Absent} /\ b.hwOsPatchlevel \in Nat \cup {Absent}
        BY <4>1 DEF TypeOK
      <4>3. ver.ok /\ UpgradeIntegerTag(b.hwOsVersion, osVersion).ok
        BY <2>4
      <4>4. pl.ok /\ UpgradeIntegerTag(b.hwOsPatchlevel, osPatchlevel).ok
        BY <2>4
      <4>5. /\ ver.val = osVersion /\ osVersion # Absent
            /\ b.hwOsVersion # Absent => osVersion >= b.hwOsVersion
        BY <4>1, <4>2, <4>3, UpgradeIntegerTagAccepted
      <4>6. /\ pl.val = osPatchlevel /\ osPatchlevel # Absent
            /\ b.hwOsPatchlevel # Absent => osPatchlevel >= b.hwOsPatchlevel
        BY <4>1, <4>2, <4>4, UpgradeIntegerTagAccepted
      <4>7. QED
        BY <4>5, <4>6
    <3>3. ~(osVersion = 0 /\ swV \notin {Absent, osVersion})
      OBVIOUS
    <3>4. nb.boot = boot /\ nb.versionSet = versionSet /\ UpToDate(nb)
      BY <3>2, <3>3, NewBlobUpToDate DEF NewBlob
    <3>5. QED
      BY <2>2, <2>4, <3>4, VersionKept
  <2>5. QED
    BY <2>1, <2>3, <2>4
<1>7. CASE UNCHANGED vars
  BY <1>7, VersionKept DEF vars
<1>8. QED
  BY <1>1, <1>2, <1>3, <1>4, <1>5, <1>6, <1>7 DEF Next

(* For every version, patchlevel and bound set: a blob CreateKeyBlob or    *)
(* UpgradeKeyBlob wrote after SetSystemVersion in the current run needs no *)
(* further upgrade for the rest of that run, because version_info_set_     *)
(* keeps SetSystemVersion from changing the version it was written with.  *)
THEOREM UpgradeIdempotentHolds == Spec => [](VersionInv /\ UpgradeIdempotent)
<1>1. VersionInv => UpgradeIdempotent
  BY DEF VersionInv, UpgradeIdempotent
<1>2. QED
  BY <1>1, VersionInit, VersionStep, TypeCorrect, PTL DEF Spec

-----------------------------------------------------------------------------
(* The one step that drops a blob is a successful re-encryption by        *)
(* UpgradeKeyBlob, and the blob it adds is not older than the one dropped. *)
LEMMA RollbackStep ==
  TypeOK /\ [Next]_vars =>
    [\A old \in blobs \ blobs' : \E new \in blobs' : NotOlder(old, new)]_vars
<1> SUFFICES ASSUME TypeOK, Next
             PROVE  \A old \in blobs \ blobs' : \E new \in blobs' : NotOlder(old, new)
  BY DEF vars
<1>1. CASE \E b \in blobs, p \in Prefixes, app \in AppIds \cup {NoApp} :
             UpgradeKeyBlob(b, p, app)
  <2>1. PICK b \in blobs, p \in Prefixes, app \in AppIds \cup {NoApp} :
          UpgradeKeyBlob(b, p, app)
    BY <1>1
  <2>2. PICK f \in ParseFailures : UpgradeKeyBlob(b, p, app)!1!(f)
    BY <2>1 DEF UpgradeKeyBlob
  <2> DEFINE swReset   == osVersion = 0 /\ b.swOsVersion \notin {Absent, osVersion}
             swV       == IF swReset THEN osVersion ELSE b.swOsVersion
             ver       == UpgradeIntegerTag(b.hwOsVersion, osVersion)
             pl        == UpgradeIntegerTag(b.hwOsPatchlevel, osPatchlevel)
             nb        == NewBlob(app, b.alg, b.hwTags, b.swTags, ver.val, pl.val, swV)
  <2>3. CASE UNCHANGED blobs
    BY <2>3
  <2>4. CASE /\ ver.ok /\ pl.ok
             /\ blobs' = (blobs \ {b}) \cup {nb}
    <3>1. b \in Blobs
      BY DEF TypeOK
    <3>2. /\ b.hwOsVersion # Absent => ver.val # Absent /\ ver.val >= b.hwOsVersion
          /\ b.hwOsPatchlevel # Absent => pl.val # Absent /\ pl.val >= b.hwOsPatchlevel
      <4>1. b.hwOsVersion \in Versions \cup {Absent} /\ b.hwOsPatchlevel \in Patchlevels \cup {Absent}
        BY <3>1 DEF Blobs
      <4>2. osVersion \in Nat /\ osPatchlevel \in Nat
            /\ b.hwOsVersion \in Nat \cup {Absent} /\ b.hwOsPatchlevel \in Nat \cup {Absent}
        BY <4>1 DEF TypeOK
      <4>3. ver.ok /\ UpgradeIntegerTag(b.hwOsVersion, osVersion).ok
        BY <2>4
      <4>4. pl.ok /\ UpgradeIntegerTag(b.hwOsPatchlevel, osPatchlevel).ok
        BY <2>4
      <4>5. /\ ver.val = osVersion /\ osVersion # Absent
            /\ b.hwOsVersion # Absent => osVersion >= b.hwOsVersion
        BY <4>1, <4>2, <4>3, UpgradeIntegerTagAccepted
      <4>6. /\ pl.val = osPatchlevel /\ osPatchlevel # Absent
            /\ b.hwOsPatchlevel # Absent => osPatchlevel >= b.hwOsPatchlevel
        BY <4>1, <4>2, <4>4, UpgradeIntegerTagAccepted
      <4>7. QED
        BY <4>5, <4>6
    <3>3. NotOlder(b, nb)
      BY <3>2 DEF NotOlder, NewBlob
    <3>4. QED
      BY <2>4, <3>3
  <2>5. QED
    BY <2>2, <2>3, <2>4
<1>2. CASE ~\E b \in blobs, p \in Prefixes, app \in AppIds \cup {NoApp} :
             UpgradeKeyBlob(b, p, app)
  <2>1. blobs \subseteq blobs'
    BY <1>2 DEF Next, Restart, SetSystemVersion, SetBootParams, CreateKeyBlob,
                ParseKeyBlob
  <2>2. QED
    BY <2>1
<1>3. QED
  BY <1>1, <1>2

(* For every version and patchlevel set: UpgradeKeyBlob never hands back a *)
(* blob whose hw-enforced OS version or patchlevel is older than the one   *)
(* it was given, and a blob the caller drops is always replaced by one     *)
(* that is not older.                                                      *)
THEOREM NoRollback == Spec => NoVersionRollback
BY RollbackStep, TypeCorrect, PTL DEF Spec, NoVersionRollback

=============================================================================
