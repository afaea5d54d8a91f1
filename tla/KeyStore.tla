------------------------------- MODULE KeyStore -------------------------------
(***************************************************************************)
(* What the key-blob store promises a caller that keeps the blobs it is    *)
(* given (spec 4.3, 4.4): a key is an identity (what it is bound to and    *)
(* what it may do) together with the hw-enforced OS version and           *)
(* patchlevel it carries.  Creating a key adds one.  Upgrading replaces a  *)
(* key by the same identity with a version and patchlevel that are not     *)
(* older, a missing one counting as older than any.  Nothing else changes  *)
(* the keys, and no key is ever lost.  The blob format, the software-       *)
(* enforced tags and the run a blob was written in are not part of it.    *)
(***************************************************************************)
EXTENDS Naturals

CONSTANTS
  Identities,   \* bindings, algorithms and tags a key may have
  Versions,     \* OS versions a key may carry
  Patchlevels,  \* OS patchlevels a key may carry
  Absent        \* a version or patchlevel the key does not carry

VARIABLE
  keys          \* the keys the caller holds

Keys == Identities \X (Versions \cup {Absent}) \X (Patchlevels \cup {Absent})

(* Stamp new is not older than stamp old. *)
NotBefore(old, new) == old # Absent => new # Absent /\ new >= old

(* Key n is key k with a version and patchlevel that are not older. *)
Later(k, n) ==
  /\ n[1] = k[1]
  /\ NotBefore(k[2], n[2])
  /\ NotBefore(k[3], n[3])

(* The caller may start with keys from earlier firmware. *)
Init == keys \subseteq Keys

Add(n) == keys' = keys \cup {n}

Upgrade(k, n) ==
  /\ k \in keys
  /\ Later(k, n)
  /\ keys' = (keys \ {k}) \cup {n}

(* Both steps leave the new key n among the keys, so n ranges over keys'. *)
Next == \E n \in keys' : n \in Keys /\ (Add(n) \/ \E k \in keys : Upgrade(k, n))

Spec == Init /\ [][Next]_keys

=============================================================================
