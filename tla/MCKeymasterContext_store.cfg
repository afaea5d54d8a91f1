\* The caller's blobs as an abstract key store: one application id, one
\* hw-enforced and one sw-enforced tag, one blob at a time, a version bump across
\* one restart, so that UpgradeKeyBlob re-encrypts keys that differ in
\* binding, algorithm and tags.
CONSTANTS
  Versions = {0, 1}
  Patchlevels = {0}
  BootKeys = {k1}
  Unbound = Unbound
  EmptyKey = EmptyKey
  InitBootState = "UNVERIFIED"
  InitDeviceLocked = FALSE
  AppIds = {a1}
  NoApp = NoApp
  Algorithms = {AES}
  DescTags <- MCStoreTags
  Absent = Absent
  WithHwwskSupport = FALSE
  MaxSessions = 1
  MaxBoots = 2
  MaxBlobs = 1
SPECIFICATION Spec
VIEW ContextView
PROPERTIES
  KeysKept
