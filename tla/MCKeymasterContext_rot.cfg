\* Root of trust and key binding: one boot key and the empty key, one application id, blob
\* creation before and after SetBootParams, across one restart.
CONSTANTS
  Versions = {0}
  Patchlevels = {0}
  BootKeys = {k1}
  Unbound = Unbound
  EmptyKey = EmptyKey
  InitBootState = "UNVERIFIED"
  InitDeviceLocked = FALSE
  AppIds = {a1}
  NoApp = NoApp
  Algorithms = {AES}
  DescTags <- MCErrTags
  Absent = Absent
  WithHwwskSupport = FALSE
  MaxSessions = 1
  MaxBoots = 2
  MaxBlobs = 2
SPECIFICATION Spec
VIEW ContextView
INVARIANTS
  RootOfTrustConsistent
  KeysUsableWithinBoot
  PlaceholderKeysUnusable
