\* Master key derivation through the hwkey service, with its failures,
\* within one run of the context.
CONSTANTS
  Versions = {0, 1}
  Patchlevels = {0}
  BootKeys = {k1}
  Unbound = Unbound
  EmptyKey = EmptyKey
  InitBootState = "UNVERIFIED"
  InitDeviceLocked = FALSE
  AppIds = {}
  NoApp = NoApp
  Algorithms = {AES}
  DescTags <- MCNoDescTags
  Absent = Absent
  WithHwwskSupport = FALSE
  MaxSessions = 1
  MaxBoots = 1
  MaxBlobs = 1
SPECIFICATION Spec
INVARIANTS
  HwkeySessionsReleased
