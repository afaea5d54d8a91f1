\* A blob created on a numbered release (OS version 1), then upgraded after
\* the device is moved to an unnumbered development build (OS version 0).
CONSTANTS
  Versions = {0, 1}
  Patchlevels = {0}
  BootKeys = {k1}
  Unbound = Unbound
  EmptyKey = EmptyKey
  InitBootState = "UNVERIFIED"
  InitDeviceLocked = FALSE
  AppIds = {}
  NoApp = NoApp
  Algorithms = {AES}
  DescTags <- MCNoDescTags
  Absent = Absent
  WithHwwskSupport = FALSE
  MaxSessions = 1
  MaxBoots = 2
  MaxBlobs = 1
SPECIFICATION Spec
INVARIANTS
  UpgradeToDevBuildAccepted
