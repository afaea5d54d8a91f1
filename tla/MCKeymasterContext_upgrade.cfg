\* Version upgrade: three OS versions (0 is a development build), two
\* patchlevels, legacy blobs with and without version tags, across one
\* restart that may move the system to another version.
CONSTANTS
  Versions = {0, 1, 2}
  Patchlevels = {0, 1}
  BootKeys = {k1}
  Unbound = Unbound
  EmptyKey = EmptyKey
  InitBootState = "UNVERIFIED"
  InitDeviceLocked = FALSE
  AppIds = {}
  NoApp = NoApp
  Algorithms = {AES}
  DescTags <- MCNoDescTags
  Absent = Absent
  WithHwwskSupport = FALSE
  MaxSessions = 1
  MaxBoots = 3
  MaxBlobs = 1
SPECIFICATION Spec
VIEW ContextView
INVARIANTS
  UpgradeIdempotent
PROPERTIES
  NoVersionRollback
