SPECIFICATION Spec
CONSTANTS
  CrashSyncs = TRUE
  Modes <- SyncedModes
  MaxId = 4
  MaxFaults = 2
INVARIANTS TypeOK VersionsAgree OkIsDurable OpenReconciles
PROPERTY SupersedeIsAtomic
