SPECIFICATION Spec
CONSTANTS
  CrashSyncs = TRUE
  Modes <- KeptModes
  MaxId = 4
  MaxFaults = 1
INVARIANT OpenReconciles
