SPECIFICATION Spec
CONSTANTS
  Policies <- AllPolicies
  CrashAt <- CrashAnywhereElse
  FailAt <- FailAnywhereElse
  MaxWrites = 3
  MaxFaults = 2
  Torn = Torn
  NoLog = NoLog
INVARIANTS TypeOK AckedSurvive NoHoles IdsUnique MetadataFirst RamMatchesLog
