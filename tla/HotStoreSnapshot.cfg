SPECIFICATION Spec
CONSTANTS
  Policies = {"safe"}
  CrashAt <- CrashInArchive
  FailAt = {}
  MaxWrites = 3
  MaxFaults = 1
  Torn = Torn
  NoLog = NoLog
INVARIANT AckedSurvive
