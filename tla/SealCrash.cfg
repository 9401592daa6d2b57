SPECIFICATION Spec
CONSTANTS
  Cell = {c1, c2, c3}
  MaxPage = 4
  CrashIn = {"seal"}
  FailIn = {}
  MaxFaults = 1
INVARIANT SealNotRefused
