SPECIFICATION Spec
CONSTANTS
  Cell = {c1, c2, c3}
  MaxPage = 4
  CrashIn = {"index"}
  FailIn = {}
  MaxFaults = 1
INVARIANT IndexCoversCatalog
