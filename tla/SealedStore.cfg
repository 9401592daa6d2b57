SPECIFICATION Spec
SYMMETRY Symmetry
CONSTANTS
  Cell = {c1, c2, c3}
  MaxPage = 4
  CrashIn <- OutsideUndo
  FailIn <- FailOutsideUndo
  MaxFaults = 2
INVARIANTS TypeOK ServingIsValid CatalogReadable
PROPERTIES RebuildRepairs SealMovesMemory
