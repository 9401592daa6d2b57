SPECIFICATION FairSpec
CONSTANTS
  Cell = {c1, c2, c3}
  Untyped = {c3}
  MaxPage = 4
  NoTx = NoTx
  MaxFaults = 2
  Faults <- SafeFaults
INVARIANTS TypeOK ServingIsValid OldPagesKept MarkersCovered IInv
PROPERTIES OkMeansPruned CompactionIsAtomic Reconciled
