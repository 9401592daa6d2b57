SPECIFICATION Spec
CONSTANTS
  Cell = {c1, c2, c3}
  Untyped = {c3}
  MaxPage = 4
  NoTx = NoTx
  MaxFaults = 1
  Faults <- JournalFault
INVARIANT ServingIsValid
