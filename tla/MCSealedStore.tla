--------------------------- MODULE MCSealedStore ----------------------------
\* Module SealedStore on a small store.
EXTENDS SealedStore, TLC

\* Crashes anywhere but inside the rollback of a failed seal, and I/O errors
\* in every step but the rollback's own.
OutsideUndo == Jobs \ {"undo"}
FailOutsideUndo == OutsideUndo \ {"none"}

\* Cells differ in nothing but their names, and no property of the run is
\* about liveness.
Symmetry == Permutations(Cell)
=============================================================================
