-------------------------- MODULE CompactionProofs --------------------------
(***************************************************************************)
(* Proofs about module Compaction, for any cells, bounds and faults.       *)
(***************************************************************************)
EXTENDS CompactionInv, SharedProofs

\* A step after which the client's memory is what it was.
SameMemory == RetainedCells' = RetainedCells /\ RetainedOver' = RetainedOver

-----------------------------------------------------------------------------
(* Directories of pages.                                                   *)

\* A page directory with typed pages holds typed cells.
LEMMA CellsType ==
    ASSUME NEW dir \in [PageId -> SUBSET Cell], NEW ids \in SUBSET PageId
    PROVE  CellsIn(dir, ids) \subseteq Cell
BY InCells

\* What the page builder returns: nonempty disjoint pages with consecutive
\* ids from `first`, which hold the cells given and no others.
LEMMA BuildFacts ==
    ASSUME NEW S \in SUBSET Cell, NEW first \in 1 .. MaxPage + 1,
           NEW limit \in Int, limit <= MaxPage, NEW b \in Builds(S, first, limit)
    PROVE  /\ DOMAIN b \subseteq PageId
           /\ DOMAIN b = first .. NextAfter(b, first) - 1
           /\ NextAfter(b, first) \in first .. MaxPage + 1
           /\ b \in [DOMAIN b -> (SUBSET S) \ {{}}]
           /\ CellsIn(b, DOMAIN b) = S
           /\ Disjoint(b, DOMAIN b)
BY BuildIs, BoundsAssumption DEF Disjoint, PageId

\* An open transaction whose new files are the catalog is not one whose old
\* files are: the two never agree.
LEMMA CommittedIsNew ==
    ASSUME NEW t \in Tx, t.old # {}, \A p \in t.old : p \notin t.new,
           catalog \subseteq PageId, catalog = t.old \/ catalog = t.new, Committed(t)
    PROVE  catalog = t.new
<1> SUFFICES ASSUME catalog = t.old PROVE FALSE
  OBVIOUS
<1>1. t.new = {}
  BY DEF Committed
<1>2. IsFiniteSet(PageId)
  BY BoundsAssumption, FS_Interval DEF PageId
<1>3. IsFiniteSet(t.old)
  BY <1>2, FS_Subset DEF Tx
<1>4. Cardinality(t.old) = 0
  BY <1>1, FS_EmptySet DEF Committed
<1> QED
  BY <1>3, <1>4, FS_EmptySet

-----------------------------------------------------------------------------
(* The invariant holds initially.                                          *)

LEMMA InitIInv == Init => IInv
<1> SUFFICES ASSUME Init PROVE IInv
  OBVIOUS
<1> USE DEF Init
<1>1. CellsIn(page, catalog) = {}
  BY InCells
<1>2. 1 \in 1 .. MaxPage + 1 /\ budget \in 0 .. MaxFaults
  BY BoundsAssumption
<1>3. disk \in Manifest /\ disk.pend = NoTx /\ disk.over = {}
  BY <1>2 DEF Manifest
<1>4. TypeOK
  BY <1>2, <1>3 DEF TypeOK
<1>5. Quiet
  BY <1>1, <1>3 DEF Quiet, Sealed, Stored, Disjoint
<1> QED
  BY <1>3, <1>4, <1>5 DEF IInv, QuietStep, Rollback

-----------------------------------------------------------------------------
(* Steps that leave every file as it is.                                   *)

\* Quiet reads only the files.
LEMMA QuietFrame ==
    ASSUME Quiet, UNCHANGED <<files, catalog, derived, hot, markers, issued, disk>>
    PROVE  Quiet'
BY DEF Quiet, files, derived, Sealed, Stored, Disjoint, CellsIn

\* So does the description of an open transaction.
LEMMA OpenFrame ==
    ASSUME Open1(disk.pend), UNCHANGED <<files, catalog, hot, markers, issued, disk>>
    PROVE  Open1(disk.pend)'
<1> DEFINE t == disk.pend
<1>1. OldCells(t)' = OldCells(t)
  BY DEF OldCells, CellsIn, files
<1>2. Prunable(t.oldOver, OldCells(t))' = Prunable(t.oldOver, OldCells(t))
  BY <1>1 DEF Prunable
<1>3. WellFormed(t)'
  BY DEF Open1, WellFormed
<1>4. (OldOnDisk(t) \/ NewOnDisk(t))'
  BY DEF Open1, OldOnDisk, NewOnDisk
<1>5. CellsIn(page, t.new)' = CellsIn(page, t.new) /\ (Disjoint(page, t.new)' <=> Disjoint(page, t.new))
  BY DEF CellsIn, Disjoint, files
<1> QED
  BY <1>1, <1>2, <1>3, <1>4, <1>5 DEF Open1, files

\* The engine goes away and the files stay: crash, close, or a failed open.
LEMMA DownStep ==
    ASSUME IInv, UNCHANGED durable, Down, budget' \in 0 .. MaxFaults
    PROVE  IInv'
<1> USE DEF Down, Return, durable
<1>1. TypeOK'
  BY DEF IInv, TypeOK
<1>2. ASSUME disk'.pend = NoTx PROVE Quiet' /\ QuietStep'
  BY <1>2, QuietFrame DEF IInv, QuietStep, files, derived
<1>3. ASSUME disk'.pend # NoTx PROVE Open1(disk.pend)' /\ TxStep'
  BY <1>3, OpenFrame DEF IInv, TxStep, files
<1> QED
  BY <1>1, <1>2, <1>3 DEF IInv, Rollback

-----------------------------------------------------------------------------
(* An engine that serves calls.                                            *)

LEMMA ServingFacts ==
    ASSUME IInv, Serving
    PROVE  /\ disk.pend = NoTx /\ Quiet /\ man = disk /\ tx = NoTx
           /\ job \notin Rollback
BY DEF IInv, Serving, TxStep, QuietStep, Rollback

LEMMA RememberStep ==
    ASSUME IInv, NEW c \in Cell, Remember(c)
    PROVE  IInv'
<1> USE DEF Remember, files, derived, call, Serving
<1>0. disk.pend = NoTx /\ Quiet /\ man = disk /\ tx = NoTx /\ disk' = disk
  BY ServingFacts
<1>1. TypeOK'
  BY <1>0 DEF IInv, TypeOK
<1>2. Sealed' = Sealed
  BY DEF Sealed, CellsIn
<1>3. Quiet'
  BY <1>0, <1>2 DEF Quiet, Stored, Disjoint
<1> QED
  BY <1>0, <1>1, <1>3 DEF IInv, QuietStep, Rollback

LEMMA SetOverStep ==
    ASSUME IInv, NEW over \in SUBSET Stored, SetOver(over)
    PROVE  IInv'
<1> USE DEF SetOver, files, derived, call, side, Serving
<1>0. disk.pend = NoTx /\ Quiet /\ man = disk /\ tx = NoTx
  BY ServingFacts
<1>1. disk' = man' /\ disk'.pend = NoTx /\ disk'.next = disk.next /\ disk'.over = over
  BY <1>0 DEF IInv, TypeOK, Manifest
<1>2. Stored \subseteq Cell
  BY CellsType DEF IInv, TypeOK, Stored, Sealed
<1>3. TypeOK'
  BY <1>0, <1>2 DEF IInv, TypeOK, Manifest
<1>4. Sealed' = Sealed /\ Stored' = Stored
  BY DEF Sealed, Stored, CellsIn
<1>5. Quiet'
  BY <1>0, <1>1, <1>4 DEF Quiet, Disjoint
<1> QED
  BY <1>0, <1>1, <1>3, <1>5 DEF IInv, QuietStep, Rollback

\* Sealing moves the hot cells into new pages: a quiet store stays quiet, and
\* holds the same cells.
LEMMA SealQuiet ==
    ASSUME TypeOK, Quiet, man = disk,
           NEW limit \in Int, limit <= MaxPage, NEW b \in Builds(hot, man.next, limit),
           SealInto(b), UNCHANGED <<backup, markers, issued>>
    PROVE  /\ TypeOK /\ page' \in [PageId -> SUBSET Cell]
           /\ catalog' \subseteq PageId /\ index' \subseteq PageId /\ lexical' \subseteq PageId
           /\ archives' \subseteq Cell /\ hot' \subseteq Cell
           /\ disk' \in Manifest /\ man' = disk' /\ disk'.pend = disk.pend /\ disk'.over = disk.over
           /\ Quiet'
           /\ hot' \cup Sealed' = hot \cup Sealed
           /\ ~SealRefused(b) => hot' = {}
<1>1. CASE SealRefused(b)
  <2>1. /\ UNCHANGED <<page, catalog, hot, archives, man>>
        /\ index' = catalog /\ lexical' = catalog /\ disk' = man
    BY <1>1 DEF SealInto
  <2>2. Sealed' = Sealed /\ Stored' = Stored
    BY <2>1 DEF Sealed, Stored, CellsIn
  <2> QED
    BY <1>1, <2>1, <2>2 DEF Quiet, Disjoint, TypeOK
<1>2. CASE ~SealRefused(b)
  <2> DEFINE D == DOMAIN b
  <2>1. /\ page' = [p \in PageId |-> IF p \in D THEN b[p] ELSE page[p]]
        /\ catalog' = catalog \cup D
        /\ index' = catalog' /\ lexical' = catalog'
        /\ man' = [man EXCEPT !.next = NextAfter(b, man.next)] /\ disk' = man'
        /\ archives' = archives \cup hot
        /\ hot' = {}
    BY <1>2 DEF SealInto
  <2>2. hot \in SUBSET Cell /\ man.next \in 1 .. MaxPage + 1
    BY DEF TypeOK, Manifest
  <2>3. /\ D \subseteq PageId
        /\ D = man.next .. NextAfter(b, man.next) - 1
        /\ NextAfter(b, man.next) \in man.next .. MaxPage + 1
        /\ b \in [D -> (SUBSET hot) \ {{}}]
        /\ CellsIn(b, D) = hot
        /\ Disjoint(b, D)
    BY <2>2, BuildFacts
  <2>4. \A p \in D : page[p] = {} /\ p \notin catalog
    BY <1>2, <2>3 DEF SealRefused, Quiet
  <2>5. /\ disk' \in Manifest /\ disk'.next = NextAfter(b, man.next)
        /\ disk'.pend = disk.pend /\ disk'.over = disk.over
    <3>1. NextAfter(b, man.next) \in 1 .. MaxPage + 1
      BY <2>2, <2>3, BoundsAssumption
    <3> QED
      BY <2>1, <3>1 DEF TypeOK, Manifest
  <2>6. page' \in [PageId -> SUBSET Cell]
    BY <2>1, <2>2, <2>3 DEF TypeOK
  <2>7. /\ \A p \in D : page'[p] = b[p]
        /\ \A p \in PageId \ D : page'[p] = page[p]
        /\ catalog \subseteq PageId /\ catalog \cap D = {}
    BY <2>1, <2>3, <2>4 DEF TypeOK
  <2>8. Sealed' = Sealed \cup hot
    <3>1. \A c : c \in Sealed' <=> \E p \in catalog \cup D : c \in page'[p]
      BY <2>1, InCells DEF Sealed
    <3>2. \A c : c \in Sealed <=> \E p \in catalog : c \in page[p]
      BY InCells DEF Sealed
    <3>3. \A c : c \in hot <=> \E p \in D : c \in b[p]
      BY <2>3, InCells
    <3> QED
      BY <2>7, <3>1, <3>2, <3>3
  <2>9. Disjoint(page, catalog)'
    <3> SUFFICES ASSUME NEW p \in catalog', NEW q \in catalog', p # q
                 PROVE  page'[p] \cap page'[q] = {}
      BY DEF Disjoint
    <3>1. CASE p \in catalog /\ q \in catalog
      BY <3>1, <2>7 DEF Quiet, Disjoint
    <3>2. CASE p \in D /\ q \in D
      BY <3>2, <2>3, <2>7 DEF Disjoint
    <3>3. ASSUME NEW x \in catalog, NEW y \in D PROVE page'[x] \cap page'[y] = {}
      <4>1. page[x] \subseteq Sealed /\ b[y] \subseteq hot
        BY <3>3, <2>3, InCells DEF Sealed
      <4> QED
        BY <4>1, <2>7 DEF Quiet
    <3> QED
      BY <3>1, <3>2, <3>3, <2>1
  <2>10. Quiet'
    <3>1. ASSUME NEW p \in PageId PROVE page'[p] # {} <=> p \in catalog'
      <4>1. CASE p \in D
        BY <4>1, <2>1, <2>3, <2>7
      <4>2. CASE p \notin D
        BY <4>2, <2>1, <2>7 DEF Quiet
      <4> QED
        BY <4>1, <4>2
    <3>2. \A p \in catalog' : p < disk'.next
      BY <2>1, <2>2, <2>3, <2>5, <2>7 DEF Quiet, PageId, TypeOK
    <3>3. \A p \in PageId : backup'[p] # {} => p \notin catalog' /\ p < disk'.next
      BY <2>1, <2>2, <2>3, <2>5 DEF Quiet, PageId, TypeOK
    <3> QED
      BY <2>1, <2>5, <2>8, <2>9, <3>1, <3>2, <3>3 DEF Quiet, Stored
  <2> QED
    BY <2>1, <2>2, <2>3, <2>5, <2>6, <2>7, <2>8, <2>10 DEF TypeOK
<1> QED
  BY <1>1, <1>2

\* With no transaction open before or after, memory is what is stored.
LEMMA StoredIsRetained ==
    ASSUME disk.pend = NoTx, disk'.pend = NoTx, disk'.over = disk.over,
           hot' \cup Sealed' = hot \cup Sealed
    PROVE  SameMemory
<1>1. RetainedCells = hot \cup Sealed /\ RetainedOver = disk.over
  BY DEF RetainedCells, RetainedOver
<1>2. RetainedCells' = hot' \cup Sealed' /\ RetainedOver' = disk'.over
  BY DEF RetainedCells, RetainedOver
<1> QED
  BY <1>1, <1>2 DEF SameMemory

LEMMA SealStep ==
    ASSUME IInv, Seal
    PROVE  IInv' /\ SameMemory
<1> USE DEF Seal, call, Serving
<1>0. disk.pend = NoTx /\ Quiet /\ man = disk /\ tx = NoTx /\ TypeOK
  BY ServingFacts DEF IInv
<1>1. PICK b \in Builds(hot, man.next, MaxPage) : SealInto(b)
  OBVIOUS
<1>2. MaxPage \in Int /\ MaxPage <= MaxPage
  BY BoundsAssumption
<1>3. /\ Quiet' /\ man' = disk' /\ disk'.pend = NoTx
      /\ page' \in [PageId -> SUBSET Cell]
      /\ catalog' \subseteq PageId /\ index' \subseteq PageId /\ lexical' \subseteq PageId
      /\ archives' \subseteq Cell /\ hot' \subseteq Cell /\ disk' \in Manifest
      /\ disk'.over = disk.over /\ hot' \cup Sealed' = hot \cup Sealed
  BY <1>0, <1>1, <1>2, SealQuiet
<1>4. TypeOK'
  BY <1>0, <1>3 DEF TypeOK
<1> QED
  BY <1>0, <1>3, <1>4, StoredIsRetained DEF IInv, QuietStep, Rollback

-----------------------------------------------------------------------------
(* The steps of compact before its transaction and after its commit, and   *)
(* the last steps of an open: no transaction is on disk.                   *)

\* Fewer backups, or fewer markers than before but enough, disturb nothing.
LEMMA QuietLess ==
    ASSUME Quiet, UNCHANGED <<page, catalog, derived, hot, issued, disk>>,
           Stored \subseteq markers',
           \A p \in PageId : backup'[p] # {} => backup[p] # {}
    PROVE  Quiet'
<1>1. Sealed' = Sealed /\ Stored' = Stored
  BY DEF Sealed, Stored, CellsIn
<1> QED
  BY <1>1 DEF Quiet, Disjoint, derived

\* Which steps run with no transaction on disk.
LEMMA QuietSteps ==
    ASSUME IInv, \/ job = "compact" /\ step \in {"seal", "plan", "journal", "delete", "markers", "archives"}
                 \/ job = "recover" /\ step \in {"delete", "clean"}
    PROVE  disk.pend = NoTx /\ Quiet /\ QuietStep /\ man = disk /\ up /\ TypeOK
BY DEF IInv, TxStep, CompactStep, ClosingStep, RecoverStep, Rollback

LEMMA CompactCallStep ==
    ASSUME IInv, Compact
    PROVE  IInv'
<1> USE DEF Compact, durable, Serving
<1>0. disk.pend = NoTx /\ Quiet /\ man = disk /\ tx = NoTx
  BY ServingFacts
<1>1. TypeOK'
  BY DEF IInv, TypeOK
<1>2. Quiet'
  BY <1>0, QuietFrame DEF files, derived
<1> QED
  BY <1>0, <1>1, <1>2 DEF IInv, QuietStep, Rollback

LEMMA CompactSealStep ==
    ASSUME IInv, CompactSeal
    PROVE  IInv' /\ SameMemory
<1> USE DEF CompactSeal
<1>0. /\ disk.pend = NoTx /\ Quiet /\ QuietStep /\ man = disk /\ up /\ TypeOK
      /\ tx = NoTx
  BY QuietSteps DEF QuietStep
<1>1. CASE hot = {}
  <2>1. GoTo("plan") /\ UNCHANGED <<durable, man, up, budget>>
    BY <1>1 DEF durable, derived
  <2>2. TypeOK'
    BY <1>0, <2>1 DEF TypeOK, GoTo, durable
  <2>3. Quiet'
    BY <1>0, <2>1, QuietFrame DEF durable, files, derived
  <2>4. Sealed' = Sealed
    BY <2>1 DEF durable, Sealed, CellsIn
  <2> QED
    BY <1>0, <1>1, <2>1, <2>2, <2>3, <2>4, StoredIsRetained
    DEF IInv, QuietStep, AtPlan, GoTo, durable, Rollback
<1>2. CASE hot # {}
  <2>1. PICK b \in Builds(hot, man.next, MaxPage - 1) :
            SealInto(b) /\ IF SealRefused(b) THEN Return ELSE GoTo("plan")
    BY <1>2
  <2>2. MaxPage - 1 \in Int /\ MaxPage - 1 <= MaxPage
    BY BoundsAssumption
  <2>3. /\ Quiet' /\ man' = disk' /\ disk'.pend = NoTx
        /\ page' \in [PageId -> SUBSET Cell]
        /\ catalog' \subseteq PageId /\ index' \subseteq PageId /\ lexical' \subseteq PageId
        /\ archives' \subseteq Cell /\ hot' \subseteq Cell /\ disk' \in Manifest
        /\ disk'.over = disk.over /\ hot' \cup Sealed' = hot \cup Sealed
        /\ ~SealRefused(b) => hot' = {}
    BY <1>0, <2>1, <2>2, SealQuiet
  <2>4. \/ job' = "none" /\ step' = "none" /\ tx' = NoTx
        \/ job' = "compact" /\ step' = "plan" /\ tx' = NoTx /\ hot' = {}
    BY <1>0, <2>1, <2>3 DEF GoTo, Return
  <2>5. TypeOK'
    BY <1>0, <2>3, <2>4 DEF TypeOK
  <2> QED
    BY <1>0, <2>3, <2>4, <2>5, StoredIsRetained DEF IInv, QuietStep, AtPlan, Rollback
<1> QED
  BY <1>1, <1>2

\* A transaction that is about to be journalled describes the store as it is.
LEMMA CompactPlanStep ==
    ASSUME IInv, CompactPlan
    PROVE  IInv'
<1> USE DEF CompactPlan
<1>0. /\ disk.pend = NoTx /\ Quiet /\ QuietStep /\ man = disk /\ up /\ TypeOK
      /\ hot = {} /\ tx = NoTx
  BY QuietSteps DEF QuietStep, AtPlan
<1> DEFINE pruned == Prunable(man.over, Stored)
<1>1. Quiet'
  BY <1>0, QuietFrame DEF durable, files, derived
<1>2. CASE Return \/ GoTo("markers")
  <2>1. TypeOK'
    BY <1>0, <1>2 DEF TypeOK, GoTo, Return, durable
  <2> QED
    BY <1>0, <1>1, <1>2, <2>1 DEF IInv, QuietStep, Gone, GoTo, Return, durable, Rollback
<1>3. CASE ~(Return \/ GoTo("markers"))
  <2>1. PICK b \in Builds(Sealed \ pruned, man.next, MaxPage) :
          /\ pruned # {}
          /\ \A p \in catalog : backup[p] = {}
          /\ tx' = [old |-> catalog, new |-> DOMAIN b,
                    oldNext |-> man.next, oldOver |-> man.over,
                    pruned |-> pruned, next |-> NextAfter(b, man.next)]
          /\ build' = b /\ step' = "journal" /\ UNCHANGED job
    BY <1>3
  <2>2. Sealed \subseteq Cell /\ Stored = Sealed /\ pruned \subseteq Sealed
    BY <1>0, CellsType DEF TypeOK, Sealed, Stored, Prunable
  <2>3. /\ MaxPage \in Int /\ MaxPage <= MaxPage /\ man.next \in 1 .. MaxPage + 1
        /\ Sealed \ pruned \in SUBSET Cell
    BY <1>0, <2>2, BoundsAssumption DEF TypeOK, Manifest
  <2>4. /\ DOMAIN b \subseteq PageId
        /\ DOMAIN b = man.next .. NextAfter(b, man.next) - 1
        /\ NextAfter(b, man.next) \in man.next .. MaxPage + 1
        /\ b \in [DOMAIN b -> (SUBSET (Sealed \ pruned)) \ {{}}]
        /\ CellsIn(b, DOMAIN b) = Sealed \ pruned
        /\ Disjoint(b, DOMAIN b)
    BY <2>3, BuildFacts
  <2>5. catalog # {}
    BY <2>1, <2>2, InCells DEF Sealed
  <2>6. NextAfter(b, man.next) \in 1 .. MaxPage + 1 /\ man.next <= NextAfter(b, man.next)
    BY <2>3, <2>4
  <2>7. tx' \in Tx
    BY <1>0, <2>1, <2>2, <2>3, <2>4, <2>6 DEF Tx, TypeOK, Manifest
  <2>8. WellFormed(tx')
    BY <1>0, <2>1, <2>4, <2>5, <2>6, <2>7 DEF WellFormed, Quiet
  <2>9. page' = page /\ backup' = backup /\ catalog' = catalog /\ disk' = disk /\ hot' = hot
    BY DEF durable
  <2>10. CellsIn(backup, catalog) = {}
    BY <2>1, InCells
  <2>11. (CellsIn(page, tx.old) \cup CellsIn(backup, tx.old))' = Sealed /\ Sealed' = Sealed
    BY <2>1, <2>9, <2>10 DEF Sealed
  <2>12. BuildOK(tx)'
    <3>1. OldCells(tx)' = Sealed
      BY <2>11 DEF OldCells
    <3>2. build' \in [tx'.new -> (SUBSET Cell) \ {{}}]
      BY <2>1, <2>2, <2>4
    <3>3. CellsIn(build', tx'.new) = Sealed \ pruned /\ Disjoint(build', tx'.new)
      BY <2>1, <2>4
    <3> QED
      BY <2>1, <3>1, <3>2, <3>3 DEF BuildOK
  <2>13. WellFormed(tx)'
    BY <2>8 DEF WellFormed
  <2>14. AtJournal'
    <3>1. tx'.pruned = Prunable(disk'.over, Sealed')
      BY <1>0, <2>1, <2>2, <2>9, <2>11
    <3>2. Prunable(disk.over, Sealed)' = Prunable(disk'.over, Sealed')
      BY DEF Prunable
    <3> QED
      BY <1>0, <2>1, <2>9, <2>12, <2>13, <3>1, <3>2 DEF AtJournal
  <2>15. TypeOK'
    BY <1>0, <2>1, <2>7 DEF TypeOK, durable
  <2> QED
    BY <1>0, <1>1, <2>1, <2>9, <2>14, <2>15 DEF IInv, QuietStep, Rollback
<1> QED
  BY <1>2, <1>3

LEMMA DeleteBackupStep ==
    ASSUME IInv, DeleteBackup, step = "delete", job \in {"compact", "recover"}
    PROVE  IInv'
<1> USE DEF DeleteBackup, derived, side
<1>0. /\ disk.pend = NoTx /\ Quiet /\ QuietStep /\ man = disk /\ up /\ TypeOK
      /\ tx \in Tx /\ (job = "compact" => Gone /\ tx # NoTx)
  <2>1. disk.pend = NoTx /\ Quiet /\ QuietStep /\ man = disk /\ up /\ TypeOK
    BY QuietSteps
  <2>2. QuietStep /\ tx # NoTx /\ job = "compact" => Gone /\ tx \in Tx
    BY DEF QuietStep, Gone
  <2>3. (job = "compact" => Gone /\ tx # NoTx) /\ (job = "recover" => tx \in Tx)
    BY <2>1 DEF QuietStep
  <2> QED
    BY <2>1, <2>2, <2>3
<1>1. tx.old \subseteq PageId
  BY <1>0 DEF Tx
<1>2. /\ \A p \in PageId : backup'[p] # {} => backup[p] # {}
      /\ backup' \in [PageId -> SUBSET Cell]
  BY <1>0, <1>1 DEF TypeOK, GoTo
<1>3. Quiet'
  BY <1>0, <1>2, QuietLess DEF Quiet
<1>4. Gone' <=> Gone
  BY DEF Gone, Sealed, GoTo, call, CellsIn
<1>5. TypeOK'
  BY <1>0, <1>2 DEF TypeOK, GoTo, call
<1>6. CASE UNCHANGED call
  <2>1. QuietStep'
    BY <1>0, <1>4, <1>6 DEF call, QuietStep
  <2> QED
    BY <1>0, <1>3, <1>5, <1>6, <2>1 DEF IInv, call, Rollback
<1>7. CASE (\A p \in tx.old : backup[p] = {}) /\ GoTo(IF job = "compact" THEN "markers" ELSE "clean") /\ UNCHANGED backup
  <2>1. job = "compact" => OldRestored(tx)'
    BY <1>7 DEF OldRestored, GoTo
  <2>2. QuietStep'
    BY <1>0, <1>4, <1>7, <2>1 DEF QuietStep, GoTo
  <2> QED
    BY <1>0, <1>3, <1>5, <1>7, <2>2 DEF IInv, GoTo, Rollback
<1> QED
  BY <1>6, <1>7

LEMMA PruneMarkersStep ==
    ASSUME IInv, PruneMarkers, job = "compact"
    PROVE  IInv'
<1> USE DEF PruneMarkers, files, derived, GoTo
<1>0. /\ disk.pend = NoTx /\ Quiet /\ QuietStep /\ man = disk /\ up /\ TypeOK
      /\ Gone /\ (tx # NoTx => OldRestored(tx))
  BY QuietSteps DEF QuietStep
<1>1. Stored \subseteq markers'
  BY <1>0 DEF Quiet
<1>2. Quiet'
  BY <1>0, <1>1, QuietLess
<1>3. Gone' /\ (tx' # NoTx => OldRestored(tx)')
  BY <1>0 DEF Gone, OldRestored, Sealed, CellsIn
<1>4. TypeOK'
  BY <1>0 DEF TypeOK
<1> QED
  BY <1>0, <1>2, <1>3, <1>4 DEF IInv, QuietStep, Rollback

LEMMA RemoveArchivesStep ==
    ASSUME IInv, RemoveArchives, job = "compact"
    PROVE  IInv'
<1> USE DEF RemoveArchives, files, derived, Return
<1>0. disk.pend = NoTx /\ Quiet /\ man = disk /\ up /\ TypeOK
  BY QuietSteps
<1>1. Quiet'
  BY <1>0, QuietFrame
<1>2. TypeOK'
  BY <1>0 DEF TypeOK
<1> QED
  BY <1>0, <1>1, <1>2 DEF IInv, QuietStep, Rollback

LEMMA CleanBackupsStep ==
    ASSUME IInv, CleanBackups, job = "recover"
    PROVE  IInv'
<1> USE DEF CleanBackups, derived, side, Return, call
<1>0. disk.pend = NoTx /\ Quiet /\ man = disk /\ up /\ TypeOK
  BY QuietSteps
<1>1. /\ \A p \in PageId : backup'[p] # {} => backup[p] # {}
      /\ backup' \in [PageId -> SUBSET Cell]
  BY <1>0 DEF TypeOK
<1>2. Quiet'
  BY <1>0, <1>1, QuietLess DEF Quiet
<1>3. TypeOK'
  BY <1>0, <1>1 DEF TypeOK
<1> QED
  BY <1>0, <1>2, <1>3 DEF IInv, QuietStep, Rollback

-----------------------------------------------------------------------------
(* An open transaction.                                                    *)

\* Its old and new page ids are apart.
LEMMA Apart ==
    ASSUME NEW t, WellFormed(t)
    PROVE  /\ t \in Tx /\ t # NoTx
           /\ t.old \subseteq PageId /\ t.new \subseteq PageId
           /\ t.old \cap t.new = {} /\ t.old # t.new
           /\ t.oldNext \in 1 .. MaxPage + 1 /\ t.next \in 1 .. MaxPage + 1
           /\ t.oldOver \subseteq Cell /\ t.pruned \subseteq Cell
           /\ \A p \in t.old : p < t.oldNext /\ p < t.next
           /\ \A p \in t.new : p < t.next /\ ~(p < t.oldNext)
<1>1. /\ t \in Tx /\ t # NoTx /\ t.old # {}
      /\ t.new = t.oldNext .. t.next - 1 /\ t.oldNext <= t.next
      /\ \A p \in t.old : p < t.oldNext
  BY NoTxAssumption DEF WellFormed
<1>2. /\ t.old \subseteq PageId /\ t.new \subseteq PageId
      /\ t.oldNext \in 1 .. MaxPage + 1 /\ t.next \in 1 .. MaxPage + 1
      /\ t.oldOver \subseteq Cell /\ t.pruned \subseteq Cell
  BY <1>1 DEF Tx
<1>3. t.oldNext \in Int /\ t.next \in Int /\ \A p \in t.old : p \in Int
  BY <1>2, BoundsAssumption DEF PageId
<1>4. \A p \in t.old : p < t.oldNext /\ p < t.next
  BY <1>1, <1>3
<1>5. \A p \in t.new : p < t.next /\ ~(p < t.oldNext)
  BY <1>1, <1>3
<1> QED
  BY <1>1, <1>2, <1>4, <1>5

\* What the invariant says while a transaction is on disk.
LEMMA TxFacts ==
    ASSUME IInv, disk.pend # NoTx
    PROVE  /\ TypeOK /\ Open1(disk.pend) /\ WellFormed(disk.pend) /\ TxStep
           /\ job # "none" => up /\ tx = disk.pend
           /\ job = "none" => step = "none"
           /\ job \notin Rollback => man = disk
BY DEF IInv, TxStep, Open1, Rollback

\* Which steps run with a transaction on disk.
LEMMA TxSteps ==
    ASSUME IInv,
           \/ step \in {"write", "catalog", "index", "lexical", "manifest", "move",
                        "verify", "commit", "restore", "remove", "finish"}
           \/ job \in Rollback
    PROVE  disk.pend # NoTx /\ job # "none" /\ tx = disk.pend
BY DEF IInv, QuietStep, TxStep, Rollback

\* Which call takes them.
LEMMA CallOfStep ==
    ASSUME IInv
    PROVE  /\ step = "write" => job = "compact" /\ CompactStep
           /\ step \in {"manifest", "move"} => (job = "compact" /\ CompactStep) \/ (job = "recover" /\ RecoverStep)
           /\ step \in {"verify", "commit"} => job \in {"compact", "recover"} /\ ClosingStep
           /\ step \in {"restore", "remove", "finish"} => job \in Rollback /\ RollbackStep
           /\ step \in {"seal", "plan", "journal", "markers", "archives"} => job = "compact"
           /\ step = "delete" => job \in {"compact", "recover"}
           /\ step = "clean" => job = "recover"
           /\ step = "catalog" =>
                (job = "compact" /\ CompactStep) \/ (job \in Rollback /\ RollbackStep)
           /\ step \in {"index", "lexical"} =>
                \/ job = "compact" /\ CompactStep
                \/ job = "recover" /\ RecoverStep
                \/ job \in Rollback /\ RollbackStep
BY DEF IInv, QuietStep, TxStep, CompactStep, RecoverStep, ClosingStep, RollbackStep, Rollback

\* Moving old cells between a page and its backup keeps the old memory.
LEMMA OldCellsKept ==
    ASSUME NEW t, \A p \in t.old : page'[p] \cup backup'[p] = page[p] \cup backup[p]
    PROVE  CellsIn(page', t.old) \cup CellsIn(backup', t.old) = OldCells(t)
<1>1. \A c : c \in CellsIn(page', t.old) \cup CellsIn(backup', t.old) <=>
                 \E p \in t.old : c \in page'[p] \cup backup'[p]
  BY InCells
<1>2. \A c : c \in OldCells(t) <=> \E p \in t.old : c \in page[p] \cup backup[p]
  BY InCells DEF OldCells
<1> QED
  BY <1>1, <1>2

\* Open1 across a step that keeps the old memory: what is left to show is
\* where the files are, what the manifest says and which catalog is active.
LEMMA OpenKept ==
    ASSUME NEW t, t = disk.pend, disk'.pend = t, Open1(t), UNCHANGED <<hot, markers, issued>>,
           \A p \in t.old : page'[p] \cup backup'[p] = page[p] \cup backup[p],
           \A p \in t.old : page'[p] = {} <=> backup'[p] # {},
           \A p \in PageId : page'[p] # {} => p \in t.old \cup t.new,
           \A p \in PageId : backup'[p] # {} => p < t.oldNext,
           \/ disk'.over = t.oldOver /\ disk'.next = t.oldNext
           \/ disk'.over = t.oldOver \ t.pruned /\ disk'.next = t.next,
           \/ catalog' = t.old /\ \A p \in t.old : backup'[p] = {}
           \/ /\ catalog' = t.new
              /\ \A p \in t.new : page'[p] # {}
              /\ CellsIn(page', t.new) = OldCells(t) \ t.pruned
              /\ Disjoint(page', t.new)
    PROVE  Open1(disk.pend)' /\ OldCells(disk.pend)' = OldCells(t)
<1>1. CellsIn(page', t.old) \cup CellsIn(backup', t.old) = OldCells(t)
  BY OldCellsKept
<1>2. OldCells(disk.pend)' = OldCells(t)
  BY <1>1 DEF OldCells
<1>3. WellFormed(disk.pend)'
  BY DEF Open1, WellFormed
<1>4. Prunable(disk.pend.oldOver, OldCells(disk.pend))' = Prunable(t.oldOver, OldCells(t))
  BY <1>2 DEF Prunable
<1>5. (OldOnDisk(disk.pend) \/ NewOnDisk(disk.pend))'
  BY DEF OldOnDisk, NewOnDisk
<1>6. \A p, q \in t.old : p # q => (page'[p] \cup backup'[p]) \cap (page'[q] \cup backup'[q]) = {}
  BY DEF Open1
<1>7. Disjoint(page, disk.pend.new)' <=> Disjoint(page', t.new)
  BY DEF Disjoint
<1>8. /\ hot' = {} /\ disk'.pend.pruned = Prunable(t.oldOver, OldCells(t))
      /\ disk'.pend.oldOver \subseteq OldCells(t)
      /\ OldCells(t) \subseteq markers' /\ OldCells(t) \subseteq issued'
  BY DEF Open1
<1> QED
  BY <1>2, <1>3, <1>4, <1>5, <1>6, <1>7, <1>8 DEF Open1

\* The facts of OpenKept when no page file, backup or catalog changes.
LEMMA OpenSame ==
    ASSUME NEW t, t = disk.pend, disk'.pend = t, Open1(t),
           UNCHANGED <<page, backup, catalog, hot, markers, issued>>,
           \/ disk'.over = t.oldOver /\ disk'.next = t.oldNext
           \/ disk'.over = t.oldOver \ t.pruned /\ disk'.next = t.next
    PROVE  Open1(disk.pend)' /\ OldCells(disk.pend)' = OldCells(t)
<1>1. /\ \A p \in t.old : page'[p] \cup backup'[p] = page[p] \cup backup[p]
      /\ \A p \in t.old : page'[p] = {} <=> backup'[p] # {}
      /\ \A p \in PageId : page'[p] # {} => p \in t.old \cup t.new
      /\ \A p \in PageId : backup'[p] # {} => p < t.oldNext
  BY DEF Open1
<1>2. \/ catalog' = t.old /\ \A p \in t.old : backup'[p] = {}
      \/ /\ catalog' = t.new
         /\ \A p \in t.new : page'[p] # {}
         /\ CellsIn(page', t.new) = OldCells(t) \ t.pruned
         /\ Disjoint(page', t.new)
  BY DEF Open1, Disjoint
<1> QED
  BY <1>1, <1>2, OpenKept

\* An open transaction on disk, and the whole of IInv from it.
LEMMA TxDone ==
    ASSUME IInv, disk.pend # NoTx, disk'.pend = disk.pend,
           TypeOK', Open1(disk.pend)', TxStep', up', job' # "none",
           job' \notin Rollback => man' = disk',
           hot' = hot, OldCells(disk.pend)' = OldCells(disk.pend)
    PROVE  IInv' /\ SameMemory
<1>1. IInv'
  BY DEF IInv
<1>2. RetainedCells = hot \cup OldCells(disk.pend) /\ RetainedOver = disk.pend.oldOver
  BY DEF RetainedCells, RetainedOver, OldCells
<1>3. RetainedCells' = hot' \cup OldCells(disk.pend)' /\ RetainedOver' = disk'.pend.oldOver
  BY DEF RetainedCells, RetainedOver, OldCells
<1> QED
  BY <1>1, <1>2, <1>3 DEF SameMemory

-----------------------------------------------------------------------------
(* The steps of the transaction.                                           *)

LEMMA WritePageStep ==
    ASSUME IInv, WritePage
    PROVE  IInv' /\ SameMemory
<1> USE DEF WritePage
<1> DEFINE t == disk.pend
<1>0. /\ TypeOK /\ Open1(t) /\ WellFormed(t) /\ up /\ t # NoTx
      /\ tx = t /\ man = disk /\ job = "compact" /\ step = "write"
      /\ AtWrite
  BY TxSteps, TxFacts, CallOfStep DEF CompactStep, Rollback
<1>1. UNCHANGED <<backup, catalog, index, lexical, disk, hot, archives, markers, issued, up, man, budget>>
  BY DEF derived, side
<1>2. \A p \in t.old : backup[p] = {}
  BY <1>0, Apart DEF AtWrite, Open1
<1>3. CASE UNCHANGED call /\ \E p \in tx.new : page' = [page EXCEPT ![p] = build[p]]
  <2>1. PICK p \in t.new : page' = [page EXCEPT ![p] = build[p]]
    BY <1>0, <1>3
  <2>2. p \in PageId /\ build[p] \in SUBSET Cell /\ p \notin t.old
    BY <1>0, Apart DEF AtWrite, BuildOK
  <2>3. /\ page' \in [PageId -> SUBSET Cell]
        /\ page'[p] = build[p]
        /\ \A q \in PageId : q # p => page'[q] = page[q]
    BY <1>0, <2>1, <2>2 DEF TypeOK
  <2>4. \A q \in t.old : page'[q] = page[q]
    BY <1>0, <2>2, <2>3, Apart
  <2>5. /\ \A q \in t.old : page'[q] \cup backup'[q] = page[q] \cup backup[q]
        /\ \A q \in t.old : page'[q] = {} <=> backup'[q] # {}
        /\ \A q \in PageId : page'[q] # {} => q \in t.old \cup t.new
        /\ \A q \in PageId : backup'[q] # {} => q < t.oldNext
    BY <1>0, <1>1, <2>1, <2>3, <2>4 DEF Open1
  <2>6. Open1(disk.pend)' /\ OldCells(disk.pend)' = OldCells(disk.pend)
    BY <1>0, <1>1, <1>2, <2>5, OpenKept DEF AtWrite, OldOnDisk
  <2>7. AtWrite'
    <3>1. BuildOK(tx)'
      BY <1>0, <1>1, <1>3, <2>6 DEF AtWrite, BuildOK, call, Disjoint, CellsIn
    <3>2. \A q \in tx'.new : page'[q] \in {{}, build'[q]}
      BY <1>0, <1>3, <2>3, Apart DEF AtWrite, call
    <3> QED
      BY <1>0, <1>1, <1>3, <3>1, <3>2 DEF AtWrite, OldOnDisk, call
  <2>8. TypeOK'
    BY <1>0, <1>1, <1>3, <2>3 DEF TypeOK, call
  <2> QED
    BY <1>0, <1>1, <1>3, <2>6, <2>7, <2>8, TxDone DEF TxStep, CompactStep, call, Rollback
<1>4. CASE (\A p \in t.new : page[p] # {}) /\ GoTo("catalog") /\ UNCHANGED page
  <2>1. Open1(disk.pend)' /\ OldCells(disk.pend)' = OldCells(t)
    BY <1>0, <1>1, <1>4, OpenSame DEF AtWrite, OldOnDisk
  <2>2. AtCatalog'
    <3>1. BuildOK(tx)'
      BY <1>0, <1>1, <1>4, <2>1 DEF AtWrite, BuildOK, GoTo, Disjoint, CellsIn
    <3> QED
      BY <1>0, <1>1, <1>4, <3>1 DEF AtWrite, AtCatalog, OldOnDisk, GoTo
  <2>3. TypeOK'
    BY <1>0, <1>1, <1>4 DEF TypeOK, GoTo
  <2> QED
    BY <1>0, <1>1, <1>4, <2>1, <2>2, <2>3, TxDone DEF TxStep, CompactStep, GoTo, Rollback
<1> QED
  BY <1>0, <1>3, <1>4

LEMMA SaveCatalogStep ==
    ASSUME IInv, SaveCatalog
    PROVE  IInv' /\ SameMemory
<1> USE DEF SaveCatalog, GoTo
<1> DEFINE t == disk.pend
<1>0. /\ TypeOK /\ Open1(t) /\ WellFormed(t) /\ up /\ t # NoTx /\ tx = t
      /\ job \notin Rollback => man = disk
      /\ \/ job = "compact" /\ AtCatalog
         \/ job \in Rollback /\ OldRestored(tx)
  BY TxSteps, TxFacts, CallOfStep DEF CompactStep, RollbackStep
<1>1. UNCHANGED <<page, backup, index, lexical, disk, hot, archives, markers, issued, up, budget, job, tx, build>>
  BY DEF derived, side, files
<1>2. /\ \A q \in t.old : page'[q] \cup backup'[q] = page[q] \cup backup[q]
      /\ \A q \in t.old : page'[q] = {} <=> backup'[q] # {}
      /\ \A q \in PageId : page'[q] # {} => q \in t.old \cup t.new
      /\ \A q \in PageId : backup'[q] # {} => q < t.oldNext
      /\ \/ disk'.over = t.oldOver /\ disk'.next = t.oldNext
         \/ disk'.over = t.oldOver \ t.pruned /\ disk'.next = t.next
  BY <1>0, <1>1 DEF Open1, OldOnDisk, NewOnDisk
<1>3. CASE job = "compact" /\ AtCatalog
  <2>1. catalog' = t.new /\ job \notin Rollback /\ man' = man
    BY <1>0, <1>3 DEF Rollback, ManAtStep
  <2>2. \A p \in t.new : page[p] = build[p] /\ page[p] # {}
    BY <1>0, <1>3 DEF AtCatalog, BuildOK
  <2>3. CellsIn(page', t.new) = OldCells(t) \ t.pruned
    BY <1>0, <1>1, <1>3, <2>2, CellsSame DEF AtCatalog, BuildOK
  <2>4. Disjoint(page', t.new)
    BY <1>0, <1>1, <1>3, <2>2 DEF AtCatalog, BuildOK, Disjoint
  <2>5. Open1(disk.pend)' /\ OldCells(disk.pend)' = OldCells(disk.pend)
    BY <1>0, <1>1, <1>2, <2>1, <2>2, <2>3, <2>4, OpenKept
  <2>6. TypeOK'
    BY <1>0, <1>1, <2>1, Apart DEF TypeOK
  <2> QED
    BY <1>0, <1>1, <1>3, <2>1, <2>5, <2>6, TxDone
    DEF TxStep, CompactStep, AtCatalog, Swapped, OldOnDisk, Rollback
<1>4. CASE job \in Rollback /\ OldRestored(tx)
  <2>1. /\ catalog' = t.old
        /\ man' = [man EXCEPT !.over = tx.oldOver, !.next = tx.oldNext]
    BY <1>0, <1>4 DEF Rollback, ManAtStep
  <2>2. \A p \in t.old : backup'[p] = {}
    BY <1>0, <1>1, <1>4 DEF OldRestored
  <2>3. Open1(disk.pend)' /\ OldCells(disk.pend)' = OldCells(disk.pend)
    BY <1>0, <1>1, <1>2, <2>1, <2>2, OpenKept
  <2>4. man' \in Manifest /\ man'.over = tx.oldOver /\ man'.next = tx.oldNext
    BY <1>0, <2>1, Apart DEF TypeOK, Manifest
  <2>5. TypeOK'
    BY <1>0, <1>1, <2>1, <2>4, Apart DEF TypeOK
  <2> QED
    BY <1>0, <1>1, <1>4, <2>1, <2>3, <2>4, <2>5, TxDone
    DEF TxStep, RollbackStep, SwappedBack, Rollback
<1> QED
  BY <1>0, <1>3, <1>4

\* Rebuilding a derived file: Open1 does not read it.
LEMMA DerivedOpen ==
    ASSUME IInv, disk.pend # NoTx, UNCHANGED <<page, backup, catalog, disk, hot, markers, issued>>
    PROVE  Open1(disk.pend)' /\ OldCells(disk.pend)' = OldCells(disk.pend)
BY TxFacts, OpenSame DEF Open1, OldOnDisk, NewOnDisk

LEMMA RebuildIndexStep ==
    ASSUME IInv, RebuildIndex
    PROVE  IInv' /\ SameMemory
<1> USE DEF RebuildIndex, GoTo
<1> DEFINE t == disk.pend
<1>0. /\ TypeOK /\ up /\ t # NoTx /\ tx = t
      /\ job \notin Rollback => man = disk
      /\ \/ job = "compact" /\ Swapped /\ OldOnDisk(tx)
         \/ job = "recover" /\ Swapped /\ OldMoved(tx)
         \/ job \in Rollback /\ SwappedBack
  BY TxSteps, TxFacts, CallOfStep DEF CompactStep, RecoverStep, RollbackStep
<1>1. /\ UNCHANGED <<page, backup, catalog, lexical, disk, hot, archives, markers, issued, up, man,
                     budget, job, tx, build>>
      /\ index' = catalog' /\ step' = "lexical"
  BY DEF side, files
<1>2. Open1(disk.pend)' /\ OldCells(disk.pend)' = OldCells(disk.pend)
  BY <1>0, <1>1, DerivedOpen
<1>3. TypeOK'
  BY <1>0, <1>1 DEF TypeOK
<1>4. TxStep'
  BY <1>0, <1>1 DEF TxStep, CompactStep, RecoverStep, RollbackStep, Swapped, SwappedBack,
                    Indexed, OldOnDisk, OldMoved
<1> QED
  BY <1>0, <1>1, <1>2, <1>3, <1>4, TxDone DEF Rollback

LEMMA RebuildLexicalStep ==
    ASSUME IInv, RebuildLexical
    PROVE  IInv' /\ SameMemory
<1> USE DEF RebuildLexical, GoTo
<1> DEFINE t == disk.pend
<1>0. /\ TypeOK /\ up /\ t # NoTx /\ tx = t
      /\ job \notin Rollback => man = disk
      /\ Indexed
      /\ \/ job = "compact" /\ Swapped /\ OldOnDisk(tx)
         \/ job = "recover" /\ Swapped /\ OldMoved(tx)
         \/ job \in Rollback /\ SwappedBack
  BY TxSteps, TxFacts, CallOfStep DEF CompactStep, RecoverStep, RollbackStep
<1>1. /\ UNCHANGED <<page, backup, catalog, index, disk, hot, archives, markers, issued, up, man,
                     budget, job, tx, build>>
      /\ lexical' = catalog' /\ Indexed'
      /\ step' = IF job \in Rollback THEN "remove" ELSE "manifest"
  BY <1>0 DEF side, files, Indexed
<1>2. Open1(disk.pend)' /\ OldCells(disk.pend)' = OldCells(disk.pend)
  BY <1>0, <1>1, DerivedOpen
<1>3. TypeOK'
  BY <1>0, <1>1 DEF TypeOK
<1>4. TxStep'
  BY <1>0, <1>1 DEF TxStep, CompactStep, RecoverStep, RollbackStep, Swapped, SwappedBack,
                    Lexed, OldOnDisk, OldMoved, Rollback
<1> QED
  BY <1>0, <1>1, <1>2, <1>3, <1>4, TxDone DEF Rollback

LEMMA VerifyStep ==
    ASSUME IInv, Verify
    PROVE  IInv' /\ SameMemory
<1> USE DEF Verify, GoTo
<1> DEFINE t == disk.pend
<1>0. /\ TypeOK /\ up /\ t # NoTx /\ tx = t /\ man = disk
      /\ job \in {"compact", "recover"} /\ ClosingStep
  BY TxSteps, TxFacts, CallOfStep DEF Rollback
<1>1. UNCHANGED <<page, backup, catalog, index, lexical, disk, hot, archives, markers, issued, up,
                  man, budget, job, tx, build>>
  BY DEF durable
<1>2. Open1(disk.pend)' /\ OldCells(disk.pend)' = OldCells(disk.pend)
  BY <1>0, <1>1, DerivedOpen
<1>3. TypeOK'
  BY <1>0, <1>1 DEF TypeOK
<1>4. ClosingStep'
  BY <1>0, <1>1 DEF ClosingStep, Swapped, OldMoved, Lexed, Indexed, NewOnDisk
<1> QED
  BY <1>0, <1>1, <1>2, <1>3, <1>4, TxDone DEF TxStep, Rollback

\* One old page goes to its backup.
LEMMA MoveOldPageStep ==
    ASSUME IInv, MoveOldPage
    PROVE  IInv' /\ SameMemory
<1> USE DEF MoveOldPage
<1> DEFINE t == disk.pend
<1>0. /\ TypeOK /\ Open1(t) /\ WellFormed(t) /\ up /\ t # NoTx /\ tx = t /\ man = disk
      /\ Swapped
      /\ \/ job = "compact" /\ step = "move" /\ NewOnDisk(tx) /\ Lexed
         \/ job = "recover" /\ step = "move"
  BY TxSteps, TxFacts, CallOfStep DEF CompactStep, RecoverStep, Rollback
<1>1. UNCHANGED <<catalog, index, lexical, disk, hot, archives, markers, issued, up, man, budget>>
  BY DEF derived, side
<1>2. /\ catalog = t.new /\ catalog' = t.new
      /\ \A p \in t.new : page[p] # {}
      /\ CellsIn(page, t.new) = OldCells(t) \ t.pruned
      /\ Disjoint(page, t.new)
  BY <1>0, <1>1, Apart DEF Swapped, Open1
<1>3. CASE UNCHANGED call /\ \E p \in tx.old : /\ backup[p] = {} /\ page[p] # {}
                                               /\ backup' = [backup EXCEPT ![p] = page[p]]
                                               /\ page' = [page EXCEPT ![p] = {}]
  <2>1. PICK p \in t.old : /\ backup[p] = {} /\ page[p] # {}
                           /\ backup' = [backup EXCEPT ![p] = page[p]]
                           /\ page' = [page EXCEPT ![p] = {}]
    BY <1>0, <1>3
  <2>2. p \in PageId /\ p \notin t.new /\ p < t.oldNext
    BY <1>0, Apart
  <2>3. /\ page' \in [PageId -> SUBSET Cell] /\ backup' \in [PageId -> SUBSET Cell]
        /\ page'[p] = {} /\ backup'[p] = page[p]
        /\ \A q \in PageId : q # p => page'[q] = page[q] /\ backup'[q] = backup[q]
    BY <1>0, <2>1, <2>2 DEF TypeOK
  <2>4. \A q \in t.new : page'[q] = page[q]
    BY <1>0, <2>2, <2>3, Apart
  <2>5. /\ \A q \in t.old : page'[q] \cup backup'[q] = page[q] \cup backup[q]
        /\ \A q \in t.old : page'[q] = {} <=> backup'[q] # {}
    BY <1>0, <2>1, <2>3, Apart DEF Open1
  <2>6. /\ \A q \in PageId : page'[q] # {} => q \in t.old \cup t.new
        /\ \A q \in PageId : backup'[q] # {} => q < t.oldNext
    BY <1>0, <2>1, <2>2, <2>3 DEF Open1
  <2>7. /\ \A q \in t.new : page'[q] # {}
        /\ CellsIn(page', t.new) = OldCells(t) \ t.pruned
        /\ Disjoint(page', t.new)
    BY <1>2, <2>4, CellsSame DEF Disjoint
  <2>8. \/ disk'.over = t.oldOver /\ disk'.next = t.oldNext
        \/ disk'.over = t.oldOver \ t.pruned /\ disk'.next = t.next
    BY <1>0, <1>1 DEF Open1, OldOnDisk, NewOnDisk
  <2>9. Open1(disk.pend)' /\ OldCells(disk.pend)' = OldCells(disk.pend)
    BY <1>0, <1>1, <1>2, <2>5, <2>6, <2>7, <2>8, OpenKept
  <2>10. TypeOK'
    BY <1>0, <1>1, <1>3, <2>3 DEF TypeOK, call
  <2>11. TxStep'
    BY <1>0, <1>1, <1>3 DEF TxStep, CompactStep, RecoverStep, Swapped, NewOnDisk, Lexed, Indexed, call
  <2> QED
    BY <1>0, <1>1, <1>3, <2>9, <2>10, <2>11, TxDone DEF call, Rollback
<1>4. CASE /\ \A p \in tx.old : backup[p] # {} \/ page[p] = {}
           /\ GoTo(IF job = "compact" THEN "verify" ELSE "index")
           /\ UNCHANGED files
  <2>1. Open1(disk.pend)' /\ OldCells(disk.pend)' = OldCells(disk.pend)
    BY <1>0, <1>1, <1>4, DerivedOpen DEF files
  <2>2. OldMoved(tx)'
    BY <1>0, <1>4 DEF Open1, OldMoved, files, GoTo
  <2>3. TypeOK'
    BY <1>0, <1>1, <1>4 DEF TypeOK, GoTo, files
  <2>4. TxStep'
    BY <1>0, <1>1, <1>4, <2>2 DEF TxStep, RecoverStep, ClosingStep, Swapped, NewOnDisk, Lexed, Indexed, GoTo
  <2> QED
    BY <1>0, <1>1, <1>4, <2>1, <2>3, <2>4, TxDone DEF GoTo, Rollback
<1> QED
  BY <1>3, <1>4

\* One backup becomes its old page again.
LEMMA RestoreBackupStep ==
    ASSUME IInv, RestoreBackup
    PROVE  IInv' /\ SameMemory
<1> USE DEF RestoreBackup
<1> DEFINE t == disk.pend
<1>0. /\ TypeOK /\ Open1(t) /\ WellFormed(t) /\ up /\ t # NoTx /\ tx = t
      /\ job \in Rollback /\ step = "restore"
  BY TxSteps, TxFacts, CallOfStep DEF RollbackStep
<1>1. UNCHANGED <<catalog, index, lexical, disk, hot, archives, markers, issued, up, man, budget>>
  BY DEF derived, side
<1>2. CASE UNCHANGED call /\ \E p \in tx.old : /\ backup[p] # {}
                                               /\ page' = [page EXCEPT ![p] = backup[p]]
                                               /\ backup' = [backup EXCEPT ![p] = {}]
  <2>1. PICK p \in t.old : /\ backup[p] # {} /\ page[p] = {}
                           /\ page' = [page EXCEPT ![p] = backup[p]]
                           /\ backup' = [backup EXCEPT ![p] = {}]
    BY <1>0, <1>2 DEF Open1
  <2>2. p \in PageId /\ p \notin t.new
    BY <1>0, Apart
  <2>3. /\ page' \in [PageId -> SUBSET Cell] /\ backup' \in [PageId -> SUBSET Cell]
        /\ page'[p] = backup[p] /\ backup'[p] = {}
        /\ \A q \in PageId : q # p => page'[q] = page[q] /\ backup'[q] = backup[q]
    BY <1>0, <2>1, <2>2 DEF TypeOK
  <2>4. /\ catalog' = t.new
        /\ \A q \in t.new : page[q] # {}
        /\ CellsIn(page, t.new) = OldCells(t) \ t.pruned
        /\ Disjoint(page, t.new)
    BY <1>0, <1>1, <2>1 DEF Open1
  <2>5. \A q \in t.new : page'[q] = page[q]
    BY <1>0, <2>2, <2>3, Apart
  <2>6. /\ \A q \in t.old : page'[q] \cup backup'[q] = page[q] \cup backup[q]
        /\ \A q \in t.old : page'[q] = {} <=> backup'[q] # {}
    BY <1>0, <2>1, <2>3, Apart DEF Open1
  <2>7. /\ \A q \in PageId : page'[q] # {} => q \in t.old \cup t.new
        /\ \A q \in PageId : backup'[q] # {} => q < t.oldNext
    BY <1>0, <2>1, <2>3 DEF Open1
  <2>8. /\ \A q \in t.new : page'[q] # {}
        /\ CellsIn(page', t.new) = OldCells(t) \ t.pruned
        /\ Disjoint(page', t.new)
    BY <2>4, <2>5, CellsSame DEF Disjoint
  <2>9. \/ disk'.over = t.oldOver /\ disk'.next = t.oldNext
        \/ disk'.over = t.oldOver \ t.pruned /\ disk'.next = t.next
    BY <1>0, <1>1 DEF Open1, OldOnDisk, NewOnDisk
  <2>10. Open1(disk.pend)' /\ OldCells(disk.pend)' = OldCells(disk.pend)
    BY <1>0, <1>1, <2>4, <2>6, <2>7, <2>8, <2>9, OpenKept
  <2>11. TypeOK'
    BY <1>0, <1>1, <1>2, <2>3 DEF TypeOK, call
  <2> QED
    BY <1>0, <1>1, <1>2, <2>10, <2>11, TxDone DEF TxStep, RollbackStep, call, Rollback
<1>3. CASE (\A p \in tx.old : backup[p] = {}) /\ GoTo("catalog") /\ UNCHANGED files
  <2>1. Open1(disk.pend)' /\ OldCells(disk.pend)' = OldCells(disk.pend)
    BY <1>0, <1>1, <1>3, DerivedOpen DEF files
  <2>2. OldRestored(tx)'
    BY <1>3 DEF OldRestored, files, GoTo
  <2>3. TypeOK'
    BY <1>0, <1>1, <1>3 DEF TypeOK, GoTo, files
  <2> QED
    BY <1>0, <1>1, <1>3, <2>1, <2>2, <2>3, TxDone DEF TxStep, RollbackStep, GoTo, Rollback
<1> QED
  BY <1>2, <1>3

\* One new page goes away; the catalog is the old one already.
LEMMA RemoveNewPageStep ==
    ASSUME IInv, RemoveNewPage
    PROVE  IInv' /\ SameMemory
<1> USE DEF RemoveNewPage
<1> DEFINE t == disk.pend
<1>0. /\ TypeOK /\ Open1(t) /\ WellFormed(t) /\ up /\ t # NoTx /\ tx = t
      /\ job \in Rollback /\ step = "remove" /\ SwappedBack /\ Lexed
  BY TxSteps, TxFacts, CallOfStep DEF RollbackStep
<1>1. UNCHANGED <<backup, catalog, index, lexical, disk, hot, archives, markers, issued, up, man, budget>>
  BY DEF derived, side
<1>2. CASE UNCHANGED call /\ \E p \in tx.new : page' = [page EXCEPT ![p] = {}]
  <2>1. PICK p \in t.new : page' = [page EXCEPT ![p] = {}]
    BY <1>0, <1>2
  <2>2. p \in PageId /\ p \notin t.old
    BY <1>0, Apart
  <2>3. /\ page' \in [PageId -> SUBSET Cell] /\ page'[p] = {}
        /\ \A q \in PageId : q # p => page'[q] = page[q]
    BY <1>0, <2>1, <2>2 DEF TypeOK
  <2>4. \A q \in t.old : page'[q] = page[q]
    BY <1>0, <2>2, <2>3, Apart
  <2>5. /\ \A q \in t.old : page'[q] \cup backup'[q] = page[q] \cup backup[q]
        /\ \A q \in t.old : page'[q] = {} <=> backup'[q] # {}
        /\ \A q \in PageId : page'[q] # {} => q \in t.old \cup t.new
        /\ \A q \in PageId : backup'[q] # {} => q < t.oldNext
    BY <1>0, <1>1, <2>3, <2>4 DEF Open1
  <2>6. catalog' = t.old /\ \A q \in t.old : backup'[q] = {}
    BY <1>0, <1>1, Apart DEF SwappedBack, Open1
  <2>7. \/ disk'.over = t.oldOver /\ disk'.next = t.oldNext
        \/ disk'.over = t.oldOver \ t.pruned /\ disk'.next = t.next
    BY <1>0, <1>1 DEF Open1, OldOnDisk, NewOnDisk
  <2>8. Open1(disk.pend)' /\ OldCells(disk.pend)' = OldCells(disk.pend)
    BY <1>0, <1>1, <2>5, <2>6, <2>7, OpenKept
  <2>9. TypeOK'
    BY <1>0, <1>1, <1>2, <2>3 DEF TypeOK, call
  <2> QED
    BY <1>0, <1>1, <1>2, <2>8, <2>9, TxDone
    DEF TxStep, RollbackStep, SwappedBack, Lexed, Indexed, call, Rollback
<1>3. CASE (\A p \in tx.new : page[p] = {}) /\ GoTo("finish") /\ UNCHANGED page
  <2>1. Open1(disk.pend)' /\ OldCells(disk.pend)' = OldCells(disk.pend)
    BY <1>0, <1>1, <1>3, DerivedOpen
  <2>2. TypeOK'
    BY <1>0, <1>1, <1>3 DEF TypeOK, GoTo
  <2> QED
    BY <1>0, <1>1, <1>3, <2>1, <2>2, TxDone
    DEF TxStep, RollbackStep, SwappedBack, Lexed, Indexed, GoTo, Rollback
<1> QED
  BY <1>2, <1>3

-----------------------------------------------------------------------------
(* The manifest saves: a transaction opens, changes the manifest, closes.  *)

\* The journal: the plan, which describes the store, goes into the manifest.
LEMMA JournalStep ==
    ASSUME IInv, SaveManifest, step = "journal"
    PROVE  IInv' /\ SameMemory
<1> USE DEF SaveManifest, GoTo
<1>0. /\ disk.pend = NoTx /\ Quiet /\ man = disk /\ up /\ TypeOK /\ job = "compact" /\ AtJournal
  BY QuietSteps, CallOfStep DEF QuietStep
<1>1. /\ UNCHANGED <<page, backup, catalog, index, lexical, hot, archives, markers, issued, up, budget,
                     job, tx, build>>
      /\ step' = "write"
  BY DEF derived, side, files
<1>2. man' = [man EXCEPT !.pend = tx] /\ disk' = [man EXCEPT !.pend = tx]
  BY DEF ManAtStep
<1>3. tx \in Tx /\ tx # NoTx /\ WellFormed(tx)
  BY <1>0, Apart DEF AtJournal
<1>4. /\ disk' \in Manifest /\ man' = disk' /\ disk'.pend = tx
      /\ disk'.over = disk.over /\ disk'.next = disk.next
  BY <1>0, <1>2, <1>3 DEF TypeOK, Manifest
<1>5. OldCells(tx) = Sealed /\ Stored = Sealed
  <2>1. CellsIn(backup, catalog) = {}
    BY <1>0, InCells DEF AtJournal
  <2> QED
    BY <1>0, <2>1 DEF AtJournal, OldCells, Sealed, Stored
<1>6. /\ \A p \in tx.old : page[p] # {} /\ backup[p] = {}
      /\ \A p \in PageId : page[p] # {} => p \in tx.old
      /\ \A p \in tx.new : page[p] = {}
  BY <1>0, <1>3, Apart DEF AtJournal, Quiet
<1>7. Open1(tx)
  <2>1. /\ hot = {} /\ tx.pruned = Prunable(tx.oldOver, OldCells(tx))
        /\ tx.oldOver \subseteq OldCells(tx)
        /\ OldCells(tx) \subseteq markers /\ OldCells(tx) \subseteq issued
        /\ \A p \in PageId : backup[p] # {} => p < tx.oldNext
        /\ OldOnDisk(tx)
        /\ catalog = tx.old
    BY <1>0, <1>5 DEF AtJournal, Quiet, OldOnDisk
  <2>2. \A p, q \in tx.old : p # q => (page[p] \cup backup[p]) \cap (page[q] \cup backup[q]) = {}
    BY <1>0, <1>6, <2>1 DEF Quiet, Disjoint
  <2> QED
    BY <1>3, <1>6, <2>1, <2>2 DEF Open1
<1>8. OldCells(disk.pend)' = OldCells(tx)
  BY <1>1, <1>4 DEF OldCells, CellsIn
<1>9. Open1(disk.pend)'
  <2>1. WellFormed(disk.pend)'
    BY <1>3, <1>4 DEF WellFormed
  <2>2. Prunable(disk.pend.oldOver, OldCells(disk.pend))' = Prunable(tx.oldOver, OldCells(tx))
    BY <1>4, <1>8 DEF Prunable
  <2>3. OldOnDisk(disk.pend)'
    BY <1>0, <1>4 DEF AtJournal, OldOnDisk
  <2>4. catalog' = tx.old /\ \A p \in tx.old : backup'[p] = {}
    BY <1>0, <1>1, <1>6 DEF AtJournal
  <2> QED
    BY <1>1, <1>4, <1>7, <1>8, <2>1, <2>2, <2>3, <2>4 DEF Open1
<1>10. AtWrite'
  <2>1. BuildOK(tx)'
    BY <1>0, <1>1, <1>4, <1>8 DEF AtJournal, BuildOK, Disjoint, CellsIn
  <2> QED
    BY <1>0, <1>1, <1>4, <1>6, <2>1 DEF AtJournal, AtWrite, OldOnDisk
<1>11. TypeOK'
  BY <1>0, <1>1, <1>4 DEF TypeOK
<1>12. SameMemory
  <2>1. RetainedCells = hot \cup Sealed /\ RetainedOver = disk.over
    BY <1>0 DEF RetainedCells, RetainedOver
  <2>2. RetainedCells' = hot' \cup OldCells(disk.pend)' /\ RetainedOver' = tx.oldOver
    BY <1>3, <1>4 DEF RetainedCells, RetainedOver, OldCells
  <2> QED
    BY <1>0, <1>1, <1>5, <1>8, <2>1, <2>2 DEF SameMemory, AtJournal
<1> QED
  BY <1>0, <1>1, <1>3, <1>4, <1>9, <1>10, <1>11, <1>12 DEF IInv, TxStep, CompactStep, Rollback

\* apply_compaction_manifest: by the compact itself or by a recovery, which
\* finds it done or not.
LEMMA ApplyManifestStep ==
    ASSUME IInv, SaveManifest, step = "manifest"
    PROVE  IInv' /\ SameMemory
<1> USE DEF SaveManifest, GoTo
<1> DEFINE t == disk.pend
<1>0. /\ TypeOK /\ Open1(t) /\ WellFormed(t) /\ up /\ t # NoTx /\ tx = t /\ man = disk
      /\ Swapped /\ Lexed
      /\ \/ job = "compact"
         \/ job = "recover" /\ OldMoved(tx)
  BY TxSteps, TxFacts, CallOfStep DEF CompactStep, RecoverStep, Rollback
<1>1. /\ UNCHANGED <<page, backup, catalog, index, lexical, hot, archives, markers, issued, up, budget,
                     job, tx, build>>
      /\ job = "compact" => step' = "move"
      /\ job = "recover" => step' = "verify"
  BY DEF derived, side, files
<1>2. /\ man' = [man EXCEPT !.over = @ \ tx.pruned, !.next = tx.next]
      /\ disk' = man'
  BY DEF ManAtStep
<1>3. tx.next \in 1 .. MaxPage + 1
  BY <1>0, Apart
<1>4. /\ disk' \in Manifest /\ disk'.pend = t
      /\ disk'.over = disk.over \ t.pruned /\ disk'.next = t.next
  <2>1. /\ disk = [next |-> disk.next, over |-> disk.over, pend |-> t]
        /\ disk.over \subseteq Cell /\ t \in Tx
    BY <1>0, Apart DEF TypeOK, Manifest
  <2>2. disk' = [next |-> t.next, over |-> disk.over \ t.pruned, pend |-> t]
    BY <1>0, <1>2, <2>1
  <2> QED
    BY <1>0, <1>3, <2>1, <2>2 DEF Manifest
<1>5. disk'.over = t.oldOver \ t.pruned
  BY <1>0, <1>4 DEF Open1, OldOnDisk, NewOnDisk
<1>6. Open1(disk.pend)' /\ OldCells(disk.pend)' = OldCells(disk.pend)
  BY <1>0, <1>1, <1>4, <1>5, OpenSame
<1>7. TypeOK'
  BY <1>0, <1>1, <1>2, <1>4 DEF TypeOK
<1>8. Swapped' /\ Lexed' /\ NewOnDisk(tx)' /\ (OldMoved(tx) => OldMoved(tx)')
  BY <1>0, <1>1, <1>4, <1>5 DEF Swapped, Lexed, Indexed, NewOnDisk, OldMoved
<1>9. TxStep'
  BY <1>0, <1>1, <1>4, <1>8 DEF TxStep, CompactStep, ClosingStep
<1> QED
  BY <1>0, <1>1, <1>2, <1>4, <1>6, <1>7, <1>9, TxDone DEF Rollback

\* The commit: what the new pages hold is the whole store.
LEMMA CommitStep ==
    ASSUME IInv, SaveManifest, step = "commit"
    PROVE  /\ IInv'
           /\ Sealed' = OldCells(tx) \ tx.pruned /\ hot' = {} /\ disk'.pend = NoTx
           /\ disk'.over = tx.oldOver \ tx.pruned
<1> USE DEF SaveManifest, GoTo
<1> DEFINE t == disk.pend
<1>0. /\ TypeOK /\ Open1(t) /\ WellFormed(t) /\ up /\ t # NoTx /\ tx = t /\ man = disk
      /\ job \in {"compact", "recover"} /\ Swapped /\ OldMoved(tx) /\ Lexed /\ NewOnDisk(tx)
  BY TxSteps, TxFacts, CallOfStep DEF ClosingStep, Rollback
<1>1. /\ UNCHANGED <<page, backup, catalog, index, lexical, hot, archives, markers, issued, up, budget,
                     job, tx, build>>
      /\ step' = "delete"
  BY DEF derived, side, files
<1>2. man' = [man EXCEPT !.pend = NoTx] /\ disk' = man'
  BY DEF ManAtStep
<1>3. /\ disk' \in Manifest /\ disk'.pend = NoTx
      /\ disk'.over = t.oldOver \ t.pruned /\ disk'.next = t.next
  BY <1>0, <1>2 DEF TypeOK, Manifest, NewOnDisk
<1>4. /\ catalog = t.new
      /\ \A p \in t.new : page[p] # {}
      /\ CellsIn(page, t.new) = OldCells(t) \ t.pruned
      /\ Disjoint(page, t.new)
  BY <1>0, Apart DEF Swapped, Open1
<1>5. Sealed' = OldCells(t) \ t.pruned /\ hot' = {} /\ Stored' = Sealed'
  BY <1>0, <1>1, <1>4 DEF Sealed, Stored, CellsIn, Open1
<1>6. \A p \in PageId : page'[p] # {} <=> p \in catalog'
  BY <1>0, <1>1, <1>4, Apart DEF Open1, OldMoved
<1>7. \A p \in catalog' : p < disk'.next
  BY <1>0, <1>1, <1>3, <1>4, Apart
<1>8. \A p \in PageId : backup'[p] # {} => p \notin catalog' /\ p < disk'.next
  <2> SUFFICES ASSUME NEW p \in PageId, backup'[p] # {} PROVE p \notin t.new /\ p < t.next
    BY <1>1, <1>3, <1>4
  <2>1. p < t.oldNext
    BY <1>0, <1>1 DEF Open1
  <2>2. p \in Int /\ t.oldNext \in Int /\ t.next \in Int /\ t.oldNext <= t.next
    BY <1>0, Apart, BoundsAssumption DEF PageId, WellFormed
  <2> QED
    BY <1>0, <2>1, <2>2, Apart
<1>9. Disjoint(page, catalog)'
  BY <1>1, <1>4 DEF Disjoint
<1>10. Quiet'
  <2>1. disk'.over \subseteq Stored'
    BY <1>0, <1>3, <1>5 DEF Open1
  <2>2. Stored' \subseteq markers' /\ Stored' \subseteq issued'
    BY <1>0, <1>1, <1>5 DEF Open1
  <2>3. index' = catalog' /\ lexical' = catalog'
    BY <1>0, <1>1 DEF Lexed, Indexed
  <2> QED
    BY <1>5, <1>6, <1>7, <1>8, <1>9, <2>1, <2>2, <2>3 DEF Quiet
<1>11. QuietStep'
  BY <1>0, <1>1, <1>5, Apart DEF QuietStep, Gone
<1>12. TypeOK'
  BY <1>0, <1>1, <1>2, <1>3 DEF TypeOK
<1> QED
  BY <1>0, <1>1, <1>2, <1>3, <1>5, <1>10, <1>11, <1>12 DEF IInv, Rollback

LEMMA SaveManifestStep ==
    ASSUME IInv, SaveManifest
    PROVE  IInv'
BY JournalStep, ApplyManifestStep, CommitStep DEF SaveManifest

\* The end of a rollback: the old pages are the whole store again.
LEMMA FinishRollbackStep ==
    ASSUME IInv, FinishRollback
    PROVE  /\ IInv'
           /\ Sealed' = OldCells(tx) /\ hot' = {} /\ disk'.pend = NoTx
           /\ disk'.over = tx.oldOver
<1> USE DEF FinishRollback
<1> DEFINE t == disk.pend
<1>0. /\ TypeOK /\ Open1(t) /\ WellFormed(t) /\ up /\ t # NoTx /\ tx = t
      /\ job \in Rollback /\ SwappedBack /\ Lexed /\ \A p \in tx.new : page[p] = {}
  BY TxSteps, TxFacts, CallOfStep DEF RollbackStep
<1>1. UNCHANGED <<page, backup, catalog, index, lexical, hot, archives, markers, issued, budget>>
  BY DEF derived, side, files
<1>2. disk' = [man EXCEPT !.pend = NoTx] /\ disk' = ManAtStep
  BY DEF ManAtStep
<1>3. /\ disk' \in Manifest /\ disk'.pend = NoTx
      /\ disk'.over = t.oldOver /\ disk'.next = t.oldNext
  BY <1>0, <1>2 DEF TypeOK, Manifest, SwappedBack
<1>4. /\ catalog = t.old /\ \A p \in t.old : backup[p] = {} /\ page[p] # {}
  BY <1>0, Apart DEF SwappedBack, Open1
<1>5. CellsIn(backup, t.old) = {}
  BY <1>4, InCells
<1>6. Sealed' = OldCells(t) /\ hot' = {} /\ Stored' = Sealed'
  <2>1. CellsIn(page', catalog') = CellsIn(page, t.old)
    BY <1>1, <1>4
  <2> QED
    BY <1>0, <1>1, <1>5, <2>1 DEF Sealed, Stored, OldCells, Open1
<1>7. \A p \in PageId : page'[p] # {} <=> p \in catalog'
  BY <1>0, <1>1, <1>4 DEF Open1
<1>8. \A p \in catalog' : p < disk'.next
  BY <1>0, <1>1, <1>3, <1>4, Apart
<1>9. \A p \in PageId : backup'[p] # {} => p \notin catalog' /\ p < disk'.next
  BY <1>0, <1>1, <1>3, <1>4 DEF Open1
<1>10. Disjoint(page, catalog)'
  BY <1>0, <1>1, <1>4 DEF Disjoint, Open1
<1>11. Quiet'
  <2>1. disk'.over \subseteq Stored'
    BY <1>0, <1>3, <1>6 DEF Open1
  <2>2. Stored' \subseteq markers' /\ Stored' \subseteq issued'
    BY <1>0, <1>1, <1>6 DEF Open1
  <2>3. index' = catalog' /\ lexical' = catalog'
    BY <1>0, <1>1 DEF Lexed, Indexed
  <2> QED
    BY <1>6, <1>7, <1>8, <1>9, <1>10, <2>1, <2>2, <2>3 DEF Quiet
<1>12. /\ man' = disk' /\ tx' \in Tx \cup {NoTx}
       /\ \/ job' = "none" /\ step' = "none" /\ tx' = NoTx /\ up' \in BOOLEAN
          \/ job' = "recover" /\ step' = "clean" /\ up'
  <2>1. CASE job = "undo"
    BY <1>0, <1>2, <2>1 DEF Return, TypeOK
  <2>2. CASE job = "restore"
    BY <1>0, <1>2, <2>2 DEF TypeOK
  <2>3. CASE job = "abandon"
    BY <1>0, <1>2, <2>3 DEF Return, Down, TypeOK
  <2> QED
    BY <1>0, <2>1, <2>2, <2>3 DEF Rollback
<1>13. TypeOK'
  BY <1>0, <1>1, <1>3, <1>12 DEF TypeOK
<1> QED
  BY <1>0, <1>3, <1>6, <1>11, <1>12, <1>13 DEF IInv, QuietStep, Rollback

-----------------------------------------------------------------------------
(* Errors and opening.                                                     *)

\* ManAtStep is a manifest.
LEMMA ManAtStepType ==
    ASSUME TypeOK, InTransaction => tx \in Tx, job \in Rollback => tx \in Tx
    PROVE  InTransaction \/ job \in Rollback => ManAtStep \in Manifest
<1>1. CASE step = "manifest" /\ tx \in Tx
  <2>1. man \in Manifest /\ tx.next \in 1 .. MaxPage + 1
    BY <1>1 DEF TypeOK, Tx
  <2>2. man = [next |-> man.next, over |-> man.over, pend |-> man.pend]
    BY <2>1 DEF Manifest
  <2>3. ManAtStep = [next |-> tx.next, over |-> man.over \ tx.pruned, pend |-> man.pend]
    BY <1>1, <2>2 DEF ManAtStep
  <2> QED
    BY <2>1, <2>3 DEF Manifest
<1>2. CASE step \in {"commit", "finish"}
  BY <1>2 DEF ManAtStep, TypeOK, Manifest
<1>3. CASE step = "catalog" /\ job \in Rollback
  BY <1>3 DEF ManAtStep, TypeOK, Manifest, Tx
<1>4. CASE step = "journal" /\ tx \in Tx
  BY <1>4 DEF ManAtStep, TypeOK, Manifest
<1>5. CASE step \notin {"manifest", "commit", "finish", "journal"} /\ ~(step = "catalog" /\ job \in Rollback)
  BY <1>5 DEF ManAtStep, TypeOK
<1> QED
  BY <1>1, <1>2, <1>3, <1>4, <1>5 DEF InTransaction

\* Under NoKeptFaults, an error inside the transaction starts a rollback; any
\* other error is met with no transaction on disk, or ends the engine.
LEMMA StepFailsStep ==
    ASSUME NoKeptFaults, IInv, StepFails
    PROVE  IInv'
<1> USE DEF StepFails
<1>0. TypeOK /\ up /\ budget' \in 0 .. MaxFaults /\ UNCHANGED durable
  <2>1. TypeOK /\ up
    BY DEF IInv
  <2>2. budget \in 0 .. MaxFaults /\ (StepPossible => budget > 0)
    BY <2>1 DEF TypeOK, Errs
  <2> QED
    BY <2>1, <2>2, BoundsAssumption
<1>1. CASE InTransaction /\ job \in {"compact", "recover"}
  <2>1. /\ disk.pend # NoTx /\ Open1(disk.pend) /\ tx = disk.pend /\ tx \in Tx
    BY <1>1, TxSteps, TxFacts, Apart DEF InTransaction
  <2>2. PICK j \in {"undo", "abandon"} : StartRollback(j)
    BY <1>1
  <2>3. ManAtStep \in Manifest
    BY <1>0, <1>1, <2>1, ManAtStepType
  <2>4. TypeOK'
    BY <1>0, <2>1, <2>2, <2>3 DEF TypeOK, StartRollback, durable, Rollback
  <2>5. Open1(disk.pend)' /\ OldCells(disk.pend)' = OldCells(disk.pend) /\ hot' = hot
    BY <1>0, <2>1, DerivedOpen DEF durable
  <2>6. TxStep'
    BY <1>0, <2>1, <2>2 DEF TxStep, RollbackStep, StartRollback, Rollback, durable
  <2>7. up' /\ job' # "none" /\ job' \in Rollback /\ disk' = disk
    BY <1>0, <2>2 DEF StartRollback, Rollback, durable
  <2> QED
    BY <2>1, <2>4, <2>5, <2>6, <2>7, TxDone
<1>2. CASE ~InTransaction /\ job = "compact"
  <2>1. /\ disk.pend = NoTx /\ Quiet /\ man = disk
        /\ step \in {"seal", "plan", "journal", "delete", "markers", "archives"}
    BY <1>2 DEF IInv, QuietStep, TxStep, CompactStep, ClosingStep, InTransaction, Rollback
  <2>2. <<job, step>> \in Faults
    BY <2>1 DEF Errs, StepPossible
  <2>3. step # "journal"
    BY <1>2, <2>2 DEF NoKeptFaults
  <2>4. Return /\ man' = man /\ UNCHANGED up
    BY <1>2, <2>1, <2>3 DEF ManAtStep
  <2>5. TypeOK'
    BY <1>0, <2>4 DEF TypeOK, Return, durable
  <2>6. Quiet'
    BY <1>0, <2>1, QuietFrame DEF durable, files, derived
  <2> QED
    BY <1>0, <2>1, <2>4, <2>5, <2>6 DEF IInv, QuietStep, Return, durable, Rollback
<1>3. job # "undo"
  <2> SUFFICES ASSUME job = "undo" PROVE FALSE
    OBVIOUS
  <2>1. /\ Open1(tx) /\ RollbackStep
    BY TxSteps, TxFacts DEF TxStep, Rollback
  <2>2. StepPossible
    <3>1. CASE step = "index"
      <4>1. catalog = tx.old /\ \A p \in tx.old : page[p] # {}
        BY <2>1, <3>1, Apart DEF RollbackStep, SwappedBack, Open1
      <4> QED
        BY <3>1, <4>1 DEF StepPossible, PagesReadable
    <3>2. CASE step = "restore"
      BY <2>1, <3>2 DEF StepPossible, BothExist, Open1
    <3>3. CASE step \notin {"index", "verify", "restore"}
      BY <3>3 DEF StepPossible
    <3> QED
      BY <2>1, <3>1, <3>2, <3>3 DEF RollbackStep
  <2>3. <<job, step>> \in Faults
    BY <2>2 DEF Errs
  <2> QED
    BY <2>3 DEF NoKeptFaults
<1>4. CASE job \notin {"compact", "undo"} /\ ~(job = "recover" /\ InTransaction)
  <2>1. Down
    BY <1>4
  <2> QED
    BY <1>0, <2>1, DownStep
<1> QED
  BY <1>1, <1>2, <1>3, <1>4

\* A writable open starts from whatever the files are.
LEMMA OpenStep ==
    ASSUME IInv, Open
    PROVE  IInv'
<1> USE DEF Open, durable
<1>0. TypeOK /\ UNCHANGED durable /\ man' = disk /\ tx' = disk.pend /\ up'
  BY DEF IInv
<1>1. CASE disk.pend = NoTx
  <2>1. Quiet' /\ job' = "recover" /\ step' = "clean"
    BY <1>0, <1>1, QuietFrame DEF IInv, files, derived
  <2>2. TypeOK'
    BY <1>0, <1>1, <2>1 DEF TypeOK
  <2> QED
    BY <1>0, <1>1, <2>1, <2>2 DEF IInv, QuietStep, Rollback
<1>2. CASE disk.pend # NoTx /\ Committed(disk.pend)
  <2>1. /\ Open1(disk.pend)' /\ OldCells(disk.pend)' = OldCells(disk.pend)
        /\ Open1(disk.pend) /\ WellFormed(disk.pend)
    BY <1>0, <1>2, DerivedOpen, TxFacts
  <2>2. job' = "recover" /\ step' = "move"
    BY <1>2
  <2>3. catalog = disk.pend.new
    <3> DEFINE t == disk.pend
    <3>1. /\ t \in Tx /\ t.old # {} /\ \A p \in t.old : p \notin t.new
          /\ catalog = t.old \/ catalog = t.new
      BY <2>1, Apart DEF Open1, WellFormed
    <3> QED
      BY <1>0, <1>2, <3>1, CommittedIsNew DEF TypeOK
  <2>4. TypeOK'
    BY <1>0, <2>1, <2>2, Apart DEF TypeOK
  <2>5. TxStep'
    BY <1>0, <2>2, <2>3 DEF TxStep, RecoverStep, Swapped
  <2> QED
    BY <1>0, <1>2, <2>1, <2>2, <2>4, <2>5, TxDone DEF Rollback
<1>3. CASE disk.pend # NoTx /\ ~Committed(disk.pend)
  <2>1. /\ Open1(disk.pend)' /\ OldCells(disk.pend)' = OldCells(disk.pend)
        /\ WellFormed(disk.pend)
    BY <1>0, <1>3, DerivedOpen, TxFacts
  <2>2. job' = "restore" /\ step' = "restore"
    BY <1>3
  <2>3. TypeOK'
    BY <1>0, <2>1, <2>2, Apart DEF TypeOK, Rollback
  <2>4. TxStep'
    BY <1>0, <2>2 DEF TxStep, RollbackStep, Rollback
  <2> QED
    BY <1>0, <1>3, <2>1, <2>2, <2>3, <2>4, TxDone DEF Rollback
<1> QED
  BY <1>1, <1>2, <1>3

LEMMA CrashStep ==
    ASSUME IInv, Crash
    PROVE  IInv'
<1>1. budget \in 0 .. MaxFaults /\ budget > 0
  BY DEF IInv, TypeOK, Crash
<1>2. budget' \in 0 .. MaxFaults
  BY <1>1, BoundsAssumption DEF Crash
<1> QED
  BY <1>2, DownStep DEF Crash

LEMMA CloseStep ==
    ASSUME IInv, Close
    PROVE  IInv'
<1>1. budget' \in 0 .. MaxFaults
  BY DEF IInv, TypeOK, Close
<1> QED
  BY <1>1, DownStep DEF Close

LEMMA MarkStep ==
    ASSUME IInv, NEW c \in Cell, Mark(c) \/ Unmark(c)
    PROVE  IInv'
<1>1. man.over \subseteq Stored /\ man = disk
  <2>1. Serving
    BY DEF Mark, Unmark, SetOver
  <2> QED
    BY <2>1, ServingFacts DEF Quiet
<1>2. PICK over \in SUBSET Stored : SetOver(over)
  BY <1>1 DEF Mark, Unmark
<1> QED
  BY <1>2, SetOverStep

LEMMA StutterStep ==
    ASSUME IInv, UNCHANGED vars
    PROVE  IInv'
<1> USE DEF vars, durable, call
<1>1. TypeOK'
  BY DEF IInv, TypeOK
<1>2. ASSUME disk.pend = NoTx PROVE Quiet' /\ QuietStep'
  <2>1. Quiet'
    BY <1>2, QuietFrame DEF IInv, files, derived
  <2> QED
    BY <1>2, <2>1 DEF IInv, QuietStep, AtPlan, AtJournal, Gone, OldRestored, BuildOK, OldCells,
                      WellFormed, Sealed, CellsIn, Disjoint, Prunable
<1>3. ASSUME disk.pend # NoTx PROVE Open1(disk.pend)' /\ TxStep'
  <2>1. Open1(disk.pend)' /\ OldCells(disk.pend)' = OldCells(disk.pend)
    BY <1>3, DerivedOpen
  <2> QED
    BY <1>3, <2>1 DEF IInv, TxStep, CompactStep, RecoverStep, ClosingStep, RollbackStep, AtWrite,
                      AtCatalog, BuildOK, Swapped, SwappedBack, Indexed, Lexed, OldMoved,
                      OldRestored, OldOnDisk, NewOnDisk, CellsIn, Disjoint
<1> QED
  BY <1>1, <1>2, <1>3 DEF IInv

-----------------------------------------------------------------------------
(* Every step, and the theorems.                                           *)

LEMMA NextIInv ==
    ASSUME NoKeptFaults, IInv, [Next]_vars
    PROVE  IInv'
<1>1. ASSUME NEW c \in Cell, Remember(c) \/ Mark(c) \/ Unmark(c) PROVE IInv'
  BY <1>1, RememberStep, MarkStep
<1>2. CASE Seal \/ Compact \/ Close \/ Crash \/ Open
  BY <1>2, SealStep, CompactCallStep, CloseStep, CrashStep, OpenStep
<1>3. CASE CompactSeal \/ CompactPlan \/ SaveManifest \/ WritePage \/ SaveCatalog
  BY <1>3, CompactSealStep, CompactPlanStep, SaveManifestStep, WritePageStep, SaveCatalogStep
<1>4. CASE RebuildIndex \/ RebuildLexical \/ MoveOldPage \/ Verify
  BY <1>4, RebuildIndexStep, RebuildLexicalStep, MoveOldPageStep, VerifyStep
<1>5. CASE DeleteBackup
  BY <1>5, CallOfStep, DeleteBackupStep DEF DeleteBackup
<1>6. CASE PruneMarkers
  BY <1>6, CallOfStep, PruneMarkersStep DEF PruneMarkers
<1>7. CASE RemoveArchives
  BY <1>7, CallOfStep, RemoveArchivesStep DEF RemoveArchives
<1>8. CASE RestoreBackup \/ RemoveNewPage \/ FinishRollback
  BY <1>8, RestoreBackupStep, RemoveNewPageStep, FinishRollbackStep
<1>9. CASE CleanBackups
  BY <1>9, CallOfStep, CleanBackupsStep DEF CleanBackups
<1>10. CASE StepFails
  BY <1>10, StepFailsStep
<1>11. CASE UNCHANGED vars
  BY <1>11, StutterStep
<1> QED
  BY <1>1, <1>2, <1>3, <1>4, <1>5, <1>6, <1>7, <1>8, <1>9, <1>10, <1>11 DEF Next, EngineStep

\* IInv is an invariant of every instance in which no fault leaves the caller
\* an engine with an open transaction: compact's journal save and the steps
\* of the rollback inside compact do not report errors (crashes there may).
THEOREM Invariance ==
    ASSUME NoKeptFaults
    PROVE  Spec => []IInv
<1>1. Init => IInv
  BY InitIInv
<1>2. IInv /\ [Next]_vars => IInv'
  BY NextIInv
<1> QED
  BY <1>1, <1>2, PTL DEF Spec

\* Every variable keeps its type.
THEOREM TypeCorrect ==
    ASSUME NoKeptFaults
    PROVE  Spec => []TypeOK
<1>1. IInv => TypeOK
  BY DEF IInv
<1> QED
  BY <1>1, Invariance, PTL

\* A store that serves calls passes its own deep validation, whatever crashes
\* and errors compactions and their recoveries met before (validate_deep).
THEOREM ServingStoreIsValid ==
    ASSUME NoKeptFaults
    PROVE  Spec => []ServingIsValid
<1>1. ASSUME IInv, Serving PROVE Valid
  <2>1. Quiet /\ man = disk /\ catalog \subseteq PageId
    BY <1>1, ServingFacts DEF IInv, TypeOK
  <2> QED
    BY <2>1 DEF Valid, Quiet, Disjoint
<1>2. IInv => ServingIsValid
  BY <1>1 DEF ServingIsValid
<1> QED
  BY <1>2, Invariance, PTL

\* The whole old memory stays on disk until the manifest closes the
\* transaction, in old pages or in their backups.
THEOREM OldPagesStay ==
    ASSUME NoKeptFaults
    PROVE  Spec => []OldPagesKept
<1>1. IInv => OldPagesKept
  BY DEF IInv, OldPagesKept, Open1
<1> QED
  BY <1>1, Invariance, PTL

\* The marker dictionary covers every stored cell, also while a transaction
\* is open and after the markers of pruned cells are dropped.
THEOREM MarkersStayCovered ==
    ASSUME NoKeptFaults
    PROVE  Spec => []MarkersCovered
<1>1. ASSUME IInv PROVE MarkersCovered
  <2>1. CASE disk.pend = NoTx
    BY <1>1, <2>1 DEF IInv, Quiet, MarkersCovered
  <2>2. CASE disk.pend # NoTx
    <3> DEFINE t == disk.pend
    <3>1. Open1(t) /\ hot = {} /\ OldCells(t) \subseteq markers
      BY <1>1, <2>2 DEF IInv, Open1
    <3>2. CASE catalog = t.old
      BY <3>1, <3>2 DEF MarkersCovered, Stored, Sealed, OldCells
    <3>3. CASE CellsIn(page, catalog) = OldCells(t) \ t.pruned
      BY <3>1, <3>3 DEF MarkersCovered, Stored, Sealed
    <3> QED
      BY <3>1, <3>2, <3>3 DEF Open1
  <2> QED
    BY <2>1, <2>2
<1>2. IInv => MarkersCovered
  BY <1>1
<1> QED
  BY <1>2, Invariance, PTL

\* A compact that returns Ok leaves none of the payloads it pruned: not in a
\* page, not hot, not in an archive, not in a backup of the pages it replaced.
THEOREM PrunedAreGone ==
    ASSUME NoKeptFaults
    PROVE  Spec => OkMeansPruned
<1> DEFINE A == step = "archives" /\ RemoveArchives /\ tx # NoTx =>
                    tx.pruned \cap (hot' \cup archives' \cup CellsIn(page', PageId)
                                         \cup CellsIn(backup', tx.old)) = {}
<1>1. ASSUME IInv, [Next]_vars PROVE [A]_vars
  <2> SUFFICES ASSUME step = "archives", RemoveArchives, tx # NoTx
               PROVE  tx.pruned \cap (hot' \cup archives' \cup CellsIn(page', PageId)
                                         \cup CellsIn(backup', tx.old)) = {}
    OBVIOUS
  <2>1. job = "compact"
    BY <1>1, CallOfStep
  <2>2. Quiet /\ Gone /\ OldRestored(tx)
    BY <1>1, <2>1, QuietSteps DEF QuietStep
  <2>3. hot' = {} /\ archives' = {} /\ page' = page /\ backup' = backup
    BY <2>2 DEF RemoveArchives, files, Gone
  <2>4. CellsIn(page, PageId) = Sealed
    <3>1. \A p \in PageId : page[p] # {} => p \in catalog
      BY <2>2 DEF Quiet
    <3>2. catalog \subseteq PageId
      BY <1>1 DEF IInv, TypeOK
    <3>3. \A c : c \in CellsIn(page, PageId) <=> c \in CellsIn(page, catalog)
      BY <3>1, <3>2, InCells
    <3> QED
      BY <3>3 DEF Sealed
  <2>5. CellsIn(backup, tx.old) = {}
    BY <2>2, InCells DEF OldRestored
  <2> QED
    BY <2>2, <2>3, <2>4, <2>5 DEF Gone
<1>2. IInv /\ [Next]_vars => [A]_vars
  BY <1>1
<1> QED
  BY <1>2, Invariance, PTL DEF Spec, OkMeansPruned

-----------------------------------------------------------------------------
(* Compaction implements Retention.                                        *)

\* The client's memory starts empty.
LEMMA AbsInit == Init => Abs!Init
<1> SUFFICES ASSUME Init PROVE RetainedCells = {} /\ RetainedOver = {}
  BY DEF Abs!Init
<1>1. disk.pend = NoTx /\ disk.over = {} /\ hot = {}
  BY DEF Init
<1>2. Sealed = {}
  BY InCells DEF Init, Sealed
<1> QED
  BY <1>1, <1>2 DEF RetainedCells, RetainedOver

\* A step that leaves the pages, the catalog, the hot cells and the manifest
\* on disk as they are leaves the client's memory as it is.
LEMMA FilesSame ==
    ASSUME UNCHANGED <<page, backup, catalog, hot, disk>>
    PROVE  SameMemory
BY DEF SameMemory, RetainedCells, RetainedOver, Sealed, CellsIn

\* Backups do not count when no transaction is open.
LEMMA BackupsDoNotCount ==
    ASSUME disk.pend = NoTx, UNCHANGED <<page, catalog, hot, disk>>
    PROVE  SameMemory
<1>1. Sealed' = Sealed
  BY DEF Sealed, CellsIn
<1> QED
  BY <1>1, StoredIsRetained

\* The calls of the client, as the abstract actions.
LEMMA ClientStep ==
    ASSUME IInv, NEW c \in Cell, Remember(c) \/ Mark(c) \/ Unmark(c)
    PROVE  Abs!Remember(c) \/ Abs!Mark(c) \/ Abs!Unmark(c)
<1>1. Serving
  BY DEF Remember, Mark, Unmark, SetOver
<1>2. disk.pend = NoTx /\ man = disk
  BY <1>1, ServingFacts
<1>3. UNCHANGED <<page, catalog>> /\ disk'.pend = NoTx
  BY <1>2 DEF Remember, Mark, Unmark, SetOver, files, IInv, TypeOK, Manifest
<1>4. Sealed' = Sealed
  BY <1>3 DEF Sealed, CellsIn
<1>5. /\ RetainedCells = hot \cup Sealed /\ RetainedOver = disk.over
      /\ RetainedCells' = hot' \cup Sealed /\ RetainedOver' = disk'.over
  BY <1>2, <1>3, <1>4 DEF RetainedCells, RetainedOver
<1>6. CASE Remember(c)
  BY <1>2, <1>5, <1>6 DEF Remember, Abs!Remember
<1>7. CASE Mark(c)
  <2>1. disk'.over = disk.over \cup {c} /\ hot' = hot
    BY <1>2, <1>7 DEF Mark, SetOver, side, IInv, TypeOK, Manifest
  <2> QED
    BY <1>5, <1>7, <2>1 DEF Mark, Stored, Abs!Mark
<1>8. CASE Unmark(c)
  <2>1. disk'.over = disk.over \ {c} /\ hot' = hot
    BY <1>2, <1>8 DEF Unmark, SetOver, side, IInv, TypeOK, Manifest
  <2> QED
    BY <1>5, <1>8, <2>1 DEF Unmark, Stored, Abs!Unmark
<1> QED
  BY <1>6, <1>7, <1>8

\* The manifest save that closes the transaction is the abstract compaction.
LEMMA CommitIsCompact ==
    ASSUME IInv, SaveManifest, step = "commit"
    PROVE  Abs!Compact
<1>1. disk.pend # NoTx /\ tx = disk.pend /\ Open1(disk.pend)
  BY TxSteps, TxFacts
<1>2. /\ RetainedCells = OldCells(tx) /\ RetainedOver = tx.oldOver
      /\ tx.pruned = (tx.oldOver \cap OldCells(tx)) \ Untyped
  BY <1>1 DEF RetainedCells, RetainedOver, Open1, OldCells, Prunable
<1>3. RetainedCells' = OldCells(tx) \ tx.pruned /\ RetainedOver' = tx.oldOver \ tx.pruned
  <2>1. /\ Sealed' = OldCells(tx) \ tx.pruned /\ hot' = {} /\ disk'.pend = NoTx
        /\ disk'.over = tx.oldOver \ tx.pruned
    BY CommitStep
  <2> QED
    BY <2>1 DEF RetainedCells, RetainedOver
<1> QED
  BY <1>2, <1>3 DEF Abs!Compact, Abs!Obsolete

\* The end of a rollback is no step of the client's memory.
LEMMA RollbackIsInvisible ==
    ASSUME IInv, FinishRollback
    PROVE  SameMemory
<1>1. disk.pend # NoTx /\ tx = disk.pend /\ Open1(disk.pend)
  BY TxSteps, TxFacts DEF FinishRollback
<1>2. RetainedCells = OldCells(tx) /\ RetainedOver = tx.oldOver
  BY <1>1 DEF RetainedCells, RetainedOver, Open1, OldCells
<1>3. /\ Sealed' = OldCells(tx) /\ hot' = {} /\ disk'.pend = NoTx
      /\ disk'.over = tx.oldOver
  BY FinishRollbackStep
<1> QED
  BY <1>2, <1>3 DEF RetainedCells, RetainedOver, SameMemory

\* Every step of the engine is a step of Retention, or none.
LEMMA AbsNext ==
    ASSUME IInv, [Next]_vars
    PROVE  Abs!Next \/ SameMemory
<1>1. ASSUME NEW c \in Cell, Remember(c) \/ Mark(c) \/ Unmark(c) PROVE Abs!Next
  BY <1>1, ClientStep DEF Abs!Next
<1>2. CASE Seal \/ CompactSeal
  BY <1>2, SealStep, CompactSealStep
<1>3. CASE Compact \/ Close \/ Crash \/ Open \/ CompactPlan \/ Verify \/ StepFails
  BY <1>3, FilesSame DEF Compact, Close, Crash, Open, CompactPlan, Verify, StepFails, durable
<1>4. CASE SaveManifest
  <2>1. CASE step = "journal"
    BY <1>4, <2>1, JournalStep
  <2>2. CASE step = "manifest"
    BY <1>4, <2>2, ApplyManifestStep
  <2>3. CASE step = "commit"
    BY <1>4, <2>3, CommitIsCompact DEF Abs!Next
  <2> QED
    BY <1>4, <2>1, <2>2, <2>3 DEF SaveManifest
<1>5. CASE WritePage \/ SaveCatalog \/ RebuildIndex \/ RebuildLexical \/ MoveOldPage
  BY <1>5, WritePageStep, SaveCatalogStep, RebuildIndexStep, RebuildLexicalStep, MoveOldPageStep
<1>6. CASE DeleteBackup \/ CleanBackups
  <2>1. disk.pend = NoTx
    BY <1>6, CallOfStep, QuietSteps DEF DeleteBackup, CleanBackups
  <2>2. UNCHANGED <<page, catalog, hot, disk>>
    BY <1>6 DEF DeleteBackup, CleanBackups, side
  <2> QED
    BY <2>1, <2>2, BackupsDoNotCount
<1>7. CASE PruneMarkers \/ RemoveArchives
  BY <1>7, FilesSame DEF PruneMarkers, RemoveArchives, files
<1>8. CASE RestoreBackup \/ RemoveNewPage
  BY <1>8, RestoreBackupStep, RemoveNewPageStep
<1>9. CASE FinishRollback
  BY <1>9, RollbackIsInvisible
<1>10. CASE UNCHANGED vars
  BY <1>10, FilesSame DEF vars, durable
<1> QED
  BY <1>1, <1>2, <1>3, <1>4, <1>5, <1>6, <1>7, <1>8, <1>9, <1>10 DEF Next, EngineStep

\* Compaction is atomic: under every crash and error the invariant allows,
\* what the client stored and marked changes as module Retention says.
THEOREM Atomicity ==
    ASSUME NoKeptFaults
    PROVE  Spec => CompactionIsAtomic
<1>1. Init => Abs!Init
  BY AbsInit
<1>2. IInv /\ [Next]_vars => [Abs!Next]_<<RetainedCells, RetainedOver>>
  BY AbsNext DEF SameMemory
<1> QED
  BY <1>1, <1>2, Invariance, PTL DEF Spec, CompactionIsAtomic, Abs!Spec
=============================================================================
