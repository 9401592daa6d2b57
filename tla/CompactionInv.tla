--------------------------- MODULE CompactionInv ----------------------------
(***************************************************************************)
(* The inductive invariant of module Compaction: what every state reachable *)
(* under NoKeptFaults has in common, written as facts about the files,     *)
(* facts about an open transaction, and facts about the running call.      *)
(***************************************************************************)
EXTENDS Compaction

\* The two faults after which a caller keeps an engine whose manifest holds
\* an open transaction are left out: the transaction's own first save, and
\* the rollback inside a failed compact.
NoKeptFaults == \A f \in Faults : f[1] # "undo" /\ f # <<"compact", "journal">>

-----------------------------------------------------------------------------

OldCells(t) == CellsIn(page, t.old) \cup CellsIn(backup, t.old)

Disjoint(dir, ids) == \A p, q \in ids : p # q => dir[p] \cap dir[q] = {}

\* What a transaction says of itself.
WellFormed(t) ==
    /\ t \in Tx
    /\ t.old # {} /\ t.new = t.oldNext .. t.next - 1 /\ t.oldNext <= t.next
    /\ \A p \in t.old : p < t.oldNext

\* A build holds exactly the cells that stay, each once.
BuildOK(t) ==
    /\ build \in [t.new -> (SUBSET Cell) \ {{}}]
    /\ CellsIn(build, t.new) = OldCells(t) \ t.pruned
    /\ Disjoint(build, t.new)

\* With no transaction open the files are a valid store, but for backups of
\* pages that are gone.
Quiet ==
    /\ \A p \in PageId : page[p] # {} <=> p \in catalog
    /\ Disjoint(page, catalog)
    /\ hot \cap Sealed = {}
    /\ \A p \in catalog : p < disk.next
    /\ index = catalog /\ lexical = catalog
    /\ Stored \subseteq markers /\ Stored \subseteq issued
    /\ disk.over \subseteq Stored
    /\ \A p \in PageId : backup[p] # {} => p \notin catalog /\ p < disk.next

OldOnDisk(t) == disk.over = t.oldOver /\ disk.next = t.oldNext
NewOnDisk(t) == disk.over = t.oldOver \ t.pruned /\ disk.next = t.next

\* With a transaction open: each old page is in one of its two places, and
\* whichever catalog is active has all its pages.
Open1(t) ==
    /\ WellFormed(t)
    /\ hot = {}
    /\ \A p \in t.old : page[p] = {} <=> backup[p] # {}
    /\ \A p, q \in t.old : p # q => (page[p] \cup backup[p]) \cap (page[q] \cup backup[q]) = {}
    /\ t.pruned = Prunable(t.oldOver, OldCells(t))
    /\ t.oldOver \subseteq OldCells(t)
    /\ OldCells(t) \subseteq markers /\ OldCells(t) \subseteq issued
    /\ \A p \in PageId : page[p] # {} => p \in t.old \cup t.new
    /\ \A p \in PageId : backup[p] # {} => p < t.oldNext
    /\ OldOnDisk(t) \/ NewOnDisk(t)
    /\ \/ catalog = t.old /\ \A p \in t.old : backup[p] = {}
       \/ /\ catalog = t.new
          /\ \A p \in t.new : page[p] # {}
          /\ CellsIn(page, t.new) = OldCells(t) \ t.pruned
          /\ Disjoint(page, t.new)

OldMoved(t)    == \A p \in t.old : page[p] = {}
OldRestored(t) == \A p \in t.old : backup[p] = {}

-----------------------------------------------------------------------------
(* Where the running call is.                                              *)

\* Steps with no transaction on disk.
AtPlan == hot = {} /\ tx = NoTx

AtJournal ==
    /\ hot = {}
    /\ WellFormed(tx) /\ BuildOK(tx)
    /\ tx.old = catalog /\ tx.oldOver = disk.over /\ tx.oldNext = disk.next
    /\ tx.pruned = Prunable(disk.over, Sealed)
    /\ \A p \in catalog : backup[p] = {}

\* After the commit: the pruned cells are in no page and not hot.
Gone ==
    /\ hot = {}
    /\ tx # NoTx => tx \in Tx /\ tx.pruned \cap Sealed = {}

QuietStep ==
    \/ job = "none" /\ tx = NoTx
    \/ job = "compact" /\ step = "seal" /\ tx = NoTx
    \/ job = "compact" /\ step = "plan" /\ AtPlan
    \/ job = "compact" /\ step = "journal" /\ AtJournal
    \/ job = "compact" /\ step = "delete" /\ Gone /\ tx # NoTx
    \/ job = "compact" /\ step \in {"markers", "archives"} /\ Gone /\ (tx # NoTx => OldRestored(tx))
    \/ job = "recover" /\ step = "clean"
    \/ job = "recover" /\ step = "delete" /\ tx \in Tx

\* Steps of a compact inside its transaction.
AtWrite ==
    /\ catalog = tx.old /\ OldOnDisk(tx) /\ BuildOK(tx)
    /\ \A p \in tx.new : page[p] \in {{}, build[p]}

AtCatalog ==
    /\ catalog = tx.old /\ OldOnDisk(tx) /\ BuildOK(tx)
    /\ \A p \in tx.new : page[p] = build[p]

Swapped   == catalog = tx.new
Indexed   == index = catalog
Lexed     == Indexed /\ lexical = catalog

CompactStep ==
    \/ step = "write" /\ AtWrite
    \/ step = "catalog" /\ AtCatalog
    \/ step = "index" /\ Swapped /\ OldOnDisk(tx)
    \/ step = "lexical" /\ Swapped /\ OldOnDisk(tx) /\ Indexed
    \/ step = "manifest" /\ Swapped /\ OldOnDisk(tx) /\ Lexed
    \/ step = "move" /\ Swapped /\ NewOnDisk(tx) /\ Lexed

RecoverStep ==
    \/ step = "move" /\ Swapped
    \/ step = "index" /\ Swapped /\ OldMoved(tx)
    \/ step = "lexical" /\ Swapped /\ OldMoved(tx) /\ Indexed
    \/ step = "manifest" /\ Swapped /\ OldMoved(tx) /\ Lexed

\* Both end in the same two steps.
ClosingStep ==
    step \in {"verify", "commit"} /\ Swapped /\ OldMoved(tx) /\ Lexed /\ NewOnDisk(tx)

SwappedBack == catalog = tx.old /\ man.over = tx.oldOver /\ man.next = tx.oldNext

RollbackStep ==
    \/ step = "restore"
    \/ step = "catalog" /\ OldRestored(tx)
    \/ step = "index" /\ SwappedBack
    \/ step = "lexical" /\ SwappedBack /\ Indexed
    \/ step = "remove" /\ SwappedBack /\ Lexed
    \/ step = "finish" /\ SwappedBack /\ Lexed /\ \A p \in tx.new : page[p] = {}

TxStep ==
    \/ job = "none" /\ ~up /\ tx = NoTx
    \/ job = "compact" /\ tx = disk.pend /\ (CompactStep \/ ClosingStep)
    \/ job = "recover" /\ tx = disk.pend /\ (RecoverStep \/ ClosingStep)
    \/ job \in Rollback /\ tx = disk.pend /\ RollbackStep

\* The inductive invariant: with no transaction on disk the files are a valid
\* store, with one its old and new pages account for all of its memory, and
\* the running call (compact, its rollback, the recovery at open) knows how
\* far it has come.
IInv ==
    /\ TypeOK
    /\ job # "none" => up
    /\ job = "none" => step = "none"
    /\ job \notin Rollback => man = disk
    /\ disk.pend = NoTx => Quiet /\ QuietStep
    /\ disk.pend # NoTx => Open1(disk.pend) /\ TxStep
=============================================================================
