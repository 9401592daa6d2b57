----------------------------- MODULE Compaction -----------------------------
(***************************************************************************)
(* The physical compaction of a store: MemoryEngine::compact, the manifest *)
(* transaction of execute_compaction, rollback_compaction, and what the    *)
(* next writable open does with a transaction it finds (crates/mge-core/   *)
(* src/store.rs).                                                          *)
(*                                                                         *)
(* Every durable write is a step of its own, so that the process can crash *)
(* between any two of them and any of them can report an I/O error.  A     *)
(* full-file write replaces the file atomically (binary.rs), so a failed   *)
(* or interrupted one leaves the old content.  Memory is a set of cells;   *)
(* a page file is the set of cells in it, {} when the file is absent       *)
(* (build_pages_with_kind makes no empty page).                            *)
(***************************************************************************)
EXTENDS Pages

CONSTANTS
    Cell,       \* the cells that can ever be remembered
    Untyped,    \* cells whose only override is an untyped `superseded` (never pruned)
    MaxPage,    \* bound: page ids are 1 .. MaxPage
    NoTx,       \* no compaction transaction (Option::None)
    Faults,     \* the <<job, step>> pairs whose I/O may report an error
    MaxFaults   \* bound: crashes and I/O errors in one behaviour

PageId == 1 .. MaxPage

\* CompactionTransaction, as far as recovery reads it.  The page files it
\* names are identified with their page ids (page_file_name is injective).
Tx == [old : SUBSET PageId, new : SUBSET PageId,
       oldNext : 1 .. MaxPage + 1, oldOver : SUBSET Cell,
       pruned : SUBSET Cell, next : 1 .. MaxPage + 1]

\* The part of the Manifest a compaction reads or writes: next_page_id, the
\* keys of status_overrides and superseded_by, pending_compaction.
Manifest == [next : 1 .. MaxPage + 1, over : SUBSET Cell, pend : Tx \cup {NoTx}]

ASSUME BoundsAssumption == MaxPage \in Nat /\ MaxFaults \in Nat
ASSUME CellAssumption   == Untyped \subseteq Cell
ASSUME NoTxAssumption   == NoTx \notin Tx

VARIABLES
    page,       \* pages/page_<id>.mgp: the cells in each page file
    backup,     \* pages/page_<id>.mgp.compact-backup
    catalog,    \* indexes/page_index.mgi: the page ids it lists
    index,      \* the candidate index: the page ids it was built from
    lexical,    \* the lexical statistics: the page ids they were built from
    disk,       \* manifest.mgm
    hot,        \* the hot cells (hot log and L1 RAM, which agree here)
    archives,   \* the cells held by completed hot-log archives
    markers,    \* the cells whose markers the marker dictionary holds
    issued,     \* the cells already remembered: next_cell_id never goes back
    up,         \* a writable engine is open and owns the store lock
    man,        \* the engine's manifest in memory
    job,        \* what the engine is doing
    step,       \* the durable step it is about to take
    tx,         \* the transaction the running call works on
    build,      \* the pages the running call has built, by page id
    budget      \* crashes and I/O errors still possible

durable == <<page, backup, catalog, index, lexical, disk, hot, archives, markers, issued>>
files   == <<page, backup>>
derived == <<index, lexical>>
side    == <<hot, archives, markers, issued>>
call    == <<job, step, tx, build>>
vars    == <<durable, up, man, call, budget>>

-----------------------------------------------------------------------------
(* What is stored.                                                         *)

\* load_all_pages on the current catalog.
Sealed == CellsIn(page, catalog)

Stored == hot \cup Sealed

\* validate_deep, for what this module keeps: nothing missing, duplicated or
\* orphaned, derived data built from the catalog, overrides of known cells.
Valid ==
    /\ \A p \in catalog : page[p] # {}
    /\ \A p, q \in catalog : p # q => page[p] \cap page[q] = {}
    /\ hot \cap Sealed = {}
    /\ \A p \in PageId : page[p] # {} => p \in catalog
    /\ \A p \in catalog : p < man.next
    /\ index = catalog
    /\ lexical = catalog
    /\ Stored \subseteq markers
    /\ man.over \subseteq Stored

\* load_all_pages succeeds.
PagesReadable == \A p \in catalog : page[p] # {}

\* A mutant of Prunable: a typed successor is not asked for.
Prunable_Untyped(over, stored) == over \cap stored

\* build_compaction_plan: the cells with an effective obsolete status, but
\* for those superseded without a known replacement.
Prunable(over, stored) == (over \cap stored) \ Untyped

\* The catalog lists exactly the transaction's new files.
Committed(t) == t.new \subseteq catalog /\ Cardinality(catalog) = Cardinality(t.new)

-----------------------------------------------------------------------------
(* Initial state: a store just initialised, open.                          *)

Init ==
    /\ page = [p \in PageId |-> {}] /\ backup = [p \in PageId |-> {}]
    /\ catalog = {} /\ index = {} /\ lexical = {}
    /\ disk = [next |-> 1, over |-> {}, pend |-> NoTx]
    /\ hot = {} /\ archives = {} /\ markers = {} /\ issued = {}
    /\ up = TRUE
    /\ man = disk
    /\ job = "none" /\ step = "none" /\ tx = NoTx /\ build = NoPages
    /\ budget = MaxFaults

Serving == up /\ job = "none"

\* A call returns to the caller, which still holds the engine.
Return == job' = "none" /\ step' = "none" /\ tx' = NoTx /\ build' = NoPages

\* The engine is gone: the process died, or open returned an error.
Down == up' = FALSE /\ man' = disk' /\ Return

GoTo(s) == step' = s /\ UNCHANGED <<job, tx, build>>

-----------------------------------------------------------------------------
(* The other operations of an open engine, each one whole call.  Hot cells *)
(* are flushed at once, as under `safe` durability; a flush saves the      *)
(* manifest and the dictionary before it appends (flush_pending_hot).      *)

Remember(c) ==
    /\ Serving /\ c \notin issued
    /\ hot' = hot \cup {c} /\ issued' = issued \cup {c} /\ markers' = markers \cup {c}
    /\ disk' = man
    /\ UNCHANGED <<files, catalog, derived, archives, up, man, call, budget>>

\* set_status_override saves the manifest the engine holds, at once.
SetOver(over) ==
    /\ Serving
    /\ man' = [man EXCEPT !.over = over] /\ disk' = man'
    /\ UNCHANGED <<files, catalog, derived, side, up, call, budget>>

Mark(c) == c \in Stored \ man.over /\ SetOver(man.over \cup {c})

Unmark(c) == c \in Stored \cap man.over /\ SetOver(man.over \ {c})

\* seal() with the hot cells built into pages `b`.  It refuses to overwrite a
\* page file; its rollback then rebuilds the derived files and saves the
\* manifest.  (Its own crashes and I/O errors are in module SealedStore.)
SealRefused(b) == (\E p \in DOMAIN b : page[p] # {}) \/ ~PagesReadable

SealInto(b) ==
    IF SealRefused(b)
    THEN /\ index' = catalog /\ lexical' = catalog /\ disk' = man
         /\ UNCHANGED <<page, catalog, hot, archives, man>>
    ELSE /\ page' = [p \in PageId |-> IF p \in DOMAIN b THEN b[p] ELSE page[p]]
         /\ catalog' = catalog \cup DOMAIN b
         /\ index' = catalog' /\ lexical' = catalog'
         /\ man' = [man EXCEPT !.next = NextAfter(b, man.next)] /\ disk' = man'
         /\ archives' = archives \cup hot
         /\ hot' = {}

Seal ==
    /\ Serving /\ hot # {}
    /\ \E b \in Builds(hot, man.next, MaxPage) : SealInto(b)
    /\ UNCHANGED <<backup, markers, issued, up, call, budget>>

-----------------------------------------------------------------------------
(* compact(apply): seal, validate, plan, then the transaction.             *)

Compact ==
    /\ Serving /\ man.pend = NoTx
    /\ man.next < MaxPage                       \* bound: a page for each build
    /\ job' = "compact" /\ step' = "seal"
    /\ UNCHANGED <<durable, up, man, tx, build, budget>>

CompactSeal ==
    /\ job = "compact" /\ step = "seal"
    /\ IF hot = {}
       THEN GoTo("plan") /\ UNCHANGED <<page, catalog, derived, disk, man, hot, archives>>
       ELSE \E b \in Builds(hot, man.next, MaxPage - 1) :
                SealInto(b) /\ IF SealRefused(b) THEN Return ELSE GoTo("plan")
    /\ UNCHANGED <<backup, markers, issued, up, budget>>

\* An invalid store is refused; a plan that prunes nothing skips the
\* transaction; files in the way of new pages or backups are refused.
CompactPlan ==
    /\ job = "compact" /\ step = "plan"
    /\ UNCHANGED <<durable, up, man, budget>>
    /\ LET pruned == Prunable(man.over, Stored)
       IN IF ~Valid THEN Return
          ELSE IF pruned = {} THEN GoTo("markers")
          ELSE \E b \in Builds(Sealed \ pruned, man.next, MaxPage) :
              IF \/ \E p \in DOMAIN b : page[p] # {}
                 \/ \E p \in catalog : backup[p] # {}
              THEN Return
              ELSE /\ tx' = [old |-> catalog, new |-> DOMAIN b,
                             oldNext |-> man.next, oldOver |-> man.over,
                             pruned |-> pruned, next |-> NextAfter(b, man.next)]
                   /\ build' = b /\ step' = "journal" /\ UNCHANGED job

\* The manifest in memory at the moment of a step's durable write:
\* pending_compaction set, apply_compaction_manifest, pending_compaction
\* cleared, and rollback_compaction's reset.
Rollback == {"undo", "restore", "abandon"}

\* A mutant of ManAtStep: the rollback does not clear pending_compaction.
ManAtStep_KeepsPending ==
    CASE step = "journal"                     -> [man EXCEPT !.pend = tx]
      [] step = "manifest"                    -> [man EXCEPT !.over = @ \ tx.pruned, !.next = tx.next]
      [] step = "commit"                      -> [man EXCEPT !.pend = NoTx]
      [] step = "catalog" /\ job \in Rollback -> [man EXCEPT !.over = tx.oldOver, !.next = tx.oldNext]
      [] OTHER                                -> man

ManAtStep ==
    CASE step = "journal"                     -> [man EXCEPT !.pend = tx]
      [] step = "manifest"                    -> [man EXCEPT !.over = @ \ tx.pruned, !.next = tx.next]
      [] step \in {"commit", "finish"}        -> [man EXCEPT !.pend = NoTx]
      [] step = "catalog" /\ job \in Rollback -> [man EXCEPT !.over = tx.oldOver, !.next = tx.oldNext]
      [] OTHER                                -> man

\* The steps that end in save_manifest.
SaveManifest ==
    /\ step \in {"journal", "manifest", "commit"}
    /\ man' = ManAtStep /\ disk' = ManAtStep
    /\ GoTo(CASE step = "journal"                       -> "write"
              [] step = "manifest" /\ job = "compact"   -> "move"
              [] step = "manifest" /\ job = "recover"   -> "verify"
              [] step = "commit"                        -> "delete")
    /\ UNCHANGED <<files, catalog, derived, side, up, budget>>

\* write_page for one new page (the loop's order is left open, here and below).
WritePage ==
    /\ step = "write"
    /\ \/ \E p \in tx.new : /\ page[p] = {}
                            /\ page' = [page EXCEPT ![p] = build[p]]
                            /\ UNCHANGED call
       \/ (\A p \in tx.new : page[p] # {}) /\ GoTo("catalog") /\ UNCHANGED page
    /\ UNCHANGED <<backup, catalog, derived, disk, side, up, man, budget>>

\* save_page_catalog: the new catalog, or rollback's original one.
SaveCatalog ==
    /\ step = "catalog"
    /\ catalog' = IF job \in Rollback THEN tx.old ELSE tx.new
    /\ man' = ManAtStep
    /\ GoTo("index")
    /\ UNCHANGED <<files, derived, disk, side, up, budget>>

\* rebuild_candidate_indexes_for_pages, then rebuild_lexical_stats_for_pages:
\* from the built pages, or (recovery, rollback) from load_all_pages.
RebuildIndex ==
    /\ step = "index" /\ (job = "compact" \/ PagesReadable)
    /\ index' = catalog
    /\ GoTo("lexical")
    /\ UNCHANGED <<files, catalog, lexical, disk, side, up, man, budget>>

RebuildLexical ==
    /\ step = "lexical"
    /\ lexical' = catalog
    /\ GoTo(IF job \in Rollback THEN "remove" ELSE "manifest")
    /\ UNCHANGED <<files, catalog, index, disk, side, up, man, budget>>

\* A mutant of MoveOldPage: it deletes instead of renaming.
MoveOldPage_Deletes ==
    /\ step = "move"
    /\ \/ \E p \in tx.old : /\ page[p] # {}
                            /\ page' = [page EXCEPT ![p] = {}]
                            /\ UNCHANGED <<backup, call>>
       \/ /\ \A p \in tx.old : page[p] = {}
          /\ GoTo(IF job = "compact" THEN "verify" ELSE "index")
          /\ UNCHANGED files
    /\ UNCHANGED <<catalog, derived, disk, side, up, man, budget>>

\* move_old_pages_to_compaction_backup: one rename, or the end of the loop.
MoveOldPage ==
    /\ step = "move"
    /\ \/ \E p \in tx.old : /\ backup[p] = {} /\ page[p] # {}
                            /\ backup' = [backup EXCEPT ![p] = page[p]]
                            /\ page' = [page EXCEPT ![p] = {}]
                            /\ UNCHANGED call
       \/ /\ \A p \in tx.old : backup[p] # {} \/ page[p] = {}
          /\ GoTo(IF job = "compact" THEN "verify" ELSE "index")
          /\ UNCHANGED files
    /\ UNCHANGED <<catalog, derived, disk, side, up, man, budget>>

\* validate_deep before the transaction is closed.
Verify ==
    /\ step = "verify" /\ Valid
    /\ GoTo("commit")
    /\ UNCHANGED <<durable, up, man, budget>>

\* delete_compaction_backups.
DeleteBackup ==
    /\ step = "delete"
    /\ \/ \E p \in tx.old : /\ backup[p] # {}
                            /\ backup' = [backup EXCEPT ![p] = {}]
                            /\ UNCHANGED call
       \/ /\ \A p \in tx.old : backup[p] = {}
          /\ GoTo(IF job = "compact" THEN "markers" ELSE "clean")
          /\ UNCHANGED backup
    /\ UNCHANGED <<page, catalog, derived, disk, side, up, man, budget>>

\* A mutant of PruneMarkers: only the hot cells' markers are kept.
PruneMarkers_HotOnly ==
    /\ step = "markers"
    /\ markers' = markers \cap hot
    /\ GoTo("archives")
    /\ UNCHANGED <<files, catalog, derived, disk, hot, archives, issued, up, man, budget>>

\* prune_unused_markers
PruneMarkers ==
    /\ step = "markers"
    /\ markers' = markers \cap Stored
    /\ GoTo("archives")
    /\ UNCHANGED <<files, catalog, derived, disk, hot, archives, issued, up, man, budget>>

\* A mutant of RemoveArchives: they stay.
RemoveArchives_Keeps ==
    /\ step = "archives"
    /\ Return
    /\ UNCHANGED <<durable, up, man, budget>>

\* remove_completed_hot_archives, and compact returns Ok.
RemoveArchives ==
    /\ step = "archives"
    /\ archives' = {}
    /\ Return
    /\ UNCHANGED <<files, catalog, derived, disk, hot, markers, issued, up, man, budget>>

-----------------------------------------------------------------------------
(* rollback_compaction, in its three places: inside a failed compact       *)
(* ("undo"), at open for an uncommitted transaction ("restore"), and at    *)
(* open after finishing a committed one failed ("abandon").                *)

BothExist == \E p \in tx.old : backup[p] # {} /\ page[p] # {}

RestoreBackup ==
    /\ step = "restore" /\ ~BothExist
    /\ \/ \E p \in tx.old : /\ backup[p] # {}
                            /\ page' = [page EXCEPT ![p] = backup[p]]
                            /\ backup' = [backup EXCEPT ![p] = {}]
                            /\ UNCHANGED call
       \/ (\A p \in tx.old : backup[p] = {}) /\ GoTo("catalog") /\ UNCHANGED files
    /\ UNCHANGED <<catalog, derived, disk, side, up, man, budget>>

\* A mutant of RemoveNewPage: the new pages stay behind.
RemoveNewPage_Forgets ==
    /\ step = "remove"
    /\ GoTo("finish")
    /\ UNCHANGED <<durable, up, man, budget>>

\* rollback_compaction removes the new page files there are.
RemoveNewPage ==
    /\ step = "remove"
    /\ \/ \E p \in tx.new : /\ page[p] # {}
                            /\ page' = [page EXCEPT ![p] = {}]
                            /\ UNCHANGED call
       \/ (\A p \in tx.new : page[p] = {}) /\ GoTo("finish") /\ UNCHANGED page
    /\ UNCHANGED <<backup, catalog, derived, disk, side, up, man, budget>>

\* The rollback's save_manifest.  compact and a failed recovery then return
\* an error; open goes on after restoring an uncommitted transaction.
FinishRollback ==
    /\ step = "finish"
    /\ disk' = ManAtStep
    /\ CASE job = "undo"    -> Return /\ man' = ManAtStep /\ UNCHANGED up
         [] job = "restore" -> /\ job' = "recover" /\ step' = "clean"
                               /\ man' = ManAtStep /\ UNCHANGED <<tx, build, up>>
         [] job = "abandon" -> Down
    /\ UNCHANGED <<files, catalog, derived, side, budget>>

-----------------------------------------------------------------------------
(* Errors, crashes and opening.                                            *)

\* What the step reads lets it succeed when its I/O does.
StepPossible ==
    CASE step = "index"   -> job = "compact" \/ PagesReadable
      [] step = "verify"  -> Valid
      [] step = "restore" -> ~BothExist
      [] OTHER            -> TRUE

Errs == ~StepPossible \/ (budget > 0 /\ <<job, step>> \in Faults)

StartRollback(j) ==
    /\ job' = j /\ step' = "restore" /\ build' = NoPages
    /\ man' = ManAtStep
    /\ UNCHANGED <<tx, up>>

InTransaction == step \in {"write", "catalog", "index", "lexical", "manifest",
                           "move", "verify", "commit"}

\* The step returns an error; nothing durable changed.
StepFails ==
    /\ job # "none" /\ Errs
    /\ budget' = IF StepPossible THEN budget - 1 ELSE budget
    /\ UNCHANGED durable
    /\ IF job = "compact" /\ InTransaction THEN StartRollback("undo")
       ELSE IF job = "recover" /\ InTransaction THEN StartRollback("abandon")
       ELSE IF job \in {"compact", "undo"} THEN Return /\ man' = ManAtStep /\ UNCHANGED up
       ELSE Down

\* The process dies, or the machine does; or the engine is dropped between
\* two calls, which has nothing to flush here.
Crash ==
    /\ up /\ budget > 0 /\ budget' = budget - 1
    /\ UNCHANGED durable /\ Down

Close == Serving /\ UNCHANGED <<durable, budget>> /\ Down

\* A writable open: read the manifest, then reconcile_pending_compaction.
Open ==
    /\ ~up /\ up' = TRUE
    /\ man' = disk /\ tx' = disk.pend
    /\ CASE disk.pend = NoTx -> job' = "recover" /\ step' = "clean"
         [] disk.pend # NoTx /\ Committed(disk.pend) -> job' = "recover" /\ step' = "move"
         [] OTHER -> job' = "restore" /\ step' = "restore"
    /\ UNCHANGED <<durable, build, budget>>

\* cleanup_stale_compaction_backups, then open returns the engine.
CleanBackups ==
    /\ step = "clean"
    /\ \/ \E p \in PageId : /\ backup[p] # {}
                            /\ backup' = [backup EXCEPT ![p] = {}]
                            /\ UNCHANGED call
       \/ (\A p \in PageId : backup[p] = {}) /\ Return /\ UNCHANGED backup
    /\ UNCHANGED <<page, catalog, derived, disk, side, up, man, budget>>

-----------------------------------------------------------------------------

\* The running call's next durable step.
EngineStep ==
    \/ CompactSeal \/ CompactPlan \/ SaveManifest \/ WritePage \/ SaveCatalog
    \/ RebuildIndex \/ RebuildLexical \/ MoveOldPage \/ Verify \/ DeleteBackup
    \/ PruneMarkers \/ RemoveArchives
    \/ RestoreBackup \/ RemoveNewPage \/ FinishRollback \/ CleanBackups
    \/ StepFails

Next ==
    \/ \E c \in Cell : Remember(c) \/ Mark(c) \/ Unmark(c)
    \/ Seal \/ Compact \/ Close \/ Crash \/ Open
    \/ EngineStep

Spec == Init /\ [][Next]_vars

\* A call that runs goes on, and a store that is closed is opened again.
FairSpec == Spec /\ WF_vars(EngineStep) /\ WF_vars(Open)

-----------------------------------------------------------------------------
(* Properties.                                                             *)

TypeOK ==
    /\ page \in [PageId -> SUBSET Cell] /\ backup \in [PageId -> SUBSET Cell]
    /\ catalog \subseteq PageId /\ index \subseteq PageId /\ lexical \subseteq PageId
    /\ disk \in Manifest /\ man \in Manifest
    /\ hot \subseteq Cell /\ archives \subseteq Cell
    /\ markers \subseteq Cell /\ issued \subseteq Cell
    /\ up \in BOOLEAN
    /\ job \in {"none", "compact", "recover"} \cup Rollback
    /\ tx \in Tx \cup {NoTx}
    /\ budget \in 0 .. MaxFaults

\* Whatever was interrupted or failed before, a store that serves calls with
\* no transaction pending passes its own deep validation: no page is missing,
\* orphaned or duplicated, and no derived file is stale (validate_deep).
ServingIsValid == Serving /\ man.pend = NoTx => Valid

\* The files of an interrupted transaction always hold the whole of the old
\* memory, in place or as backups, until the manifest closes the transaction
\* ("old pages are temporary rollback files").
OldPagesKept ==
    disk.pend # NoTx =>
        \A p \in disk.pend.old : page[p] # {} \/ backup[p] # {}

\* When compact returns Ok, no durable file holds a payload it pruned: not a
\* page, a completed hot-log archive or a backup of the pages it replaced
\* (docs/SECURITY.md, Compaction And Deletion).  Backups that an earlier
\* compact failed to delete are another matter: they stay until the next
\* open, and may hold the same cells.  So is the hot snapshot, when the seal
\* before the compaction cannot remove it and ignores the error.
OkMeansPruned ==
    [][step = "archives" /\ RemoveArchives /\ tx # NoTx =>
        tx.pruned \cap (hot' \cup archives' \cup CellsIn(page', PageId)
                             \cup CellsIn(backup', tx.old)) = {}]_vars

\* The markers of every stored cell stay in the dictionary: pruning unused
\* markers never strands a cell that is kept.
MarkersCovered == Stored \subseteq markers

\* An interrupted compaction is always reconciled in the end, whatever the
\* crashes and errors met while reconciling it.
Reconciled == disk.pend # NoTx ~> Serving /\ disk.pend = NoTx

-----------------------------------------------------------------------------
(* What a client may rely on: module Retention, with the memory and the    *)
(* marks of an open transaction read from the transaction.                 *)

RetainedCells ==
    hot \cup IF disk.pend = NoTx THEN Sealed
             ELSE CellsIn(page, disk.pend.old) \cup CellsIn(backup, disk.pend.old)

RetainedOver == IF disk.pend = NoTx THEN disk.over ELSE disk.pend.oldOver

Abs == INSTANCE Retention WITH stored <- RetainedCells, over <- RetainedOver

\* Compaction is atomic: it removes exactly the obsolete cells and their
\* marks, in one indivisible step, or changes nothing.
CompactionIsAtomic == Abs!Spec

=============================================================================
