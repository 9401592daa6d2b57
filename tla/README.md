# A verification project for Memory Genome Engine

TLA+ specifications of the storage engine in `src/crates/mge-core` and of the
programs in `src/crates/mge-cli` that use it, the TLC configurations that check
them on small stores, and TLAPS proofs that hold for stores of every size.
Everything is translated from the Rust source; each definition's lines are in
`PROJECT.json` under `map`.

Run, in this directory:

    tlc -config Compaction.cfg MCCompaction.tla
    tlapm CompactionProofs.tla

and the same for the other `.cfg` files (section 3) and `*Proofs.tla` modules
(section 4).

## 1. The system

A store is a directory. One process at a time opens it for writing (a lock file
with the OS lock). Most hosts open an engine for one call and drop it: the CLI
and the terminal UI through `app_service.rs`, the MCP server in
`bin/mge-mcp-server.rs`. A library host may keep its engine open.

| Component | State it keeps | Operations | Correct when |
|---|---|---|---|
| Hot memory (`hot.rs`, `flush_pending_hot`) | RAM cells and their runtime index, a queue and a position in it, `hot.mgl`, `snapshot.mgs`, archives | remember, checkpoint, replay, archive_and_clear, drop | an acknowledged cell survives, ids are unique, no holes |
| Sealed store (`seal`, catalog, indexes) | page files, page catalog, two candidate indexes, lexical statistics, `next_page_id` | seal and its rollback, rebuild-indexes, index-kind and codec switch | pages, catalog and derived files agree; memory is neither lost nor doubled |
| Compaction (`compact`, `execute_compaction`) | `pending_compaction` in the manifest, page backups | plan, transaction, rollback, reconcile at open, cleanup | atomic, recoverable, and what it prunes is gone |
| Supersession (`supersede`) | `pending_supersessions`, `superseded_by`, status overrides | supersede, mark, reconcile at open | old and new version change places in one durable step |
| Compaction plan | none (pure) | `build_compaction_plan`, `resolve_compacted_link` | links of kept cells lead to the current versions |
| Page builder and clusterers (`pages.rs`) | none (pure) | group, split at limits | every cell in one page, limits kept |
| Candidate indexes and page pruning | `marker_index.mgi`, `binary_fuse_page.mgi`, status summaries | build, query with fall-backs, `should_prune_candidate_page` | never withholds a page recall needs |
| Recall and packets | caches only | recall in three modes, ranking, rank fusion, packets | filters applied to every result, the best cells first |
| Page cache | LRU map of decoded pages | insert, get, clear | bounded, never stale |
| Marker dictionary | id <-> marker maps | intern, retain, save | ids are stable and unique |
| Session and Markdown ingestion | none | chunk turns, cut sections at headings, remember each | every turn and every line in exactly one place |
| Store lock and opening | lock file, key in the manifest | acquire, create, open with or without passphrase | one writer; a busy store is reported; mode and key stay |
| Framing, encryption, compression | none | encode, decode, atomic replace | bytes round-trip; replace is atomic |
| CLI | none of its own | one engine per command | errors reported, engine dropped |
| Terminal UI (`tui/`) | screen and stack, confirmations, dashboard | key handlers | the screen says what is so |
| MCP server | handshake state, client lines | initialize, tools, notifications | answers in order, one per request, and true |
| Host setup (`host_integration.rs`) | settings of Codex, Claude Code and Cursor, backups | setup, dry run, replace, remove | reports are true; other servers of the host stay |
| SDKs, examples, benchmarks | | | not modelled |

How they interact: `remember` puts a cell into RAM and the queue; the
durability policy decides whether it flushes at once (`safe`), by events or
time (`balanced`), or at the next checkpoint, seal or drop (`fast`). A flush
saves manifest and dictionary and then appends. `seal` flushes, writes pages,
catalog, indexes, statistics and manifest, and then archives the log.
`supersede` wraps a remember between two manifest saves. `compact` seals and
then rewrites all pages in a manifest transaction. `open` takes the lock, checks
the passphrase, replays the log, cuts a torn tail, reconciles supersessions,
reconciles a compaction and removes stale backups, in this order. `recall` asks
the hot index and the candidate index, loads the pages that are not pruned
through the cache, filters, ranks and cuts. Every front end does the same per
call: open, one operation, drop.

What is hard: an engine is single-threaded behind its lock, so inside it the
interleavings that matter are crashes and I/O errors between durable writes,
recoveries that are interrupted or fail themselves, an engine that lives on
after a failed call, and files that outlast the state they describe (snapshots,
backups, indexes, summaries, caches). Between processes it is what is read
before the lock is taken and shown after it is dropped. `PROJECT.json` lists
each such hazard at its line.

## 2. Modules

| Module | Models | State and actions |
|---|---|---|
| `Pages` | page directories, what crash models need of `build_pages_with_kind` | a directory maps page ids to sets of cells; `Builds` is every paging a clusterer may choose |
| `HotStore` | hot log, snapshot, queue, policies | `log`, `synced`, `snap`, `pending`, `appended`; one action per durable write of flush, checkpoint, seal's end, drop; `Crash` keeps any prefix of the unsynced log, perhaps with a torn record |
| `SealedStore` | seal, `rollback_failed_seal`, rebuild-indexes, switches of index kind and codec | `page`, `codec` (of each file), `catalog` (codec and cells of each entry), `exact`, `fuse`, `lexical`, `disk`/`man` (the manifest on disk and in memory), `job`/`step`; `ServingIsValid` is what `validate --deep` asks |
| `Compaction` | compact, its transaction, rollback, reconcile, cleanup | page files and catalog as there plus `backup`, `archives`, `markers`, `tx`, `build`; `job` is compact, undo (rollback inside compact), restore (rollback at open), recover (finishing at open), abandon (rollback of that) |
| `Supersession` | supersede, flush, mark, drop, reconcile | `disk`/`man` with intents, `logged`, `synced`, `links`; `mode` says whether an engine serves one call or many, its durability and where it may fail |
| `Retention` | abstract: what is stored and marked | Compaction and SealedStore implement it |
| `Versions` | abstract: stored, retired, replaced | Supersession implements it |
| `CompactionInv` | the inductive invariant of Compaction | |
| `SharedProofs` | lemmas on page directories, on folds and flattened sequences, and on least elements | |
| `CompactionProofs`, `SealedStoreProofs`, `SupersessionProofs`, `HotStoreProofs`, `LineageProofs`, `FrontendsProofs`, `RecallProofs` | the theorems of section 4, with their inductive invariants and lemmas | |
| `Clusterers` | the page builder: groups by scope and kind, marker overlap, limits | pure; pages are sequences of cells. `BuildsFit` checks of it what `Pages` assumes |
| `Ranking` | scores, lexical bonus, BM25 evidence, rank fusion, packets | pure; scores as the code has them, evidence in thousandths |
| `Recall` | remember, seal, compact, mark and unmark as far as recall sees them; policies, markers, both index kinds, pruning, page cache, recall | `hot`, `page`, `index`, `dict`, `over`, `cache`, `order`; `RecallStep` is a recall with its effect on the cache, `Answer` what it returns |
| `Ingestion` | `chunk_session_turns`, Markdown sections | pure |
| `Lineage` | marker interning, remember, remember-session, Markdown import, supersede, status, and compaction with its plan and link redirection | `cells`, `next`, `over`, `by`, `dict`, `session` (the ingestion that ended last) |
| `StoreAccess` | lock, init, open, setup_fast, and a call of each kind as one engine's life | `store`, `lock`, `calls`; the steps look, check, lock, create, files, load, apply |
| `Tui` | the handlers of the terminal UI | `ui` |
| `McpServer` | the request loop, handshake, parameters and tools | `session` |
| `HostSetup` | `mge setup` for four hosts | `host`, `job` |
| `Frontends` | the four programs over one store | `scene`: which program runs beside commands of the CLI |
| `MC*` | sets of faults, cells, requests and scenes for TLC | |

How they fit together. `Recall`, `Lineage` and `StoreAccess` each look at the
engine between crashes from one side: what is found, what is linked, who may
write. The steps inside a durable operation are those of `HotStore`,
`SealedStore`, `Compaction` and `Supersession`; there an operation that is one
step in the other modules is as many as it has writes. `CompactionIsAtomic`,
`SealMovesMemory` and `SupersedeIsAtomic` are what justifies the single step.
`Frontends` composes `Tui`, `McpServer` and `HostSetup` over the one
`StoreAccess`.

Conventions. A step is one durable write: `atomic_write_bytes` writes a
temporary file, syncs and renames it, so a full-file write happens or does not,
and a failed one leaves the old content; the log append is the one write that
can tear, and only `HotStore` and `Supersession` look inside the log. A page
file is the set of its cells and an absent file is `{}`. `man` is the manifest
an engine holds, `disk` the file; actions change them separately, in the code's
order. Reads between two writes belong to the step after them, and a step that
could fail by what it reads (validation, loading pages, a rename onto an
existing file) has that as a guard and fails through `StepFails`. The deletion
of the completed hot archives is one step although it is a loop: nothing reads
an archive, and no property looks at them before the call returns. In the front
ends a step is what no other process can tell apart: a look without the lock,
taking it, each file init creates, loading, and the one operation.

Not in `Compaction`: the optional archive copy of `compact --archive` (written
outside the store, before the transaction); crashes inside the seal that
compact begins with (they are in `SealedStore`); which cells the plan prunes
beyond "obsolete and not untyped" (that is in `Lineage`).

## 3. Runs

| Run | Shows | Bounds |
|---|---|---|
| `Compaction.cfg` | atomicity as refinement of Retention, validity of a serving store, old pages kept, markers covered, pruned payloads gone, recovery in the end, and the inductive invariant | 3 cells of which one is untyped, 4 page ids, 2 faults |
| `HotStore.cfg` | acknowledged cells survive, no holes, unique ids, metadata first, RAM equals log | 3 writes, 2 faults, all policies |
| `Supersession.cfg` | a supersession is one durable step, versions agree, Ok is durable, every intent reconciles | 4 ids, 2 faults; an engine per call under `balanced` and `safe`, and one kept over many calls under `safe` whose only error is that of the last save |
| `SealedStore.cfg` | seal neither loses nor doubles, failed seals leave a store `validate --deep` accepts, catalog entries name the files' codecs, rebuild repairs | 3 cells, 4 page ids, 2 faults, 2 codecs, 2 index kinds |
| `Recall.cfg` | only permitted cells, the best first, full scope complete, pruning safe, indexes, cache, page limits | 4 cells, 5 page ids, 19 requests, cache of 2 pages, 1 override |
| `Lineage.cfg` | the store stays consistent, sessions and imports are whole, links lead to current versions | 4 ids, 3 marker ids, 1 status call, 18 sessions, 4 imports |
| `Frontends.cfg` | acknowledged memories are there, screen and reports are true, what begins ends | 2 processes, 2 memories, 2 lines of an MCP client |

Why the bounds are enough to be interesting. Three cells give an obsolete, a
kept and an untyped one, pages shared and not shared, and plans that prune
nothing, something or everything. Four page ids give two compactions in a row or a
seal, a compaction and a seal. Two faults give a crash during the recovery
from a crash, and an error in the rollback of an error. Three remembers give a
snapshot, records after it, and a queue of more than one. In
`Supersession` four ids give a chain of two replacements beside another cell.
The cells of `SealedStore` are symmetric: nothing in it tells them apart, and the
run has no liveness property.

`Recall`: the four cells differ in what a filter or a score can see: two scopes,
two kinds, a retired status, a secret, a text whose last word is no tag, and a
size for which a page limit bites. Pages hold at most 2 cells or 2 units, so the
overlap clusterer and both limits split. A binary fuse filter answers yes for
what it contains and, falsely, for any choice of the markers in `Ghosts`; one
such marker is enough for a false positive in an intersection, and every choice
of pages that have it is explored. Two cached pages of up to five give
evictions, hits after evictions and clears by seal and compact. Fused are the
first 3 cells instead of 20 (`MinPool`), so that the four cells have one
outside the pool. A recall is checked in every state for every request, and
also taken as a step, which changes the cache. The requests ask for retired,
rejected or secret cells by each of the three routes the code has: their policy,
capabilities of the agent, flags of their own (`EffectivePolicy`). The code
states what a policy allows three times, for the hot index (`Allowed`), for pages
(`PruneContext`) and for cells (`Refuses`); so does the model, and
`OnlyPermitted`, `FullScopeComplete` and `PruningIsSafe` need the three to agree.

`Lineage`: three marker ids are the two scopes and the supersedes marker, or
run out in the middle of a call that began to insert; with four ids
there are chains of three replacements beside links into them, and a compaction whose cutoff prunes the beginning, the middle or the end of a
chain. Turns and the chunks made of them are below, at and above the limit.

`Frontends` has four scenes, because a store has one lock and two processes
show every interleaving over it: two commands that make or change the store
(with room for 2 memories), the terminal UI beside remembering commands (room
for 1, no passphrase), the MCP server beside remembering and making ones (2),
and the setup of a host (0). The disk has room for that many memories, which
bounds the store, and a full disk is a case of its own. Five settings of a host
are those that the four kinds tell apart: none, other servers, our entry
with more arguments, another entry.

Five runs find a violation of what the documentation or a test says; each has
an entry under `findings` with the code and the quotation.

| Run | What TLC finds |
|---|---|
| `CompactionJournal.cfg` | the save that opens the transaction fails, the engine keeps the transaction in memory, a later call persists it, and the next open rolls back over newer pages |
| `HotStoreSnapshot.cfg` | the snapshot of an archived log becomes usable again |
| `SupersessionKept.cfg` | in a kept engine an intent can outlive the cell it names, and the store no longer opens |
| `SealCrash.cfg` | a crash in a seal blocks every later seal |
| `IndexSwitch.cfg` | a crash in an index switch leaves recall on an index that misses pages |

The passing runs name what they leave out in their constants: `SafeFaults`
(no I/O error in the journal save, nor in the rollback inside compact; crashes
there are in), `CrashAnywhereElse` (not between the rename of the log and the
removal of the snapshot), `OutsideUndo` (no fault inside `rollback_failed_seal`),
`FailButSync` and `CrashSyncs` (see section 5).

Some properties state an exception that the code has, rather than hide it.
`FuseMissesOnlyFocused`: the binary fuse index falls back from the intersection
to the union of its postings when the intersection is empty; one false positive
makes it non-empty, and focused recall then misses pages that the exact index
offers. The comment at `indexes.rs:264` and `docs/SECURITY.md:204` speak of extra
pages only. The property says that nothing is missed otherwise; it does not
catch that hazard, it exempts it. What holds even with false positives is
`PruningIsSafe`: a page that is not read has no cell that ranks and has all
queried markers (focused recall) or one of them (the other modes). Pages that
share only some of a focused request's markers are left out by design and
may have cells that would rank.
`SetupTruthful`: `setup_fast` decides by a look at the manifest that it takes
without the lock; if another process makes the store in between, it reports the
mode it was asked for. Nothing else it, `init` or a host setup reports is untrue.
`ScreenHonest`: after a handler that failed half way the dashboard is old until
the next refresh (`stale`). Hazards that are covered only in part say so in
their notes.

Fairness. `Compaction` states weak fairness of `EngineStep`, since a call that
runs goes on unless the process dies, and of `Open`, since `Reconciled`
says what becomes of a store that is opened again; a store nobody opens stays
as it is. Crashes and errors are not fair and bounded by `MaxFaults`: an
environment that crashes every recovery for ever refutes any such property.
`EngineStep` includes `StepFails`, so fairness does not force success.
`Frontends` states weak fairness of `GoesOn` of the one program that
`EveryCallReturns` is about: it goes on with the call, handler, line or job it
has begun. That a user types, a client writes or a command starts is
nobody's duty, and the command beside it may stop anywhere with the lock in its
hand: the program must come to an end without it, which it does because
`StoreFileLock::acquire` reports a busy store and does not wait.

Deadlock is checked where a store always has a next step. `Recall` and
`Lineage` say `CHECK_DEADLOCK FALSE`: their calls run out of cells, page ids or
ids, which are bounds of the instance.

## 4. Proofs

Each theorem below is of the form `Spec => []P` or `Spec => [][A]_vars`, for
every value of the constants that the named assumptions allow: any number of
cells, ids, pages, processes, faults. TLC has checked each inductive invariant on the
instance of the component's run before it was proved.

| Module | Theorem | Property |
|---|---|---|
| `CompactionProofs` | `Invariance` | `IInv` |
| | `TypeCorrect` | `TypeOK` |
| | `ServingStoreIsValid` | `ServingIsValid` |
| | `OldPagesStay` | `OldPagesKept` |
| | `MarkersStayCovered` | `MarkersCovered` |
| | `PrunedAreGone` | `OkMeansPruned` |
| | `Atomicity` | `CompactionIsAtomic`, the refinement of `Retention` |
| `SealedStoreProofs` | `Invariance` | `IInv` |
| | `TypeCorrect` | `TypeOK` |
| | `ServingStoreIsValid` | `ServingIsValid` |
| | `ListedIsReadable` | `CatalogReadable` |
| | `RebuildAlwaysRepairs` | `RebuildRepairs` |
| | `SealingImplementsRetention` | `SealMovesMemory`, the refinement of `Retention` |
| `SupersessionProofs` | `Invariance` | `IInv` |
| | `TypeCorrect` | `TypeOK` |
| | `VersionsAlwaysAgree` | `VersionsAgree` |
| | `OkStaysDurable` | `OkIsDurable` |
| | `OpenAlwaysReconciles` | `OpenReconciles` |
| | `SupersessionImplementsVersions` | `SupersedeIsAtomic`, the refinement of `Versions` |
| `HotStoreProofs` | `Invariance` | `IInv` |
| | `TypeCorrect` | `TypeOK` |
| | `AckedAlwaysSurvive` | `AckedSurvive` |
| | `CrashLosesASuffix` | `NoHoles` |
| | `IdsStayUnique` | `IdsUnique` |
| | `MetadataIsAhead` | `MetadataFirst` |
| | `RamAlwaysMatchesLog` | `RamMatchesLog` |
| `LineageProofs` | `Invariance` | `IInv` |
| | `StaysConsistent` | `StoreConsistent` |
| | `LinksRedirected` | `RedirectsToCurrent` |
| | `IngestedStaysWhole` | `IngestedWhole` |
| `FrontendsProofs` | `Invariance` | `IInv` |
| | `TypeCorrect` | `TypeOK` |
| | `AckedAlwaysPresent` | `AckedPresent` |
| | `ScreenIsHonest` | `ScreenHonest` |
| | `ReportsAreTruthful` | `SetupTruthful` |
| `RecallProofs` | `Invariance` | `IInv` |
| | `TypeCorrect` | `TypeOK` |
| | `PruningSafe` | `PruningIsSafe` |
| | `FuseMisses` | `FuseMissesOnlyFocused` |
| | `CacheStaysLru` | `CacheIsLru` |
| | `BuildsAlwaysFit` | `BuildsFit` |
| | `FullScopeFindsAll` | `FullScopeComplete` |
| | `PacketHoldsTheBest` | `PacketIsBest` |
| | `PacketsArePermitted` | `OnlyPermitted` |

Hypotheses. Besides the assumptions on constants in the modules (finite bounds,
distinct names, a null value outside its type), four components need to know
where faults strike, and each hypothesis leaves out places where
the code does break the property:

* Compaction, `NoKeptFaults`: no error where a caller keeps an
  engine with an open transaction in its manifest, which is the transaction's
  first save (the finding of `CompactionJournal.cfg`; the theorem is false
  without it) and the rollback inside a failed compact. Crashes may strike
  everywhere.
* SealedStore, `NoUndoFaults`: no fault inside `rollback_failed_seal`, which
  deletes the new pages before it restores the catalog (a listed hazard).
* Supersession, `SyncsItsCalls`: `CrashSyncs`, no error of `fsync` itself, an
  engine per call not under `fast`, and an engine that is kept over calls under
  `safe` with no error but that of the last save. Outside lie the finding of
  `SupersessionKept.cfg`, the hazard of a power loss after a process crash, and
  `fast`, which promises no durability.
* HotStore, `SnapshotGoesWithLog`: no crash between the archiving of the log and
  the removal of its snapshot, and no error in that removal (the finding of
  `HotStoreSnapshot.cfg`; the theorem is false without it).

Lineage, Frontends and Recall need none: they hold for every run of their
modules. The constants of `Recall` are the cells with their attributes, the
requests, both limits of a page, the size of the pool, the cache's capacity and
which pages a filter reports falsely; they are assumed to have their types
(`BuilderAssumption`, `RankingAssumption`, `RecallAssumption`), and no more.
Those of `Lineage` are the requests, the sessions and the imports, of any number and
length, and the bounds, with their types (`RequestsAssumption`,
`SessionsAssumption`, `ImportsAssumption`).

The argument for Compaction. None of the properties is inductive: that a store is valid when
it serves calls depends on where every file was while it was not. `IInv`
(module `CompactionInv`) has three parts.

* `Quiet`: with no transaction in the manifest on disk, the files are a valid
  store, but for backups of pages that are gone.
* `Open1(t)`: with `t` in the manifest on disk, each old page is in exactly one
  of two places, the page or its backup; the active catalog is the old one, with
  every old page in place, or the new one, with every new page there and holding
  exactly the old cells but the pruned ones; the manifest has the old values or
  the new ones; there are no other page files, and no hot cells.
* `QuietStep` and `TxStep`: how far the running call has come, for each of the
  five jobs, e.g. that indexes are built from the active catalog before the
  manifest is saved, or that no new page is left when a rollback finishes.

The key facts are that old and new page ids are apart (`Apart`), that moving a
page to its backup or back keeps the cells of the old pages (`OldCellsKept`),
and that the committed test of the recovery, which only counts catalog entries,
cannot take an old catalog for a new one (`CommittedIsNew`, which needs that a
transaction has an old page, also when it prunes everything). Each action has a
lemma `<Action>Step` that shows IInv kept and, where a transaction is open, that
the client's memory (`RetainedCells`, `RetainedOver`) is unchanged; the commit
is the abstract `Compact` (`CommitIsCompact`), and all else is `Remember`,
`Mark`, `Unmark` or a stutter (`AbsNext`).

SealedStore. `Sound` holds whatever call a fault has cut short: catalog entries
are true of the page files they name (`EntriesOk`), pages hold only cells that are
hot or sealed, a seal and its rollback know which pages are theirs and find the
old entries in place (`SealStep`, `UndoStep`), and the rebuilding of the indexes
has come as far as its step says (`Rebuilt`). `Whole` holds as long as only
seals were cut short, and those by errors (`intact`): the files are exactly the
listed pages and those the running seal has written, no cell is in two of them,
the manifest in memory is the one on disk, indexes and statistics are current.
`Sound` is what makes a rebuild repair whatever it finds, and what the
refinement needs: the pages of a seal hold the hot cells until the log is put
aside, so that publishing them moves memory and adds none.

Supersession. `Control` ties the running call to the one intent there can be.
`Intents` says that an intent has its old cell on disk, and that the
cell with its id, if there is one, is the replacement and nothing else; `Recorded` that
of a recorded supersession both cells are synced, with the link and the override,
and that every replacement is recorded or intended; `Ahead` that the manifest in
memory is the one on disk and the supersessions whose replacement is on
disk. `LogFacts` says that at most the newest cell waits for the log. The
refinement has the step that syncs the replacement for the abstract one: from
there on every crash and every open finishes it.

HotStore. `LogFacts`: records are whole but for a torn last one after a crash,
and written in order. `QueueFacts`: what counts as appended is in the log, the
rest of the queue is newer. `SnapFacts`: a snapshot is what a synced prefix of the log
says. `Counters` and `Metadata`: ids are used once, and the next id and the
dictionary on disk are ahead of every cell that can survive. `Memory`: RAM is
log and queue, and acknowledged cells are sealed or in the synced part. `Kept` is
the log these facts are about, which a seal puts aside before it begins a new one.

Lineage. `IInv` holds the id bounds, that the maps of the dictionary are inverse
to each other (`DictOk`), that supersessions lead from a cell to a later one of
the same scope (`SupersessionsOk`), and what a cell records (`CellOk`).
`LinksRedirected` is about the recursion of `resolve_compacted_link` on a cell and
the set of those visited: that a solution of its equation exists is shown by giving
one, the versions that can be reached and are kept (`Reach`). As
supersessions run forward, no chain meets a cell twice, and the test for visited
cells never cuts one short.

`IngestedStaysWhole` needs no invariant over calls, as every call says anew what
was ingested last; the work is in two loops. Over the turns of a session
(`LoopOk`): the turns before `start` are cut into chunks that follow each other
(`CutInto`), none of them too large and none that would take the first turn of the
next, and `bytes` is the size of the open chunk with its separators. Over the
lines of a file (`ReadOk`): every line above the open heading that has to be in a
section is in one (`Listed`), sections and their lines are in order, and the body of
the open one is all the text below its heading (`BodyOk`). The texts of an import
are the sections of its files in order (`Sourced`), so that what a failed call
leaves is a beginning.

Frontends. `IInv` says that whoever has read the store holds its lock and that
what it read is what there is (`CallOk`), that ids and memories are
given in one order (`StoreOk`), and what each program has in hand: the screens
on the back stack have falling ranks, which bounds it, and an open
confirmation belongs to the screen on top (`ScreensOk`); a dashboard that is
not stale equals the store (`DashOk`); an MCP session has answered
its first lines in order (`SessionOk`); a host job knows the settings it has left behind
(`JobOk`).

Recall. `IInv` says that every cell has one place and every page id was given once
(`Placement`), that the index is one that can be built from the catalog, with any
false reports (`Indexed`), that the dictionary has the markers of all stored cells
(`Known`), and that the cache holds pages of the catalog as they are, within its
capacity (`Cached`). That much is enough for pruning and for the indexes: every
marker of a cell is in the index of its page, so the page of a cell that is
sought is offered (`SoughtIsOffered`), and what the summaries exclude the filter of
cells refuses (`PrunedRanksNone`). The
other theorems are about what the algorithms compute, and these are folds and
sorts over sequences of any length. The provers have no induction over data, so
the lemmas take the definition of a fold apart step by step and argue by the
least element of a set of numbers (`HasLeast`, `UpTo`): if the first k pages are
read as they should be for k = 0, and for k + 1 if for k, there is no least k at
which it goes wrong.

* The page builder (`BuildsAlwaysFit`): the clusters are disjoint and together
  all the cells, a split keeps each cell once and opens a page whenever the next
  cell would exceed a limit, and pages are numbered on from `next`.
* The cache (`CacheStaysLru`): `EndsWith` and `FollowsUpTo` say which part of the
  order a read leaves in front; after the last page of a recall the end of
  the order is what it read, as much as fits.
* Ranking (`PacketHoldsTheBest`): scores are integers, which for sums over sets of
  words is a theorem (`SumIsNumber`); the order by score is strict. The fused order
  compares sums of two reciprocals by cross-multiplication; it is strict because
  the products are (`Across`, `LeadsStrict`), and who is better by score and not worse by
  words leads (`BetterLeads`). A packet is a prefix of that order without
  what scores too little (`CutIsBest`).
* Completeness and permission (`FullScopeFindsAll`, `PacketsArePermitted`): the
  three statements of the policy agree on every cell, so that what the hot index
  and the pages leave out is what the last test would refuse.

Only model-checked. `Reconciled` and `EveryCallReturns`: liveness under
fairness is beyond the prover. The five violation runs are counterexamples and have
nothing to prove.
TLC also evaluates the `IInv` of Compaction in its run; the other invariants were
checked in the same way before they were proved.

## 5. Limits of the models

* A log record is one unit long; a torn append that is not followed by a crash
  (the engine stays open and appends behind it) is a listed hazard and not a
  step of `HotStore`.
* A crash is taken to keep what `rename` and atomic writes did, in their order:
  reordering of directory entries by a file system without directory syncs is
  left out. `CrashSyncs = TRUE` in `Supersession` says that log records that
  survived a crash are durable afterwards; for a power loss after a process
  crash it need not be so (hazard at `reconcile_pending_supersessions`).
* An error of `fsync` itself is left out of `Supersession` (`FailButSync`). Its
  kept engine leaves out a failed flush: the cell stays in the queue and
  superseding it is the finding of `SupersessionKept.cfg` again, and after a
  failed supersede another cell can take the reserved id (a listed hazard).
* `OkMeansPruned` speaks of the backups of the pages the compaction replaced;
  backups left by an earlier compact whose deletion failed stay until the next
  open, and a later compact returns Ok beside them. The code also ignores an
  error when it removes the hot snapshot after a seal (`hot.rs:687`); no model
  has that error, so neither `OkMeansPruned` nor `AckedSurvive` covers the
  snapshot that stays.
* Faults inside `rollback_failed_seal` are left out of `SealedStore.cfg`: it
  deletes pages before it restores the catalog, and what a fault between the two
  leaves is a listed hazard, repaired by rebuild-indexes. `CatalogReadable` does
  not cover it: with such a fault it does not hold.
* `Recall` has no crashes. It leaves out the limit of lexical candidates (at
  least 64 of them, more than the instance has cells), tokenizing, collisions
  of marker fingerprints, and the warnings and timings of packets. Numbers are
  the code's for scores and rounded to thousandths for the logarithms of BM25,
  which are given as a table.
* In `Lineage` the dictionary has the markers of scopes and of supersession.
  remember takes links to cells that do not exist or are pruned, as the code
  does: `validate` then reports them, `compact` refuses to run (`Valid` in
  `Compact`), and `StoreConsistent` is about the rest of what validate asks.
* `StoreAccess` has one passphrase beside none. An encrypted store made without
  a passphrase never gets a key, then or later, and no call but the one that
  made it can open it; an init that dies leaves a manifest without its files,
  and a later setup reports that store as initialized. The model has both and
  no property forbids them.
* An MCP client that repeats a request whose answer it did not see stores the
  memory twice: requests carry no key to tell. `AckedPresent` is about each
  request.
* `HostSetup` trusts `codex mcp` and `claude mcp` to do nothing besides what
  they were told, and assumes that nobody edits the settings during the command
  and that no two backups are made within a second. With `--force` a
  replacement that fails may lose the old registration of the CLI hosts. After
  a crash between the removal of Cursor's file and the rename of the new one
  the other servers are in the backup only (`OthersKept`), and the next setup
  starts from an empty file.
* The terminal UI without its texts, results and language; the CLI's commands
  by what they do to the store, not by their options.
* Byte formats: frames, checksums, ciphers and compression are taken to
  round-trip; what is modelled of codecs is which one a file was written with.

## 6. Plan

Done:

1. `Pages`, `Compaction`, `Retention` and their proofs.
2. `HotStore`.
3. `Supersession`, `Versions`, per call and kept.
4. `SealedStore` with its codecs.
5. `Lineage`: compaction plan and links, markers, sessions, imports.
6. `Clusterers`, `Ranking`, `Recall` with the page cache.
7. `StoreAccess`, `Tui`, `McpServer`, `HostSetup`, `Frontends`.
8. `SealedStoreProofs`, `SupersessionProofs`, `HotStoreProofs`,
   `LineageProofs`, `FrontendsProofs`, over the lemmas of `SharedProofs`.
9. `RecallProofs`.

10. `IngestedWhole` in `LineageProofs`: every invariant and action property of the
    passing runs is a theorem.

Next, in the models: a torn append in an engine that stays open, and the archive
copy of `compact --archive`.

Not modelled, and not planned: encryption and byte formats (no protocol
state), the wording of packets, reports and screens, the SDKs (thin clients of the
CLI), the bench binaries and `tools/agent-memory-eval` (they
measure the engine through its public calls and keep no state of it).
