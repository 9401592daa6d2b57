----------------------------- MODULE SealedStore -----------------------------
(***************************************************************************)
(* The sealed half of a store: MemoryEngine::seal with its rollback,       *)
(* rebuild_catalog_and_indexes, update_storage_config and what the deep    *)
(* validation checks of all that (crates/mge-core/src/store.rs).           *)
(*                                                                         *)
(* Every durable write is a step, in front of which the process can crash  *)
(* or which can report an I/O error.  Nothing reconciles an interrupted    *)
(* one of these calls at open.                                             *)
(***************************************************************************)
EXTENDS Pages

CONSTANTS
    Cell,       \* the cells that can ever be remembered
    MaxPage,    \* bound: page ids are 1 .. MaxPage
    CrashIn,    \* the calls a crash may interrupt ("none": between calls)
    FailIn,     \* the calls whose steps may report an I/O error
    MaxFaults   \* bound: crashes and I/O errors

PageId == 1 .. MaxPage
Kind   == {"exact", "fuse"}     \* IndexKind
Codec  == {"plain", "zstd"}     \* CodecId of a page frame, encrypted or not

\* next_page_id, index_kind and compression.
Manifest == [next : 1 .. MaxPage + 1, kind : Kind, codec : Codec]

\* "index" and "codec" are update_storage_config with the one or the other.
Jobs == {"none", "seal", "undo", "rebuild", "index", "codec"}

ASSUME BoundsAssumption == MaxPage \in Nat /\ MaxFaults \in Nat
ASSUME FaultsAssumption == CrashIn \subseteq Jobs /\ FailIn \subseteq Jobs \ {"none"}

VARIABLES
    page,       \* pages/page_<id>.mgp
    codec,      \* the codec in the frame of each page file
    catalog,    \* indexes/page_index.mgi: the entries of the pages it lists
    label,      \* the index kind the catalog is labelled with
    exact,      \* the exact marker index: the pages it was built from
    fuse,       \* the binary fuse index: the pages it was built from
    lexical,    \* the lexical statistics: the pages they were built from
    disk,       \* manifest.mgm
    hot,        \* the hot cells (hot log and L1 RAM, which agree here)
    up,         \* a writable engine is open
    man,        \* its manifest in memory
    job, step,  \* the running call and the durable step it takes next
    build,      \* seal: the pages it builds
    written,    \* seal: those it has written
    orig,       \* seal: the catalog and next_page_id it started from
    budget,
    intact      \* no crash fell inside a call, no error inside an undo,
                \* rebuild or update: only then is Valid promised

indexes == <<exact, fuse, lexical>>
listing == <<catalog, label>>
files   == <<page, codec>>
durable == <<files, listing, indexes, disk, hot>>
call    == <<job, step, build, written, orig>>
vars    == <<durable, up, man, call, budget, intact>>

-----------------------------------------------------------------------------

\* The page files there are, listed or not.
Files == {p \in PageId : page[p] # {}}

Listed == DOMAIN catalog

\* The catalog entry of a page that is written now: its codec, and its cells
\* for the count and the summaries an entry has of them.
NewEntry(p) == [codec |-> man.codec, cells |-> build[p]]

\* A mutant of EntryOnDisk: entries are made for the codec of the manifest.
EntryOnDisk_Current(p) == [codec |-> man.codec, cells |-> page[p]]

\* The entry of a page file that was found: its codec is the frame's.
EntryOnDisk(p) == [codec |-> codec[p], cells |-> page[p]]

\* read_page: the file is there, in the codec its entry names.
Readable(p) == p \in Files /\ codec[p] = catalog[p].codec

\* load_all_pages succeeds; what it then holds.
PagesReadable == \A p \in Listed : Readable(p)
Sealed        == CellsIn(page, Listed)

\* load_candidate_index: the index the manifest names.
Active == IF man.kind = "exact" THEN exact ELSE fuse

Lowest(S) == CHOOSE x \in S : \A y \in S : x <= y

Init ==
    /\ page = [p \in PageId |-> {}] /\ codec = [p \in PageId |-> "none"]
    /\ catalog = NoPages
    /\ exact = {} /\ fuse = {} /\ lexical = {}
    /\ disk \in {[next |-> 1, kind |-> k, codec |-> z] : k \in Kind, z \in Codec}
    /\ hot = {} /\ label = disk.kind
    /\ up = TRUE /\ man = disk
    /\ job = "none" /\ step = "none" /\ build = NoPages /\ written = {}
    /\ orig = [catalog |-> NoPages, next |-> 1]
    /\ budget = MaxFaults /\ intact = TRUE

Serving == up /\ job = "none"

Return ==
    /\ job' = "none" /\ step' = "none" /\ build' = NoPages /\ written' = {}
    /\ orig' = [catalog |-> NoPages, next |-> 1]

GoTo(s) == step' = s /\ UNCHANGED <<job, build, written, orig>>

Start(j, s) == job' = j /\ step' = s /\ UNCHANGED <<build, written, orig>>

-----------------------------------------------------------------------------
(* The calls.                                                              *)

\* remember under `safe` durability: a flush saves the manifest, then appends.
Remember(c) ==
    /\ Serving /\ c \notin hot /\ c \notin CellsIn(page, PageId)
    /\ hot' = hot \cup {c} /\ disk' = man
    /\ UNCHANGED <<files, listing, indexes, up, man, call, budget, intact>>

\* seal: flush (nothing is pending here), build the pages, note the catalog.
Seal ==
    /\ Serving /\ hot # {}
    /\ build' \in Builds(hot, man.next, MaxPage)
    /\ written' = {} /\ orig' = [catalog |-> catalog, next |-> man.next]
    /\ job' = "seal" /\ step' = "write"
    /\ UNCHANGED <<durable, up, man, budget, intact>>

\* rebuild_catalog_and_indexes reads every page file first.
Rebuild == Serving /\ Start("rebuild", "catalog") /\ UNCHANGED <<durable, up, man, budget, intact>>

\* update_storage_config with another index_kind.
SwitchIndex(k) ==
    /\ Serving /\ k # man.kind
    /\ man' = [man EXCEPT !.kind = k]
    /\ Start("index", "manifest")
    /\ UNCHANGED <<durable, up, budget, intact>>

\* update_storage_config with another compression: later pages get it.
SwitchCodec(z) ==
    /\ Serving /\ z # man.codec
    /\ man' = [man EXCEPT !.codec = z]
    /\ Start("codec", "manifest")
    /\ UNCHANGED <<durable, up, budget, intact>>

-----------------------------------------------------------------------------
(* Their durable steps.                                                    *)

\* seal writes its pages in order, and overwrites none.
Refused == step = "write" /\ written # DOMAIN build
                          /\ page[Lowest(DOMAIN build \ written)] # {}

\* write_page, and the entry for it.
WritePage ==
    /\ step = "write" /\ ~Refused
    /\ IF written = DOMAIN build
       THEN GoTo("catalog") /\ UNCHANGED files
       ELSE LET p == Lowest(DOMAIN build \ written)
            IN /\ page' = [page EXCEPT ![p] = build[p]]
               /\ codec' = [codec EXCEPT ![p] = man.codec]
               /\ written' = written \cup {p}
               /\ UNCHANGED <<job, step, build, orig>>
    /\ UNCHANGED <<listing, indexes, disk, hot, up, man, budget, intact>>

\* A mutant of NewCatalog: seal lists its own pages only.
NewCatalog_NewOnly ==
    CASE job = "seal"    -> [p \in DOMAIN build |-> NewEntry(p)]
      [] job = "undo"    -> orig.catalog
      [] job = "rebuild" -> [p \in Files |-> EntryOnDisk(p)]
      [] job = "index"   -> catalog

NewCatalog ==
    CASE job = "seal"    -> [p \in DOMAIN orig.catalog \cup DOMAIN build |->
                                IF p \in DOMAIN build THEN NewEntry(p) ELSE orig.catalog[p]]
      [] job = "undo"    -> orig.catalog
      [] job = "rebuild" -> [p \in Files |-> EntryOnDisk(p)]
      [] job = "index"   -> catalog

\* save_page_catalog; load_all_pages follows it in seal and its rollback.
SaveCatalog ==
    /\ step = "catalog"
    /\ catalog' = NewCatalog /\ label' = man.kind
    /\ IF job = "index" THEN Return ELSE GoTo("exact")
    /\ UNCHANGED <<files, indexes, disk, hot, up, man, budget, intact>>

\* A mutant of RebuildExact: the fuse index is never rebuilt.
RebuildExact_Only ==
    /\ step = "exact" /\ PagesReadable
    /\ exact' = Listed
    /\ GoTo("lexical")
    /\ UNCHANGED <<files, listing, fuse, lexical, disk, hot, up, man, budget, intact>>

\* rebuild_candidate_indexes_for_pages: always the exact index, the fuse
\* index when it is the active one.
RebuildExact ==
    /\ step = "exact" /\ PagesReadable
    /\ exact' = Listed
    /\ GoTo(IF man.kind = "fuse" THEN "fuse" ELSE "lexical")
    /\ UNCHANGED <<files, listing, fuse, lexical, disk, hot, up, man, budget, intact>>

RebuildFuse ==
    /\ step = "fuse"
    /\ fuse' = Listed
    /\ GoTo("lexical")
    /\ UNCHANGED <<files, listing, exact, lexical, disk, hot, up, man, budget, intact>>

RebuildLexical ==
    /\ step = "lexical"
    /\ lexical' = Listed
    /\ CASE job \in {"seal", "undo"} -> GoTo("manifest")
         [] job = "rebuild"          -> Return
         [] job = "index"            -> GoTo("catalog")
    /\ UNCHANGED <<files, listing, exact, fuse, disk, hot, up, man, budget, intact>>

SaveManifest ==
    /\ step = "manifest"
    /\ man' = IF job = "seal" THEN [man EXCEPT !.next = NextAfter(build, @)] ELSE man
    /\ disk' = man'
    /\ CASE job = "seal"             -> GoTo("archive")
         [] job \in {"undo", "codec"} -> Return
         [] job = "index"            -> GoTo("exact")
    /\ UNCHANGED <<files, listing, indexes, hot, up, budget, intact>>

\* archive_and_clear (module HotStore has its steps), then RAM is cleared.
ArchiveLog ==
    /\ step = "archive"
    /\ hot' = {}
    /\ Return
    /\ UNCHANGED <<files, listing, indexes, disk, up, man, budget, intact>>

\* A mutant of RemovePage: the written pages stay behind.
RemovePage_Forgets ==
    /\ step = "remove"
    /\ GoTo("catalog")
    /\ UNCHANGED <<durable, up, man, budget, intact>>

\* rollback_failed_seal starts with the page files.
RemovePage ==
    /\ step = "remove"
    /\ IF written = {}
       THEN GoTo("catalog") /\ UNCHANGED files
       ELSE \E p \in written : /\ page' = [page EXCEPT ![p] = {}]
                               /\ codec' = [codec EXCEPT ![p] = "none"]
                               /\ written' = written \ {p}
                               /\ UNCHANGED <<job, step, build, orig>>
    /\ UNCHANGED <<listing, indexes, disk, hot, up, man, budget, intact>>

-----------------------------------------------------------------------------
(* Errors, crashes, open.                                                  *)

\* What the step reads lets it succeed when its I/O does.
StepPossible == ~Refused /\ (step = "exact" => PagesReadable)

\* The rollback goes on past its own errors, and reports them all.
UndoGoesOn ==
    CASE step = "remove"  -> IF written = {} THEN GoTo("catalog")
                             ELSE \E p \in written : /\ written' = written \ {p}
                                                     /\ UNCHANGED <<job, step, build, orig>>
      [] step = "catalog" -> GoTo("exact")
      [] step = "exact"   -> GoTo(IF PagesReadable THEN "lexical" ELSE "manifest")
      [] step = "fuse"    -> GoTo("lexical")
      [] step = "lexical" -> GoTo("manifest")
      [] OTHER            -> Return

StepFails ==
    /\ job # "none"
    /\ ~StepPossible \/ (job \in FailIn /\ budget > 0)
    /\ budget' = IF StepPossible THEN budget - 1 ELSE budget
    /\ intact' = (intact /\ job = "seal")
    /\ IF job = "seal"
       THEN /\ job' = "undo" /\ step' = "remove"
            /\ man' = [man EXCEPT !.next = orig.next]
            /\ UNCHANGED <<build, written, orig>>
       ELSE /\ UNCHANGED man
            /\ IF job = "undo" THEN UndoGoesOn ELSE Return
    /\ UNCHANGED <<durable, up>>

Down == up' = FALSE /\ man' = disk /\ Return

Crash ==
    /\ up /\ job \in CrashIn /\ budget > 0 /\ budget' = budget - 1
    /\ intact' = (intact /\ job = "none")
    /\ UNCHANGED durable /\ Down

\* A host drops its engine; hot cells and the manifest are on disk already,
\* but for an index kind or a codec whose save failed.
Close == Serving /\ Down /\ UNCHANGED <<durable, budget, intact>>

Open == ~up /\ up' = TRUE /\ UNCHANGED <<durable, man, call, budget, intact>>

EngineStep ==
    \/ WritePage \/ SaveCatalog \/ RebuildExact \/ RebuildFuse \/ RebuildLexical
    \/ SaveManifest \/ ArchiveLog \/ RemovePage \/ StepFails

Next ==
    \/ \E c \in Cell : Remember(c)
    \/ \E k \in Kind : SwitchIndex(k)
    \/ \E z \in Codec : SwitchCodec(z)
    \/ Seal \/ Rebuild \/ Crash \/ Close \/ Open
    \/ EngineStep

Spec == Init /\ [][Next]_vars

-----------------------------------------------------------------------------
(* validate_deep: validate_with_options, reading the files again.          *)

\* validate_page: what an entry says of its page.
PageOk(p) == Readable(p) /\ catalog[p].cells = page[p]

\* No cell is in two places.
CellsOnce ==
    /\ hot \cap Sealed = {}
    /\ \A p, q \in Listed : p # q => page[p] \cap page[q] = {}

\* validate_orphan_storage_files
NoOrphans == Files \subseteq Listed

\* validate_candidate_index, validate_page_id_set: the pages of the index are
\* those of the catalog.
IndexOk == Active = Listed

\* LexicalCorpusStats::build gives what is on disk.
StatisticsOk == lexical = Listed

ValidDeep ==
    /\ label = man.kind
    /\ \A p \in Listed : PageOk(p) /\ p < man.next
    /\ CellsOnce /\ NoOrphans /\ IndexOk /\ StatisticsOk

-----------------------------------------------------------------------------
(* Properties.                                                             *)

TypeOK ==
    /\ page \in [PageId -> SUBSET Cell] /\ codec \in [PageId -> Codec \cup {"none"}]
    /\ \A ids \in {Listed, exact, fuse, lexical, written, DOMAIN orig.catalog} :
           ids \subseteq PageId
    /\ \A p \in Listed : catalog[p] \in [codec : Codec, cells : SUBSET Cell]
    /\ disk \in Manifest /\ man \in Manifest /\ label \in Kind /\ orig.next \in 1 .. MaxPage + 1
    /\ hot \subseteq Cell /\ up \in BOOLEAN /\ job \in Jobs
    /\ budget \in 0 .. MaxFaults

\* A store that serves calls passes its deep validation, whatever I/O errors
\* earlier seals met: they left no page behind, lost none, and put no cell in
\* two places (validate_deep; the two "failed ... rolls back" tests of
\* crates/mge-core/tests/core_flow.rs).
ServingIsValid == Serving /\ intact => ValidDeep

\* Sealing is never refused for good: no page file lies where the next seal
\* will write.
SealNotRefused == Serving => \A p \in Files : p < man.next

\* After a crash too, and whatever the codec was when a page was sealed and
\* when its entry was made, every listed page can be read: load_all_pages, on
\* which recall, seal and compact depend, never fails.
CatalogReadable == job # "undo" => PagesReadable

\* The index that recall consults covers every listed page.
IndexCoversCatalog == Serving => Listed \subseteq Active

\* rebuild-indexes repairs what a crash has left: every page file is listed
\* and indexed again, and readable.
RebuildRepairs ==
    [][job = "rebuild" /\ RebuildLexical =>
        Listed' = Files' /\ Active' = Listed' /\ lexical' = Listed']_vars

\* What a client may rely on: sealing moves memory and neither loses nor
\* alters it, at no point of the call and whatever interrupts it.
Abs == INSTANCE Retention WITH Untyped <- {}, stored <- hot \cup Sealed, over <- {}

SealMovesMemory == Abs!Spec
=============================================================================
