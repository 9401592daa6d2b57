-------------------------- MODULE SealedStoreProofs --------------------------
(***************************************************************************)
(* Proofs about module SealedStore, for any cells and page bound, and for   *)
(* crashes and errors anywhere but inside the rollback of a failed seal.    *)
(***************************************************************************)
EXTENDS SealedStore, SharedProofs

NoUndoFaults == "undo" \notin CrashIn \cup FailIn

-----------------------------------------------------------------------------
(* The inductive invariant.                                                *)

Steps == [none    |-> {"none"},
          seal    |-> {"write", "catalog", "exact", "fuse", "lexical", "manifest", "archive"},
          undo    |-> {"remove", "catalog", "exact", "fuse", "lexical", "manifest"},
          rebuild |-> {"catalog", "exact", "fuse", "lexical"},
          index   |-> {"manifest", "exact", "fuse", "lexical", "catalog"},
          codec   |-> {"manifest"}]

\* The entries of `cat` are true of the page files.
EntriesOk(cat) ==
    \A p \in DOMAIN cat : p \in Files /\ cat[p] = EntryOnDisk(p)

\* The catalog a seal is about to save: the one it found, and its own pages.
Extended ==
    [p \in DOMAIN orig.catalog \cup DOMAIN build |->
        IF p \in DOMAIN build THEN NewEntry(p) ELSE orig.catalog[p]]

Disjoint(dir, ids) == \A p, q \in ids : p # q => dir[p] \cap dir[q] = {}

\* A seal and its rollback: the pages built hold the hot cells, those written
\* were in no catalog before, and what the old catalog lists is in place.
Sealing ==
    /\ DOMAIN build \subseteq PageId
    /\ DOMAIN build = orig.next .. NextAfter(build, orig.next) - 1
    /\ NextAfter(build, orig.next) \in 1 .. MaxPage + 1
    /\ orig.next <= NextAfter(build, orig.next)
    /\ build \in [DOMAIN build -> (SUBSET hot) \ {{}}]
    /\ CellsIn(build, DOMAIN build) = hot /\ Disjoint(build, DOMAIN build)
    /\ written \subseteq DOMAIN build
    /\ \A p \in written : /\ page[p] = build[p] /\ codec[p] = man.codec
                          /\ p \notin DOMAIN orig.catalog
    /\ EntriesOk(orig.catalog)

SealStep ==
    /\ Sealing
    /\ man.next = IF step = "archive" THEN NextAfter(build, orig.next) ELSE orig.next
    /\ step \in {"write", "catalog"} => catalog = orig.catalog
    /\ step # "write" => written = DOMAIN build
    /\ step \notin {"write", "catalog"} => catalog = Extended

UndoStep ==
    /\ Sealing
    /\ man.next = orig.next
    /\ step # "remove" => written = {}
    /\ \/ catalog = orig.catalog
       \/ /\ catalog = Extended /\ step \in {"remove", "catalog"}
          /\ \A p \in DOMAIN build \ DOMAIN orig.catalog : p \in written \/ page[p] = {}

\* How far the rebuilding of the indexes has come.
Rebuilt ==
    /\ step = "fuse" => exact = Listed /\ man.kind = "fuse"
    /\ step = "lexical" => exact = Listed /\ (man.kind = "fuse" => fuse = Listed)
    /\ job \in {"seal", "undo"} /\ step \in {"manifest", "archive"} => IndexOk /\ StatisticsOk
    /\ job = "index" /\ step = "catalog" => IndexOk /\ StatisticsOk
    /\ job = "rebuild" /\ step # "catalog" => Listed = Files

\* What holds whatever call a crash or an error cut short.
Sound ==
    /\ job \in DOMAIN Steps /\ step \in Steps[job]
    /\ job # "none" => up
    /\ \A p \in Files : codec[p] \in Codec
    /\ job # "undo" => EntriesOk(catalog)
    /\ \A p \in PageId : page[p] \subseteq hot \cup Sealed
    /\ job = "seal" => SealStep
    /\ job = "undo" => UndoStep
    /\ Rebuilt

\* The pages `ids` are all there is, but for `extra`; no cell is in two places.
Apart(ids, extra, next) ==
    /\ Files = ids \cup extra
    /\ \A p \in ids : p < next
    /\ hot \cap CellsIn(page, ids) = {}
    /\ Disjoint(page, ids)

\* What holds as long as only seals were cut short, and those by errors.
Whole ==
    /\ job \in {"seal", "undo"} => Apart(DOMAIN orig.catalog, written, orig.next)
    /\ job \notin {"seal", "undo"} => Apart(Listed, {}, man.next)
    /\ job \in {"none", "seal", "rebuild"} => man = disk
    /\ job \in {"none", "seal", "undo", "codec"} => label = man.kind
    /\ job = "rebuild" /\ step # "catalog" => label = man.kind
    /\ job \in {"none", "codec"} => IndexOk /\ StatisticsOk
    /\ job = "index" /\ step # "manifest" => man = disk

IInv == TypeOK /\ Sound /\ (intact => Whole)

\* A step after which the client's memory is what it was.
SameMemory == hot' \cup Sealed' = hot \cup Sealed

-----------------------------------------------------------------------------
(* Types and frames.                                                       *)

\* TypeOK, without its quantifier over sets of page ids.
LEMMA TypeFacts ==
    TypeOK <=>
    /\ page \in [PageId -> SUBSET Cell] /\ codec \in [PageId -> Codec \cup {"none"}]
    /\ Listed \subseteq PageId /\ exact \subseteq PageId /\ fuse \subseteq PageId
    /\ lexical \subseteq PageId /\ written \subseteq PageId
    /\ DOMAIN orig.catalog \subseteq PageId
    /\ \A p \in Listed : catalog[p] \in [codec : Codec, cells : SUBSET Cell]
    /\ disk \in Manifest /\ man \in Manifest /\ label \in Kind /\ orig.next \in 1 .. MaxPage + 1
    /\ hot \subseteq Cell /\ up \in BOOLEAN /\ job \in Jobs
    /\ budget \in 0 .. MaxFaults
BY DEF TypeOK

LEMMA ManifestFields ==
    ASSUME NEW m \in Manifest
    PROVE  m.next \in 1 .. MaxPage + 1 /\ m.kind \in Kind /\ m.codec \in Codec
BY DEF Manifest

\* The entries a catalog may hold: outside a rollback every listed page is
\* there, as its entry says, so that it can be read.
LEMMA ListedPages ==
    ASSUME IInv, job # "undo" \/ step \notin {"remove", "catalog"}
    PROVE  EntriesOk(catalog) /\ PagesReadable
<1>1. EntriesOk(catalog)
  BY DEF IInv, Sound, UndoStep, Sealing
<1> QED
  BY <1>1 DEF EntriesOk, PagesReadable, Readable, EntryOnDisk, Listed

\* A step that leaves the page files, the catalog and the hot cells alone.
LEMMA FilesFrame ==
    ASSUME UNCHANGED <<files, catalog, hot>>
    PROVE  /\ Files' = Files /\ Listed' = Listed /\ Sealed' = Sealed /\ SameMemory
           /\ EntriesOk(catalog) => EntriesOk(catalog)'
           /\ \A p \in PageId : page[p] \subseteq hot \cup Sealed => page'[p] \subseteq hot' \cup Sealed'
<1>1. Files' = Files /\ Listed' = Listed
  BY DEF Files, Listed, files
<1>2. Sealed' = Sealed
  BY <1>1 DEF Sealed, files, CellsIn
<1> QED
  BY <1>1, <1>2 DEF EntriesOk, EntryOnDisk, files, SameMemory

\* Neither does it disturb what a seal has done.
LEMMA SealingFrame ==
    ASSUME Sealing, UNCHANGED <<files, hot, build, written, orig>>, man'.codec = man.codec
    PROVE  Sealing' /\ Extended' = Extended
<1>1. Files' = Files
  BY DEF Files, files
<1>2. EntriesOk(orig.catalog)'
  BY <1>1 DEF Sealing, EntriesOk, EntryOnDisk, files
<1>3. CellsIn(build, DOMAIN build)' = CellsIn(build, DOMAIN build)
  BY DEF CellsIn
<1>4. Disjoint(build, DOMAIN build)'
  BY DEF Sealing, Disjoint
<1>5. Sealing'
  BY <1>2, <1>3, <1>4 DEF Sealing, files
<1>6. Extended' = Extended
  BY DEF Extended, NewEntry
<1> QED
  BY <1>5, <1>6

LEMMA ApartFrame ==
    ASSUME NEW ids, NEW extra, NEW next, Apart(ids, extra, next), UNCHANGED <<files, hot>>
    PROVE  Apart(ids, extra, next)'
<1>1. Files' = Files
  BY DEF Files, files
<1> QED
  BY <1>1 DEF Apart, Disjoint, CellsIn, files

-----------------------------------------------------------------------------
(* The invariant holds initially.                                          *)

LEMMA InitIInv == Init => IInv
<1> SUFFICES ASSUME Init PROVE IInv
  OBVIOUS
<1>1. PICK k \in Kind, z \in Codec : disk = [next |-> 1, kind |-> k, codec |-> z]
  BY DEF Init
<1>2. disk \in Manifest
  BY <1>1, BoundsAssumption DEF Manifest
<1>3. Listed = {} /\ Files = {} /\ DOMAIN orig.catalog = {}
  BY DEF Init, Listed, Files, NoPages
<1>4. Sealed = {}
  BY <1>3, InCells DEF Sealed
<1>5. TypeOK
  BY <1>2, <1>3, BoundsAssumption, TypeFacts, ManifestFields DEF Init, Jobs
<1>6. Sound
  BY <1>3 DEF Init, Sound, Steps, EntriesOk, Listed, Rebuilt
<1>7. Whole
  BY <1>3, <1>4 DEF Init, Whole, Apart, Disjoint, Sealed, IndexOk, Active, StatisticsOk
<1> QED
  BY <1>5, <1>6, <1>7 DEF IInv

-----------------------------------------------------------------------------
(* The calls.                                                              *)

LEMMA RememberStep ==
    ASSUME IInv, NEW c \in Cell, Remember(c)
    PROVE  IInv' /\ hot' = hot \cup {c} /\ Sealed' = Sealed
<1>1. /\ up /\ job = "none" /\ c \notin CellsIn(page, PageId)
      /\ hot' = hot \cup {c} /\ disk' = man
      /\ UNCHANGED <<files, listing, indexes, up, man, call, budget, intact>>
  BY DEF Remember, Serving
<1>2. Files' = Files /\ Listed' = Listed /\ Sealed' = Sealed
  BY <1>1 DEF Files, files, Listed, listing, Sealed, CellsIn
<1>3. TypeOK'
  BY <1>1, <1>2, TypeFacts DEF IInv, files, listing, indexes, call, TypeOK, Listed
<1>4. Sound'
  <2>1. EntriesOk(catalog)'
    BY <1>1, <1>2 DEF IInv, Sound, EntriesOk, EntryOnDisk, files, listing
  <2>2. \A p \in PageId : page'[p] \subseteq hot' \cup Sealed'
    BY <1>1, <1>2 DEF IInv, Sound, files
  <2> QED
    BY <1>1, <1>2, <2>1, <2>2 DEF IInv, Sound, Steps, Rebuilt, files, call, indexes
<1>5. ASSUME intact' PROVE Whole'
  <2>1. Whole /\ intact
    BY <1>1, <1>5 DEF IInv
  <2>2. c \notin Sealed
    BY <1>1, InCells, TypeFacts DEF IInv, Sealed
  <2>3. Apart(Listed, {}, man.next)'
    BY <1>1, <1>2, <2>1, <2>2 DEF Whole, Apart, Disjoint, files, Sealed
  <2> QED
    BY <1>1, <1>2, <2>1, <2>3 DEF Whole, IndexOk, Active, StatisticsOk, listing, indexes, call
<1> QED
  BY <1>1, <1>2, <1>3, <1>4, <1>5 DEF IInv

\* The calls that begin by noting what they will do.
LEMMA StartStep ==
    ASSUME IInv, \/ Rebuild
                 \/ \E k \in Kind : SwitchIndex(k)
                 \/ \E z \in Codec : SwitchCodec(z)
    PROVE  IInv' /\ SameMemory
<1>1. /\ up /\ job = "none"
      /\ UNCHANGED <<durable, up, budget, intact, build, written, orig>>
      /\ \/ job' = "rebuild" /\ step' = "catalog" /\ man' = man
         \/ job' \in {"index", "codec"} /\ step' = "manifest"
            /\ man' \in Manifest /\ man'.next = man.next
            /\ (job' = "codec" => man'.kind = man.kind)
  <2>1. CASE Rebuild
    BY <2>1 DEF Rebuild, Start, Serving
  <2>2. ASSUME NEW k \in Kind, SwitchIndex(k)
        PROVE  job' = "index" /\ step' = "manifest" /\ man' \in Manifest /\ man'.next = man.next
    BY <2>2 DEF SwitchIndex, Start, IInv, TypeOK, Manifest
  <2>3. ASSUME NEW z \in Codec, SwitchCodec(z)
        PROVE  job' = "codec" /\ step' = "manifest" /\ man' \in Manifest /\ man'.next = man.next
               /\ man'.kind = man.kind
    BY <2>3 DEF SwitchCodec, Start, IInv, TypeOK, Manifest
  <2> QED
    BY <2>1, <2>2, <2>3 DEF SwitchIndex, SwitchCodec, Serving, Start
<1> USE DEF durable, listing, indexes
<1>2. /\ Files' = Files /\ Listed' = Listed /\ Sealed' = Sealed /\ SameMemory
      /\ EntriesOk(catalog)' /\ \A p \in PageId : page'[p] \subseteq hot' \cup Sealed'
  BY <1>1, FilesFrame DEF IInv, Sound
<1>3. TypeOK'
  BY <1>1, <1>2, TypeFacts DEF IInv, files, TypeOK, Listed, Jobs
<1>4. Sound'
  BY <1>1, <1>2 DEF IInv, Sound, Steps, Rebuilt, files
<1>5. ASSUME intact' PROVE Whole'
  <2>1. Whole /\ intact
    BY <1>1, <1>5 DEF IInv
  <2>2. Apart(Listed, {}, man.next)'
    BY <1>1, <1>2, <2>1, ApartFrame DEF Whole
  <2> QED
    BY <1>1, <1>2, <2>1, <2>2 DEF Whole, IndexOk, Active, StatisticsOk
<1> QED
  BY <1>1, <1>2, <1>3, <1>4, <1>5 DEF IInv

\* What the page builder returns, as Sealing wants it.
LEMMA BuiltPages ==
    ASSUME NEW S, NEW first \in 1 .. MaxPage + 1, NEW b \in Builds(S, first, MaxPage)
    PROVE  /\ DOMAIN b \subseteq PageId
           /\ DOMAIN b = first .. NextAfter(b, first) - 1
           /\ NextAfter(b, first) \in 1 .. MaxPage + 1 /\ first <= NextAfter(b, first)
           /\ b \in [DOMAIN b -> (SUBSET S) \ {{}}]
           /\ CellsIn(b, DOMAIN b) = S /\ Disjoint(b, DOMAIN b)
<1>1. MaxPage \in Nat /\ MaxPage \in Int /\ MaxPage <= MaxPage
  BY BoundsAssumption
<1>2. /\ DOMAIN b \subseteq 1 .. MaxPage
      /\ DOMAIN b = first .. NextAfter(b, first) - 1
      /\ NextAfter(b, first) \in first .. MaxPage + 1
      /\ b \in [DOMAIN b -> (SUBSET S) \ {{}}]
      /\ CellsIn(b, DOMAIN b) = S
      /\ \A p, q \in DOMAIN b : p # q => b[p] \cap b[q] = {}
  BY <1>1, BuildIs
<1>3. NextAfter(b, first) \in 1 .. MaxPage + 1 /\ first <= NextAfter(b, first)
  BY <1>1, <1>2
<1> QED
  BY <1>2, <1>3 DEF PageId, Disjoint

\* A seal starts with the pages it will write, none of them in the catalog.
LEMMA SealStarts == IInv /\ Seal => IInv' /\ SameMemory
<1> SUFFICES ASSUME IInv, Seal PROVE IInv' /\ SameMemory
  OBVIOUS
<1>1. /\ up /\ job = "none" /\ step = "none" /\ step' = "write" /\ job' = "seal"
      /\ build' \in Builds(hot, man.next, MaxPage)
      /\ written' = {} /\ orig' = [catalog |-> catalog, next |-> man.next]
      /\ UNCHANGED <<durable, up, man, budget, intact>>
  BY DEF Seal, Serving, IInv, Sound, Steps
<1> USE DEF durable, listing, indexes
<1>2. man.next \in 1 .. MaxPage + 1 /\ MaxPage \in Nat
  BY ManifestFields, BoundsAssumption DEF IInv, TypeOK
<1>3. /\ Files' = Files /\ Listed' = Listed /\ Sealed' = Sealed /\ SameMemory
      /\ EntriesOk(catalog)' /\ \A p \in PageId : page'[p] \subseteq hot' \cup Sealed'
  BY <1>1, FilesFrame DEF IInv, Sound
<1>4. orig'.catalog = catalog /\ orig'.next = man.next /\ DOMAIN orig'.catalog = Listed
  BY <1>1 DEF Listed
<1>5. TypeOK'
  BY <1>1, <1>2, <1>3, <1>4, TypeFacts DEF IInv, files, TypeOK, Listed, Jobs
<1>6. Sealing'
  <2>1. /\ DOMAIN build' \subseteq PageId
        /\ DOMAIN build' = man.next .. NextAfter(build', man.next) - 1
        /\ NextAfter(build', man.next) \in 1 .. MaxPage + 1
        /\ man.next <= NextAfter(build', man.next)
        /\ build' \in [DOMAIN build' -> (SUBSET hot) \ {{}}]
        /\ CellsIn(build', DOMAIN build') = hot /\ Disjoint(build', DOMAIN build')
    BY <1>1, <1>2, BuiltPages
  <2>2. EntriesOk(orig.catalog)'
    BY <1>1, <1>3, <1>4 DEF EntriesOk, EntryOnDisk, files
  <2> QED
    BY <1>1, <1>4, <2>1, <2>2 DEF Sealing, Disjoint
<1>7. Sound'
  BY <1>1, <1>3, <1>4, <1>6 DEF IInv, Sound, Steps, Rebuilt, files, SealStep
<1>8. ASSUME intact' PROVE Whole'
  <2>1. Whole /\ intact
    BY <1>1, <1>8 DEF IInv
  <2>2. Apart(Listed, {}, man.next)'
    BY <1>1, <1>3, <2>1, ApartFrame DEF Whole
  <2> QED
    BY <1>1, <1>3, <1>4, <2>1, <2>2 DEF Whole
<1> QED
  BY <1>3, <1>5, <1>7, <1>8 DEF IInv

-----------------------------------------------------------------------------
(* The durable steps.                                                      *)

\* Which calls take a step.
LEMMA JobOf ==
    ASSUME IInv
    PROVE  /\ step = "none" <=> job = "none"
           /\ step \in {"write", "archive"} => job = "seal"
           /\ step = "remove" => job = "undo"
           /\ step \in {"catalog", "exact", "fuse", "lexical"} =>
                  job \in {"seal", "undo", "rebuild", "index"}
           /\ step = "manifest" => job \in {"seal", "undo", "index", "codec"}
<1>1. \/ job = "none" /\ step = "none"
      \/ job = "seal" /\ step \in Steps["seal"]
      \/ job = "undo" /\ step \in Steps["undo"]
      \/ job = "rebuild" /\ step \in Steps["rebuild"]
      \/ job = "index" /\ step \in Steps["index"]
      \/ job = "codec" /\ step = "manifest"
  BY DEF IInv, Sound, Steps
<1> QED
  BY <1>1 DEF Steps

\* The steps each call takes.
LEMMA StepTable ==
    /\ DOMAIN Steps = {"none", "seal", "undo", "rebuild", "index", "codec"}
    /\ Steps["none"] = {"none"}
    /\ Steps["seal"] = {"write", "catalog", "exact", "fuse", "lexical", "manifest", "archive"}
    /\ Steps["undo"] = {"remove", "catalog", "exact", "fuse", "lexical", "manifest"}
    /\ Steps["rebuild"] = {"catalog", "exact", "fuse", "lexical"}
    /\ Steps["index"] = {"manifest", "exact", "fuse", "lexical", "catalog"}
    /\ Steps["codec"] = {"manifest"}
BY DEF Steps

\* The page that is written next is one of those built.
LEMMA NextPage ==
    ASSUME Sealing, written # DOMAIN build
    PROVE  Lowest(DOMAIN build \ written) \in DOMAIN build \ written
<1>1. DOMAIN build \ written \in SUBSET Nat /\ DOMAIN build \ written # {}
  <2>1. PageId \subseteq Nat
    BY BoundsAssumption DEF PageId
  <2>2. DOMAIN build \subseteq PageId /\ written \subseteq DOMAIN build
    BY DEF Sealing
  <2> QED
    BY <2>1, <2>2
<1>2. \E x \in DOMAIN build \ written : \A y \in DOMAIN build \ written : x <= y
  BY <1>1, HasLeast
<1> QED
  BY <1>2 DEF Lowest

LEMMA WritePageStep == IInv /\ WritePage => IInv' /\ SameMemory
<1> SUFFICES ASSUME IInv, WritePage PROVE IInv' /\ SameMemory
  OBVIOUS
<1>1. /\ job = "seal" /\ step = "write" /\ SealStep
      /\ UNCHANGED <<listing, indexes, disk, hot, up, man, job, build, orig, budget, intact>>
  BY JobOf DEF WritePage, GoTo, IInv, Sound
<1>2. Sealing /\ man.next = orig.next /\ catalog = orig.catalog
  BY <1>1 DEF SealStep
<1> USE DEF listing, indexes
<1>3. CASE written = DOMAIN build
  <2>1. step' = "catalog" /\ UNCHANGED <<files, written>>
    BY <1>3 DEF WritePage, GoTo
  <2>2. /\ Files' = Files /\ Listed' = Listed /\ Sealed' = Sealed /\ SameMemory
        /\ EntriesOk(catalog)' /\ \A p \in PageId : page'[p] \subseteq hot' \cup Sealed'
    BY <1>1, <2>1, FilesFrame DEF IInv, Sound
  <2>3. TypeOK'
    BY <1>1, <2>1, <2>2, TypeFacts DEF IInv, files, TypeOK, Listed
  <2>4. Sealing' /\ Extended' = Extended
    BY <1>1, <1>2, <2>1, SealingFrame
  <2>5. Sound'
    BY <1>1, <1>2, <1>3, <2>1, <2>2, <2>4 DEF IInv, Sound, Steps, Rebuilt, files, SealStep
  <2>6. ASSUME intact' PROVE Whole'
    <3>1. Whole /\ intact
      BY <1>1, <2>6 DEF IInv
    <3>2. Apart(DOMAIN orig.catalog, written, orig.next)'
      BY <1>1, <2>1, <3>1, ApartFrame DEF Whole
    <3> QED
      BY <1>1, <3>1, <3>2 DEF Whole
  <2> QED
    BY <2>2, <2>3, <2>5, <2>6 DEF IInv
<1>4. CASE written # DOMAIN build
  <2> DEFINE p == Lowest(DOMAIN build \ written)
  <2>1. /\ p \in DOMAIN build \ written /\ p \in PageId
        /\ page[p] = {} /\ page' = [page EXCEPT ![p] = build[p]]
        /\ codec' = [codec EXCEPT ![p] = man.codec]
        /\ written' = written \cup {p} /\ step' = step
    BY <1>2, <1>4, NextPage DEF WritePage, Refused, Sealing
  <2>2. build[p] \in SUBSET hot /\ build[p] # {} /\ man.codec \in Codec
    BY <1>2, <2>1, ManifestFields DEF Sealing, IInv, TypeOK
  <2> HIDE DEF p
  <2>3. /\ page \in [PageId -> SUBSET Cell] /\ codec \in [PageId -> Codec \cup {"none"}]
        /\ hot \subseteq Cell
    BY DEF IInv, TypeOK
  <2>4. p \notin Files /\ Files' = Files \cup {p}
    BY <2>1, <2>2, <2>3 DEF Files
  <2>5. p \notin DOMAIN orig.catalog /\ Listed' = Listed /\ p \notin Listed
    BY <1>1, <1>2, <2>4 DEF Sealing, EntriesOk, Listed
  <2>6. Sealed' = Sealed
    BY <2>1, <2>3, <2>5 DEF Sealed, CellsIn
  <2>7. EntriesOk(orig.catalog)'
    BY <1>1, <1>2, <2>1, <2>3, <2>4, <2>5 DEF Sealing, EntriesOk, EntryOnDisk, Files
  <2>8. TypeOK'
    BY <1>1, <2>1, <2>2, <2>3, <2>5, TypeFacts DEF IInv, TypeOK, Listed
  <2>9. Sealing'
    <3>1. written' \subseteq DOMAIN build
      BY <1>2, <2>1 DEF Sealing
    <3>2. \A q \in written' : page'[q] = build[q] /\ codec'[q] = man.codec
                              /\ q \notin DOMAIN orig.catalog
      BY <1>2, <2>1, <2>3, <2>5 DEF Sealing, PageId
    <3> QED
      BY <1>1, <1>2, <2>7, <3>1, <3>2 DEF Sealing, Disjoint, CellsIn
  <2>10. Sound'
    <3>1. \A q \in PageId : page'[q] \subseteq hot' \cup Sealed'
      BY <1>1, <2>1, <2>2, <2>3, <2>6 DEF IInv, Sound
    <3>2. \A q \in Files' : codec'[q] \in Codec
      BY <2>1, <2>2, <2>3, <2>4 DEF IInv, Sound, Files
    <3> QED
      BY <1>1, <1>2, <2>1, <2>7, <2>9, <3>1, <3>2 DEF IInv, Sound, Steps, Rebuilt, SealStep
  <2>11. ASSUME intact' PROVE Whole'
    <3>1. Whole /\ intact
      BY <1>1, <2>11 DEF IInv
    <3>2. Apart(DOMAIN orig.catalog, written, orig.next)'
      BY <1>1, <2>1, <2>3, <2>4, <2>5, <3>1 DEF Whole, Apart, Disjoint, CellsIn
    <3> QED
      BY <1>1, <3>1, <3>2 DEF Whole
  <2> QED
    BY <1>1, <2>6, <2>8, <2>10, <2>11 DEF IInv, SameMemory
<1> QED
  BY <1>3, <1>4

\* The pages of a catalog are among the files, with the cells their entries
\* name.
LEMMA EntriesType ==
    ASSUME IInv, NEW cat, EntriesOk(cat), NEW p \in DOMAIN cat
    PROVE  p \in PageId /\ page[p] # {} /\ cat[p] \in [codec : Codec, cells : SUBSET Cell]
<1>1. p \in PageId /\ page[p] # {} /\ p \in Files /\ cat[p] = EntryOnDisk(p)
  BY DEF EntriesOk, Files
<1>2. codec[p] \in Codec /\ page[p] \in SUBSET Cell
  BY <1>1 DEF IInv, Sound, TypeOK
<1> QED
  BY <1>1, <1>2 DEF EntryOnDisk

\* The catalog a call saves is true of the page files, and what it lists and
\* the hot cells are together what they were.
LEMMA NewCatalogFacts ==
    ASSUME IInv, step = "catalog"
    PROVE  /\ EntriesOk(NewCatalog)
           /\ hot \cup CellsIn(page, DOMAIN NewCatalog) = hot \cup Sealed
           /\ job = "seal" => NewCatalog = Extended
           /\ job = "undo" => NewCatalog = orig.catalog
           /\ job = "rebuild" => DOMAIN NewCatalog = Files
           /\ job = "index" => NewCatalog = catalog
<1>1. job \in {"seal", "undo", "rebuild", "index"}
  BY JobOf
<1>2. CASE job = "seal"
  <2>1. NewCatalog = Extended
    BY <1>2 DEF NewCatalog, Extended
  <2>2. SealStep /\ Sealing /\ written = DOMAIN build /\ catalog = orig.catalog
    BY <1>2 DEF IInv, Sound, SealStep
  <2>3. DOMAIN Extended = DOMAIN orig.catalog \cup DOMAIN build
    BY DEF Extended
  <2>4. ASSUME NEW p \in DOMAIN Extended
        PROVE  p \in Files /\ Extended[p] = EntryOnDisk(p)
    <3>1. CASE p \in DOMAIN build
      BY <2>2, <3>1 DEF Sealing, Extended, NewEntry, EntryOnDisk, Files
    <3>2. CASE p \notin DOMAIN build
      BY <2>2, <2>3, <2>4, <3>2 DEF Sealing, Extended, EntriesOk
    <3> QED
      BY <3>1, <3>2
  <2>5. CellsIn(page, DOMAIN build) = hot
    <3>1. CellsIn(build, DOMAIN build) = hot /\ \A p \in DOMAIN build : page[p] = build[p]
      BY <2>2 DEF Sealing
    <3>2. CellsIn(page, DOMAIN build) = CellsIn(build, DOMAIN build)
      BY <3>1 DEF CellsIn
    <3> QED
      BY <3>1, <3>2
  <2>6. CellsIn(page, DOMAIN Extended) = CellsIn(page, DOMAIN orig.catalog) \cup CellsIn(page, DOMAIN build)
    BY <2>3 DEF CellsIn
  <2>7. hot \cup CellsIn(page, DOMAIN Extended) = hot \cup Sealed
    BY <2>2, <2>5, <2>6 DEF Sealed, Listed
  <2> QED
    BY <1>2, <2>1, <2>4, <2>7 DEF EntriesOk
<1>3. CASE job = "undo"
  <2>1. NewCatalog = orig.catalog
    BY <1>3 DEF NewCatalog
  <2>2. UndoStep /\ Sealing /\ written = {}
    BY <1>3 DEF IInv, Sound, UndoStep
  <2>3. CASE catalog = orig.catalog
    BY <1>3, <2>1, <2>2, <2>3 DEF Sealing, Sealed, Listed
  <2>4. CASE catalog # orig.catalog
    <3>1. Listed = DOMAIN orig.catalog \cup DOMAIN build
      BY <2>2, <2>4 DEF UndoStep, Extended, Listed
    <3>2. \A p \in DOMAIN build \ DOMAIN orig.catalog : page[p] = {}
      BY <2>2, <2>4 DEF UndoStep
    <3>3. \A c : c \in CellsIn(page, Listed) <=> c \in CellsIn(page, DOMAIN orig.catalog)
      BY <3>1, <3>2 DEF CellsIn
    <3>4. Sealed = CellsIn(page, DOMAIN orig.catalog)
      BY <3>3 DEF Sealed
    <3> QED
      BY <1>3, <2>1, <2>2, <3>4 DEF Sealing
  <2> QED
    BY <2>3, <2>4
<1>4. CASE job = "rebuild"
  <2>1. NewCatalog = [p \in Files |-> EntryOnDisk(p)]
    BY <1>4 DEF NewCatalog
  <2>2. DOMAIN NewCatalog = Files /\ EntriesOk(NewCatalog)
    BY <2>1 DEF EntriesOk
  <2>3. Listed \subseteq Files /\ \A p \in Files : page[p] \subseteq hot \cup Sealed
    BY <1>4 DEF IInv, Sound, EntriesOk, Listed, Files
  <2>4. hot \cup CellsIn(page, Files) = hot \cup Sealed
    BY <2>3, InCells DEF Sealed
  <2> QED
    BY <1>4, <2>2, <2>4
<1>5. CASE job = "index"
  <2>1. NewCatalog = catalog
    BY <1>5 DEF NewCatalog
  <2> QED
    BY <1>5, <2>1 DEF IInv, Sound, Sealed, Listed
<1> QED
  BY <1>1, <1>2, <1>3, <1>4, <1>5

LEMMA SaveCatalogStep == IInv /\ SaveCatalog => IInv' /\ SameMemory
<1> SUFFICES ASSUME IInv, SaveCatalog PROVE IInv' /\ SameMemory
  OBVIOUS
<1>1. /\ step = "catalog" /\ job \in {"seal", "undo", "rebuild", "index"}
      /\ catalog' = NewCatalog /\ label' = man.kind
      /\ UNCHANGED <<files, indexes, disk, hot, up, man, budget, intact>>
      /\ IF job = "index" THEN job' = "none" /\ step' = "none" ELSE job' = job /\ step' = "exact"
      /\ job # "index" => UNCHANGED <<build, written, orig>>
      /\ job = "index" => written' = {} /\ orig' = [catalog |-> NoPages, next |-> 1]
  BY JobOf DEF SaveCatalog, GoTo, Return
<1> USE DEF indexes
<1>2. Files' = Files
  BY <1>1 DEF files, Files
<1>3. EntriesOk(catalog)'
  BY <1>1, <1>2, NewCatalogFacts DEF EntriesOk, EntryOnDisk, files
<1>4. SameMemory
  BY <1>1, NewCatalogFacts DEF SameMemory, Sealed, Listed, CellsIn, files
<1>5. \A p \in PageId : page'[p] \subseteq hot' \cup Sealed'
  BY <1>1, <1>4 DEF IInv, Sound, files, SameMemory
<1>6. TypeOK'
  <2>1. man.kind \in Kind
    BY ManifestFields DEF IInv, TypeOK
  <2>2. Listed' \subseteq PageId /\ \A p \in Listed' : catalog'[p] \in [codec : Codec, cells : SUBSET Cell]
    BY <1>1, NewCatalogFacts, EntriesType DEF Listed
  <2>3. DOMAIN orig'.catalog \subseteq PageId /\ orig'.next \in 1 .. MaxPage + 1 /\ written' \subseteq PageId
    BY <1>1, BoundsAssumption DEF IInv, TypeOK, NoPages
  <2> QED
    BY <1>1, <2>1, <2>2, <2>3, TypeFacts DEF IInv, TypeOK, files, Jobs
<1>7. job \in {"seal", "undo"} => Sealing' /\ Extended' = Extended
  BY <1>1, SealingFrame DEF IInv, Sound, SealStep, UndoStep
<1>8. Sound'
  BY <1>1, <1>2, <1>3, <1>5, <1>7, NewCatalogFacts
     DEF IInv, Sound, Steps, Rebuilt, SealStep, UndoStep, files, Listed
<1>9. ASSUME intact' PROVE Whole'
  <2>1. Whole /\ intact
    BY <1>1, <1>9 DEF IInv
  <2>2. CASE job \in {"seal", "undo"}
    <3>1. Apart(DOMAIN orig.catalog, written, orig.next)'
      BY <1>1, <2>1, <2>2, ApartFrame DEF Whole
    <3> QED
      BY <1>1, <2>1, <2>2, <3>1 DEF Whole
  <2>3. CASE job \in {"rebuild", "index"}
    <3>1. Apart(Listed, {}, man.next)
      BY <2>1, <2>3 DEF Whole
    <3>2. Listed' = Listed
      BY <1>1, <2>3, <3>1, NewCatalogFacts DEF Apart, Listed
    <3>3. Apart(Listed, {}, man.next)'
      BY <1>1, <3>1, <3>2, ApartFrame
    <3>4. job = "index" => (IndexOk /\ StatisticsOk)'
      BY <1>1, <3>2 DEF IInv, Sound, Rebuilt, IndexOk, StatisticsOk, Active
    <3> QED
      BY <1>1, <2>1, <2>3, <3>3, <3>4 DEF Whole
  <2> QED
    BY <1>1, <2>2, <2>3
<1> QED
  BY <1>4, <1>6, <1>8, <1>9 DEF IInv

\* The indexes are rebuilt one after the other, from the listed pages.
LEMMA IndexStep == IInv /\ (RebuildExact \/ RebuildFuse \/ RebuildLexical) => IInv' /\ SameMemory
<1> SUFFICES ASSUME IInv, RebuildExact \/ RebuildFuse \/ RebuildLexical PROVE IInv' /\ SameMemory
  OBVIOUS
<1>1. /\ step \in {"exact", "fuse", "lexical"} /\ job \in {"seal", "undo", "rebuild", "index"}
      /\ UNCHANGED <<files, listing, disk, hot, up, man, budget, intact>>
      /\ exact' \in {exact, Listed} /\ fuse' \in {fuse, Listed} /\ lexical' \in {lexical, Listed}
  BY JobOf DEF RebuildExact, RebuildFuse, RebuildLexical
<1>2. \/ /\ job' = job /\ UNCHANGED <<build, written, orig>>
         /\ step = "exact" => \/ step' = "fuse" /\ man.kind = "fuse"
                              \/ step' = "lexical" /\ man.kind # "fuse"
         /\ step = "fuse" => step' = "lexical"
         /\ step = "lexical" => \/ step' = "catalog" /\ job = "index"
                                \/ step' = "manifest" /\ job \in {"seal", "undo"}
      \/ /\ job = "rebuild" /\ step = "lexical" /\ job' = "none" /\ step' = "none"
         /\ written' = {} /\ orig' = [catalog |-> NoPages, next |-> 1]
  <2>1. CASE RebuildExact
    BY <1>1, <2>1 DEF RebuildExact, GoTo
  <2>2. CASE RebuildFuse
    BY <1>1, <2>2 DEF RebuildFuse, GoTo
  <2>3. CASE RebuildLexical
    <3>1. CASE job = "seal"
      BY <2>3, <3>1 DEF RebuildLexical, GoTo
    <3>2. CASE job = "undo"
      BY <2>3, <3>2 DEF RebuildLexical, GoTo
    <3>3. CASE job = "rebuild"
      BY <2>3, <3>3 DEF RebuildLexical, Return
    <3>4. CASE job = "index"
      BY <2>3, <3>4 DEF RebuildLexical, GoTo
    <3> QED
      BY <1>1, <3>1, <3>2, <3>3, <3>4
  <2> QED
    BY <2>1, <2>2, <2>3
<1>3. /\ step = "exact" => exact' = Listed /\ UNCHANGED <<fuse, lexical>>
      /\ step = "fuse" => fuse' = Listed /\ UNCHANGED <<exact, lexical>>
      /\ step = "lexical" => lexical' = Listed /\ UNCHANGED <<exact, fuse>>
  BY DEF RebuildExact, RebuildFuse, RebuildLexical
<1> USE DEF listing
<1>4. /\ Files' = Files /\ Listed' = Listed /\ Sealed' = Sealed /\ SameMemory
      /\ EntriesOk(catalog) => EntriesOk(catalog)'
      /\ \A p \in PageId : page'[p] \subseteq hot' \cup Sealed'
  BY <1>1, FilesFrame DEF IInv, Sound
<1>5. TypeOK'
  <2>1. DOMAIN orig'.catalog \subseteq PageId /\ orig'.next \in 1 .. MaxPage + 1
        /\ written' \subseteq PageId /\ job' \in Jobs
    <3>1. CASE job' = job /\ UNCHANGED <<build, written, orig>>
      BY <3>1, TypeFacts DEF IInv
    <3>2. CASE job' = "none" /\ written' = {} /\ orig' = [catalog |-> NoPages, next |-> 1]
      BY <3>2, BoundsAssumption DEF NoPages, Jobs
    <3> QED
      BY <1>2, <3>1, <3>2
  <2>2. exact' \subseteq PageId /\ fuse' \subseteq PageId /\ lexical' \subseteq PageId
    BY <1>1 DEF IInv, TypeOK
  <2> QED
    BY <1>1, <1>4, <2>1, <2>2, TypeFacts DEF IInv, TypeOK, files, Listed
<1>6. job \in {"seal", "undo"} => Sealing' /\ Extended' = Extended
  BY <1>1, <1>2, SealingFrame DEF IInv, Sound, SealStep, UndoStep
<1>7. step = "lexical" => (IndexOk /\ StatisticsOk)'
  <2>1. man.kind \in Kind
    BY ManifestFields DEF IInv, TypeOK
  <2>2. step = "lexical" => exact = Listed /\ (man.kind = "fuse" => fuse = Listed)
    BY DEF IInv, Sound, Rebuilt
  <2> QED
    BY <1>1, <1>3, <1>4, <2>1, <2>2 DEF IndexOk, Active, StatisticsOk, Kind
<1>8. Rebuilt'
  <2>1. step = "fuse" => exact = Listed /\ man.kind = "fuse"
    BY DEF IInv, Sound, Rebuilt
  <2>2. job = "rebuild" => Listed = Files
    BY <1>1 DEF IInv, Sound, Rebuilt
  <2>3. CASE job' = job
    BY <1>1, <1>2, <1>3, <1>4, <1>7, <2>1, <2>2, <2>3 DEF Rebuilt
  <2>4. CASE job' = "none" /\ step' = "none"
    BY <2>4 DEF Rebuilt
  <2> QED
    BY <1>2, <2>3, <2>4
<1>9. Sound'
  <2>1. job' \in DOMAIN Steps /\ step' \in Steps[job']
    BY <1>1, <1>2, StepTable
  <2>6. job' # "none" => up'
    BY <1>1, <1>2 DEF IInv, Sound
  <2>2. \A p \in Files' : codec'[p] \in Codec
    BY <1>1, <1>4 DEF IInv, Sound, files
  <2>3. job' # "undo" => EntriesOk(catalog)'
    BY <1>1, <1>2, <1>4 DEF IInv, Sound
  <2>4. job' = "seal" => SealStep'
    <3> HAVE job' = "seal"
    <3>1. job = "seal" /\ SealStep /\ UNCHANGED <<build, written, orig, catalog, man>>
      BY <1>1, <1>2 DEF IInv, Sound
    <3> QED
      BY <1>1, <1>2, <1>6, <3>1 DEF SealStep
  <2>5. job' = "undo" => UndoStep'
    BY <1>1, <1>2, <1>4, <1>6 DEF IInv, Sound, UndoStep
  <2> QED
    BY <1>4, <1>8, <2>1, <2>2, <2>3, <2>4, <2>5, <2>6 DEF Sound
<1>10. ASSUME intact' PROVE Whole'
  <2>1. Whole /\ intact
    BY <1>1, <1>10 DEF IInv
  <2>2. CASE job \in {"seal", "undo"}
    <3>1. job' = job /\ Apart(DOMAIN orig.catalog, written, orig.next)'
      BY <1>1, <1>2, <2>1, <2>2, ApartFrame DEF Whole
    <3> QED
      BY <1>1, <2>1, <2>2, <3>1 DEF Whole
  <2>3. CASE job \in {"rebuild", "index"}
    <3>1. job' \notin {"seal", "undo"} /\ Apart(Listed, {}, man.next)'
      BY <1>1, <1>2, <1>4, <2>1, <2>3, ApartFrame DEF Whole
    <3>2. job = "rebuild" => man' = disk' /\ label' = man'.kind
      BY <1>1, <2>1 DEF Whole
    <3>3. job = "index" => job' = "index" /\ man' = disk'
      BY <1>1, <1>2, <2>1 DEF Whole
    <3> QED
      BY <1>2, <1>7, <2>3, <3>1, <3>2, <3>3 DEF Whole
  <2> QED
    BY <1>1, <2>2, <2>3
<1> QED
  BY <1>4, <1>5, <1>9, <1>10 DEF IInv

\* Where the call goes from the manifest save, and what it has saved.
LEMMA SaveManifestFacts ==
    ASSUME IInv, SaveManifest
    PROVE  /\ step = "manifest" /\ job \in {"seal", "undo", "index", "codec"}
           /\ UNCHANGED <<files, listing, indexes, hot, up, budget, intact>>
           /\ man' \in Manifest /\ disk' = man' /\ man'.kind = man.kind /\ man'.codec = man.codec
           /\ man'.next = IF job = "seal" THEN NextAfter(build, orig.next) ELSE man.next
           /\ job # "seal" => man' = man
           /\ \/ job = "seal" /\ job' = job /\ step' = "archive" /\ UNCHANGED <<build, written, orig>>
              \/ job = "index" /\ job' = job /\ step' = "exact" /\ UNCHANGED <<build, written, orig>>
              \/ /\ job \in {"undo", "codec"} /\ job' = "none" /\ step' = "none"
                 /\ written' = {} /\ orig' = [catalog |-> NoPages, next |-> 1]
<1>1. /\ step = "manifest" /\ job \in {"seal", "undo", "index", "codec"}
      /\ UNCHANGED <<files, listing, indexes, hot, up, budget, intact>> /\ disk' = man'
      /\ man' = IF job = "seal" THEN [man EXCEPT !.next = NextAfter(build, @)] ELSE man
  BY JobOf DEF SaveManifest
<1>2. man \in Manifest /\ man.next \in 1 .. MaxPage + 1 /\ man.kind \in Kind /\ man.codec \in Codec
  BY ManifestFields DEF IInv, TypeOK
<1>3. CASE job = "seal"
  <2>1. man.next = orig.next /\ NextAfter(build, orig.next) \in 1 .. MaxPage + 1
    BY <1>1, <1>3 DEF IInv, Sound, SealStep, Sealing
  <2>2. man' = [next |-> NextAfter(build, orig.next), kind |-> man.kind, codec |-> man.codec]
    BY <1>1, <1>2, <1>3, <2>1 DEF Manifest
  <2>3. man' \in Manifest
    BY <1>2, <2>1, <2>2 DEF Manifest
  <2> QED
    BY <1>1, <1>3, <2>2, <2>3 DEF SaveManifest, GoTo
<1>4. CASE job = "undo"
  BY <1>1, <1>2, <1>4 DEF SaveManifest, Return
<1>5. CASE job = "index"
  BY <1>1, <1>2, <1>5 DEF SaveManifest, GoTo
<1>6. CASE job = "codec"
  BY <1>1, <1>2, <1>6 DEF SaveManifest, Return
<1> QED
  BY <1>1, <1>3, <1>4, <1>5, <1>6

LEMMA SaveManifestStep == IInv /\ SaveManifest => IInv' /\ SameMemory
<1> SUFFICES ASSUME IInv, SaveManifest PROVE IInv' /\ SameMemory
  OBVIOUS
<1>1. /\ step = "manifest" /\ job \in {"seal", "undo", "index", "codec"}
      /\ UNCHANGED <<files, listing, indexes, hot, up, budget, intact>>
      /\ man' \in Manifest /\ disk' = man' /\ man'.kind = man.kind /\ man'.codec = man.codec
      /\ man'.next = IF job = "seal" THEN NextAfter(build, orig.next) ELSE man.next
      /\ job # "seal" => man' = man
  BY SaveManifestFacts
<1>2. \/ job = "seal" /\ job' = job /\ step' = "archive" /\ UNCHANGED <<build, written, orig>>
      \/ job = "index" /\ job' = job /\ step' = "exact" /\ UNCHANGED <<build, written, orig>>
      \/ /\ job \in {"undo", "codec"} /\ job' = "none" /\ step' = "none"
         /\ written' = {} /\ orig' = [catalog |-> NoPages, next |-> 1]
  BY SaveManifestFacts
<1> USE DEF listing, indexes
<1>3. /\ Files' = Files /\ Listed' = Listed /\ Sealed' = Sealed /\ SameMemory
      /\ EntriesOk(catalog) /\ EntriesOk(catalog)'
      /\ \A p \in PageId : page'[p] \subseteq hot' \cup Sealed'
  BY <1>1, FilesFrame, ListedPages DEF IInv, Sound
<1>4. TypeOK'
  <2>1. DOMAIN orig'.catalog \subseteq PageId /\ orig'.next \in 1 .. MaxPage + 1
        /\ written' \subseteq PageId /\ job' \in Jobs
    <3>1. CASE job' = job /\ UNCHANGED <<build, written, orig>>
      BY <3>1, TypeFacts DEF IInv
    <3>2. CASE job' = "none" /\ written' = {} /\ orig' = [catalog |-> NoPages, next |-> 1]
      BY <3>2, BoundsAssumption DEF NoPages, Jobs
    <3> QED
      BY <1>2, <3>1, <3>2
  <2> QED
    BY <1>1, <1>3, <2>1, TypeFacts DEF IInv, TypeOK, files, Listed
<1>5. job = "seal" => Sealing' /\ Extended' = Extended
  BY <1>1, <1>2, SealingFrame DEF IInv, Sound, SealStep
<1>6. job \in {"seal", "undo"} => IndexOk /\ StatisticsOk
  BY <1>1 DEF IInv, Sound, Rebuilt
<1>7. Sound'
  <2>1. job' \in DOMAIN Steps /\ step' \in Steps[job'] /\ job' # "undo"
    BY <1>1, <1>2, StepTable
  <2>2. (job' # "none" => up') /\ \A p \in Files' : codec'[p] \in Codec
    BY <1>1, <1>2, <1>3 DEF IInv, Sound, files
  <2>3. job' = "seal" => SealStep'
    BY <1>1, <1>2, <1>5 DEF IInv, Sound, SealStep
  <2>4. Rebuilt'
    BY <1>1, <1>2, <1>3, <1>6 DEF Rebuilt, IndexOk, Active, StatisticsOk
  <2> QED
    BY <1>3, <2>1, <2>2, <2>3, <2>4 DEF Sound
<1>8. ASSUME intact' PROVE Whole'
  <2>1. Whole /\ intact
    BY <1>1, <1>8 DEF IInv
  <2>2. CASE job = "seal"
    <3>1. job' = "seal" /\ Apart(DOMAIN orig.catalog, written, orig.next)'
      BY <1>1, <1>2, <2>1, <2>2, ApartFrame DEF Whole
    <3> QED
      BY <1>1, <2>1, <2>2, <3>1 DEF Whole
  <2>3. CASE job = "undo"
    <3>1. catalog = orig.catalog /\ written = {} /\ man.next = orig.next
      BY <1>1, <2>3 DEF IInv, Sound, UndoStep
    <3>2. job' = "none" /\ Apart(Listed, {}, man.next)'
      BY <1>1, <1>2, <1>3, <2>1, <2>3, <3>1, ApartFrame DEF Whole, Listed
    <3>3. label' = man'.kind /\ (IndexOk /\ StatisticsOk)'
      BY <1>1, <1>3, <1>6, <2>1, <2>3 DEF Whole, IndexOk, Active, StatisticsOk
    <3> QED
      BY <1>1, <3>2, <3>3 DEF Whole
  <2>4. CASE job \in {"index", "codec"}
    <3>1. job' \notin {"seal", "undo"} /\ Apart(Listed, {}, man.next)'
      BY <1>1, <1>2, <1>3, <2>1, <2>4, ApartFrame DEF Whole
    <3>2. job = "codec" => label' = man'.kind /\ (IndexOk /\ StatisticsOk)'
      BY <1>1, <1>3, <2>1 DEF Whole, IndexOk, Active, StatisticsOk
    <3>3. job = "index" => job' = "index" /\ man' = disk'
      BY <1>1, <1>2
    <3> QED
      BY <1>1, <1>2, <2>4, <3>1, <3>2, <3>3 DEF Whole
  <2> QED
    BY <1>1, <2>2, <2>3, <2>4
<1> QED
  BY <1>3, <1>4, <1>7, <1>8 DEF IInv

\* The hot cells may go: the catalog that lists them all is on disk.
LEMMA ArchiveLogStep == IInv /\ ArchiveLog => IInv' /\ SameMemory
<1> SUFFICES ASSUME IInv, ArchiveLog PROVE IInv' /\ SameMemory
  OBVIOUS
<1>1. /\ step = "archive" /\ job = "seal" /\ hot' = {} /\ job' = "none" /\ step' = "none"
      /\ written' = {} /\ orig' = [catalog |-> NoPages, next |-> 1]
      /\ UNCHANGED <<files, listing, indexes, disk, up, man, budget, intact>>
  BY JobOf DEF ArchiveLog, Return
<1>2. /\ Sealing /\ catalog = Extended /\ written = DOMAIN build
      /\ man.next = NextAfter(build, orig.next) /\ IndexOk /\ StatisticsOk
      /\ EntriesOk(catalog)
  BY <1>1 DEF IInv, Sound, SealStep, Rebuilt
<1> USE DEF listing, indexes
<1>3. Files' = Files /\ Listed' = Listed /\ Sealed' = Sealed
  BY <1>1 DEF Files, files, Listed, Sealed, CellsIn
<1>4. Listed = DOMAIN orig.catalog \cup DOMAIN build
  BY <1>2 DEF Listed, Extended
<1>5. /\ CellsIn(build, DOMAIN build) = hot /\ Disjoint(build, DOMAIN build)
      /\ \A p \in DOMAIN build : page[p] = build[p]
  BY <1>2 DEF Sealing
<1>6. hot \subseteq Sealed
  BY <1>4, <1>5 DEF Sealed, CellsIn
<1>7. SameMemory
  BY <1>1, <1>3, <1>6 DEF SameMemory
<1>8. TypeOK'
  BY <1>1, <1>3, BoundsAssumption, TypeFacts DEF IInv, TypeOK, files, Listed, NoPages, Jobs
<1>9. Sound'
  <2>1. \A p \in PageId : page'[p] \subseteq hot' \cup Sealed'
    BY <1>1, <1>7 DEF IInv, Sound, files, SameMemory
  <2>2. EntriesOk(catalog)' /\ \A p \in Files' : codec'[p] \in Codec
    BY <1>1, <1>2, <1>3 DEF IInv, Sound, files, EntriesOk, EntryOnDisk
  <2> QED
    BY <1>1, <2>1, <2>2, StepTable DEF Sound, Rebuilt
<1>10. ASSUME intact' PROVE Whole'
  <2>1. Whole /\ intact
    BY <1>1, <1>10 DEF IInv
  <2>2. Apart(DOMAIN orig.catalog, DOMAIN build, orig.next)
    BY <1>1, <1>2, <2>1 DEF Whole
  <2>3. ASSUME NEW p \in Listed PROVE p < man.next
    <3>1. orig.next \in Int /\ man.next \in Int /\ orig.next <= man.next
      BY <1>2, ManifestFields DEF IInv, TypeOK, Sealing
    <3>2. CASE p \in DOMAIN build
      BY <1>2, <3>1, <3>2 DEF Sealing
    <3>3. CASE p \in DOMAIN orig.catalog
      <4>1. p \in Int /\ p < orig.next
        BY <2>2, <3>3, BoundsAssumption DEF Apart, Files, PageId
      <4> QED
        BY <3>1, <4>1
    <3> QED
      BY <1>4, <3>2, <3>3
  <2>4. Disjoint(page, Listed)
    <3> SUFFICES ASSUME NEW p \in Listed, NEW q \in Listed, p # q PROVE page[p] \cap page[q] = {}
      BY DEF Disjoint
    <3>1. \A b \in DOMAIN build : page[b] \subseteq hot
      BY <1>5, InCells
    <3>2. \A o \in DOMAIN orig.catalog : page[o] \cap hot = {}
      BY <2>2, InCells DEF Apart
    <3>3. CASE p \in DOMAIN build /\ q \in DOMAIN build
      BY <1>5, <3>3 DEF Disjoint
    <3>4. CASE p \in DOMAIN orig.catalog /\ q \in DOMAIN orig.catalog
      BY <2>2, <3>4 DEF Apart, Disjoint
    <3> QED
      BY <1>4, <3>1, <3>2, <3>3, <3>4
  <2>5. Apart(Listed, {}, man.next)'
    BY <1>1, <1>3, <1>4, <2>2, <2>3, <2>4 DEF Apart, Disjoint, files
  <2>6. (IndexOk /\ StatisticsOk)'
    BY <1>1, <1>2, <1>3 DEF IndexOk, Active, StatisticsOk
  <2> QED
    BY <1>1, <2>1, <2>5, <2>6 DEF Whole
<1> QED
  BY <1>7, <1>8, <1>9, <1>10 DEF IInv

\* A rollback takes away pages that the old catalog does not list, with cells
\* that are hot still.
LEMMA RemovePageStep == IInv /\ RemovePage => IInv' /\ SameMemory
<1> SUFFICES ASSUME IInv, RemovePage PROVE IInv' /\ SameMemory
  OBVIOUS
<1>1. /\ step = "remove" /\ job = "undo" /\ UndoStep /\ Sealing
      /\ UNCHANGED <<listing, indexes, disk, hot, up, man, job, build, orig, budget, intact>>
  BY JobOf DEF RemovePage, GoTo, IInv, Sound, UndoStep
<1> USE DEF listing, indexes
<1>2. CASE written = {}
  <2>1. step' = "catalog" /\ UNCHANGED <<files, written>>
    BY <1>2 DEF RemovePage, GoTo
  <2>2. /\ Files' = Files /\ Listed' = Listed /\ Sealed' = Sealed /\ SameMemory
        /\ \A p \in PageId : page'[p] \subseteq hot' \cup Sealed'
    BY <1>1, <2>1, FilesFrame DEF IInv, Sound
  <2>3. TypeOK'
    BY <1>1, <2>1, <2>2, TypeFacts DEF IInv, files, TypeOK, Listed
  <2>4. Sealing' /\ Extended' = Extended
    BY <1>1, <2>1, SealingFrame
  <2>5. Sound'
    BY <1>1, <1>2, <2>1, <2>2, <2>4, StepTable DEF IInv, Sound, Rebuilt, files, UndoStep
  <2>6. ASSUME intact' PROVE Whole'
    <3>1. Whole /\ intact
      BY <1>1, <2>6 DEF IInv
    <3>2. Apart(DOMAIN orig.catalog, written, orig.next)'
      BY <1>1, <2>1, <3>1, ApartFrame DEF Whole
    <3> QED
      BY <1>1, <3>1, <3>2 DEF Whole
  <2> QED
    BY <2>2, <2>3, <2>5, <2>6 DEF IInv
<1>3. CASE written # {}
  <2>1. PICK p \in written : /\ page' = [page EXCEPT ![p] = {}]
                             /\ codec' = [codec EXCEPT ![p] = "none"]
                             /\ written' = written \ {p} /\ step' = step
    BY <1>3 DEF RemovePage
  <2>2. /\ p \in DOMAIN build /\ p \in PageId /\ p \notin DOMAIN orig.catalog
        /\ page[p] = build[p] /\ page[p] \subseteq hot
    BY <1>1 DEF Sealing
  <2>3. /\ page \in [PageId -> SUBSET Cell] /\ codec \in [PageId -> Codec \cup {"none"}]
        /\ page'[p] = {} /\ \A q \in PageId \ {p} : page'[q] = page[q] /\ codec'[q] = codec[q]
    BY <2>1, <2>2 DEF IInv, TypeOK
  <2>4. Files' = Files \ {p} /\ Listed' = Listed
    BY <1>1, <2>2, <2>3 DEF Files, Listed
  <2>5. Listed \subseteq PageId
    BY TypeFacts DEF IInv
  <2>6. SameMemory
    <3>1. \A c : c \in hot \cup CellsIn(page', Listed) <=> c \in hot \cup CellsIn(page, Listed)
      BY <2>2, <2>3, <2>5, InCells
    <3> QED
      BY <1>1, <2>4, <3>1 DEF SameMemory, Sealed
  <2>7. EntriesOk(orig.catalog)'
    BY <1>1, <2>2, <2>3, <2>4 DEF Sealing, EntriesOk, EntryOnDisk, Files
  <2>8. TypeOK'
    BY <1>1, <2>1, <2>2, <2>3, <2>4, TypeFacts DEF IInv, TypeOK, Listed
  <2>9. Sealing'
    <3>1. written' \subseteq DOMAIN build
      BY <1>1, <2>1 DEF Sealing
    <3>2. \A q \in written' : page'[q] = build[q] /\ codec'[q] = man.codec
                              /\ q \notin DOMAIN orig.catalog
      BY <1>1, <2>1, <2>3 DEF Sealing
    <3> QED
      BY <1>1, <2>7, <3>1, <3>2 DEF Sealing, Disjoint, CellsIn
  <2>10. UndoStep'
    <3>1. Extended' = Extended
      BY <1>1 DEF Extended, NewEntry
    <3>2. catalog # orig.catalog =>
            \A q \in DOMAIN build \ DOMAIN orig.catalog : q \in written' \/ page'[q] = {}
      BY <1>1, <2>1, <2>3 DEF UndoStep, Sealing
    <3> QED
      BY <1>1, <2>1, <2>9, <3>1, <3>2 DEF UndoStep
  <2>11. Sound'
    <3>1. \A q \in PageId : page'[q] \subseteq hot' \cup Sealed'
      BY <2>3, <2>6 DEF IInv, Sound, SameMemory
    <3>2. \A q \in Files' : codec'[q] \in Codec
      BY <2>3, <2>4 DEF IInv, Sound, Files
    <3> QED
      BY <1>1, <2>1, <2>10, <3>1, <3>2 DEF IInv, Sound, Rebuilt
  <2>12. ASSUME intact' PROVE Whole'
    <3>1. Whole /\ intact
      BY <1>1, <2>12 DEF IInv
    <3>2. Apart(DOMAIN orig.catalog, written, orig.next)
      BY <1>1, <3>1 DEF Whole
    <3>3. DOMAIN orig.catalog \subseteq PageId \ {p}
      BY <2>2, TypeFacts DEF IInv
    <3>4. \A q \in DOMAIN orig.catalog : page'[q] = page[q]
      BY <2>3, <3>3
    <3>5. CellsIn(page', DOMAIN orig.catalog) = CellsIn(page, DOMAIN orig.catalog)
      BY <3>4 DEF CellsIn
    <3>6. Apart(DOMAIN orig.catalog, written, orig.next)'
      BY <1>1, <2>1, <2>2, <2>4, <3>2, <3>4, <3>5 DEF Apart, Disjoint
    <3> QED
      BY <1>1, <3>1, <3>6 DEF Whole
  <2> QED
    BY <2>6, <2>8, <2>11, <2>12 DEF IInv
<1> QED
  BY <1>2, <1>3

-----------------------------------------------------------------------------
(* Errors, crashes, open.                                                  *)

\* A step that leaves the files alone and ends the running call, or finds
\* that none runs: what the catalog lists stays true and readable.
LEMMA CallEnds ==
    ASSUME IInv, job # "undo", UNCHANGED durable,
           job' = "none", step' = "none", written' = {}, orig' = [catalog |-> NoPages, next |-> 1],
           man' \in {man, disk}, up' \in BOOLEAN, budget' \in 0 .. MaxFaults,
           intact' => intact /\ job = "none"
    PROVE  IInv' /\ SameMemory
<1> USE DEF durable, listing, indexes
<1>1. /\ Files' = Files /\ Listed' = Listed /\ Sealed' = Sealed /\ SameMemory
      /\ EntriesOk(catalog)' /\ \A p \in PageId : page'[p] \subseteq hot' \cup Sealed'
  BY FilesFrame DEF IInv, Sound
<1>2. TypeOK'
  BY <1>1, BoundsAssumption, TypeFacts DEF IInv, TypeOK, files, Listed, NoPages, Jobs
<1>3. Sound'
  BY <1>1, StepTable DEF IInv, Sound, Rebuilt, files
<1>4. ASSUME intact' PROVE Whole'
  <2>1. Whole /\ man' = man
    BY <1>4 DEF IInv, Whole
  <2>2. Apart(Listed, {}, man.next)'
    BY <1>1, <1>4, <2>1, ApartFrame DEF Whole
  <2> QED
    BY <1>1, <1>4, <2>1, <2>2 DEF Whole, IndexOk, Active, StatisticsOk
<1> QED
  BY <1>1, <1>2, <1>3, <1>4 DEF IInv

\* A seal that meets an error begins its rollback.
LEMMA UndoStarts == IInv /\ StepFails /\ job = "seal" => IInv' /\ SameMemory
<1> SUFFICES ASSUME IInv, StepFails, job = "seal" PROVE IInv' /\ SameMemory
  OBVIOUS
<1> USE DEF durable, listing, indexes
<1>1. /\ job' = "undo" /\ step' = "remove" /\ man' = [man EXCEPT !.next = orig.next]
      /\ UNCHANGED <<durable, build, written, orig, up>> /\ (intact' => intact)
      /\ budget' = budget \/ (budget > 0 /\ budget' = budget - 1)
  BY DEF StepFails, IInv
<1>2. man' \in Manifest /\ man'.next = orig.next /\ man'.kind = man.kind /\ man'.codec = man.codec
  BY <1>1 DEF IInv, TypeOK, Manifest
<1>3. SealStep /\ Sealing
  BY DEF IInv, Sound, SealStep
<1>4. /\ Files' = Files /\ Listed' = Listed /\ Sealed' = Sealed /\ SameMemory
      /\ \A p \in PageId : page'[p] \subseteq hot' \cup Sealed'
  BY <1>1, FilesFrame DEF IInv, Sound
<1>5. budget' \in 0 .. MaxFaults
  BY <1>1, BoundsAssumption DEF IInv, TypeOK
<1>6. TypeOK'
  BY <1>1, <1>2, <1>4, <1>5, TypeFacts DEF IInv, TypeOK, files, Listed, Jobs
<1>7. Sealing' /\ Extended' = Extended
  BY <1>1, <1>2, <1>3, SealingFrame
<1>8. UndoStep'
  <2>1. CASE step \in {"write", "catalog"}
    BY <1>1, <1>2, <1>3, <1>7, <2>1 DEF UndoStep, SealStep
  <2>2. CASE step \notin {"write", "catalog"}
    BY <1>1, <1>2, <1>3, <1>7, <2>2 DEF UndoStep, SealStep
  <2> QED
    BY <2>1, <2>2
<1>9. Sound'
  BY <1>1, <1>4, <1>8, StepTable DEF IInv, Sound, Rebuilt, files
<1>10. ASSUME intact' PROVE Whole'
  <2>1. Whole /\ intact
    BY <1>1, <1>10 DEF IInv
  <2>2. Apart(DOMAIN orig.catalog, written, orig.next)'
    BY <1>1, <2>1, ApartFrame DEF Whole
  <2> QED
    BY <1>1, <1>2, <2>1, <2>2 DEF Whole
<1> QED
  BY <1>4, <1>6, <1>9, <1>10 DEF IInv

\* Without I/O errors of its own, no step of a rollback fails: the pages it
\* has to read are those that were there before the seal.
LEMMA UndoDoesNotFail ==
    ASSUME IInv, NoUndoFaults, StepFails
    PROVE  job # "undo"
<1> SUFFICES ASSUME job = "undo" PROVE FALSE
  OBVIOUS
<1>1. ~StepPossible
  BY DEF StepFails, NoUndoFaults
<1>2. step # "write"
  BY JobOf
<1>3. step = "exact" => PagesReadable
  BY ListedPages
<1> QED
  BY <1>1, <1>2, <1>3 DEF StepPossible, Refused

LEMMA StepFailsStep == IInv /\ NoUndoFaults /\ StepFails => IInv' /\ SameMemory
<1> SUFFICES ASSUME IInv, NoUndoFaults, StepFails, job # "seal" PROVE IInv' /\ SameMemory
  BY UndoStarts
<1>1. job # "undo" /\ job # "none"
  BY UndoDoesNotFail DEF StepFails
<1>2. /\ UNCHANGED <<man, durable, up>> /\ Return /\ ~intact'
      /\ budget' = budget \/ (budget > 0 /\ budget' = budget - 1)
  BY <1>1 DEF StepFails
<1>3. budget' \in 0 .. MaxFaults
  BY <1>2, BoundsAssumption DEF IInv, TypeOK
<1> QED
  BY <1>1, <1>2, <1>3, CallEnds DEF Return, IInv, TypeOK

LEMMA DownStep == IInv /\ NoUndoFaults /\ (Crash \/ Close) => IInv' /\ SameMemory
<1> SUFFICES ASSUME IInv, NoUndoFaults, Crash \/ Close PROVE IInv' /\ SameMemory
  OBVIOUS
<1>1. /\ job # "undo" /\ UNCHANGED durable /\ Return /\ man' = disk /\ up' = FALSE
      /\ intact' => intact /\ job = "none"
      /\ budget' = budget \/ (budget > 0 /\ budget' = budget - 1)
  <2>1. CASE Crash
    BY <2>1 DEF Crash, Down, NoUndoFaults
  <2>2. CASE Close
    <3>1. job = "none" /\ Down /\ UNCHANGED <<durable, budget, intact>>
      BY <2>2 DEF Close, Serving
    <3> QED
      BY <3>1 DEF Down
  <2> QED
    BY <2>1, <2>2
<1>2. budget' \in 0 .. MaxFaults
  BY <1>1, BoundsAssumption DEF IInv, TypeOK
<1> QED
  BY <1>1, <1>2, CallEnds DEF Return

LEMMA OpenStep == IInv /\ Open => IInv' /\ SameMemory
<1> SUFFICES ASSUME IInv, Open PROVE IInv' /\ SameMemory
  OBVIOUS
<1>1. job = "none" /\ step = "none"
  BY JobOf DEF Open, IInv, Sound
<1>2. up' = TRUE /\ UNCHANGED <<durable, man, call, budget, intact>>
  BY DEF Open
<1> USE DEF durable, listing, indexes, call
<1>3. /\ Files' = Files /\ Listed' = Listed /\ Sealed' = Sealed /\ SameMemory
      /\ EntriesOk(catalog)' /\ \A p \in PageId : page'[p] \subseteq hot' \cup Sealed'
  BY <1>1, <1>2, FilesFrame DEF IInv, Sound
<1>4. TypeOK'
  BY <1>2, <1>3, TypeFacts DEF IInv, TypeOK, files, Listed
<1>5. Sound'
  BY <1>1, <1>2, <1>3, StepTable DEF IInv, Sound, Rebuilt, files
<1>6. ASSUME intact' PROVE Whole'
  <2>1. Whole
    BY <1>2, <1>6 DEF IInv
  <2>2. Apart(Listed, {}, man.next)'
    BY <1>1, <1>2, <1>3, <2>1, ApartFrame DEF Whole
  <2> QED
    BY <1>1, <1>2, <1>3, <2>1, <2>2 DEF Whole, IndexOk, Active, StatisticsOk
<1> QED
  BY <1>3, <1>4, <1>5, <1>6 DEF IInv

-----------------------------------------------------------------------------
(* The theorems.                                                           *)

LEMMA EngineStepKeeps ==
    ASSUME NoUndoFaults, IInv, EngineStep
    PROVE  IInv' /\ SameMemory
BY WritePageStep, SaveCatalogStep, IndexStep, SaveManifestStep, ArchiveLogStep,
   RemovePageStep, StepFailsStep DEF EngineStep

LEMMA StutterKeeps == IInv /\ UNCHANGED vars => IInv' /\ SameMemory
<1> SUFFICES ASSUME IInv, UNCHANGED vars PROVE IInv' /\ SameMemory
  OBVIOUS
<1> USE DEF vars, durable, files, listing, indexes, call
<1>1. Files' = Files /\ Listed' = Listed /\ Sealed' = Sealed /\ SameMemory
  BY FilesFrame
<1>2. TypeOK'
  BY <1>1, TypeFacts DEF IInv, TypeOK, Listed
<1>3. Sealing => Sealing' /\ Extended' = Extended
  BY SealingFrame
<1>4. Sound'
  BY <1>1, <1>3 DEF IInv, Sound, Rebuilt, EntriesOk, EntryOnDisk, SealStep, UndoStep,
                    IndexOk, Active, StatisticsOk
<1>5. Whole => Whole'
  BY <1>1, ApartFrame DEF Whole, IndexOk, Active, StatisticsOk
<1> QED
  BY <1>1, <1>2, <1>4, <1>5 DEF IInv

\* Every step keeps the invariant, and all but remember keep the memory.
LEMMA NextKeeps ==
    ASSUME NoUndoFaults, IInv, [Next]_vars
    PROVE  IInv' /\ (SameMemory \/ \E c \in Cell : hot' \cup Sealed' = (hot \cup Sealed) \cup {c})
<1>1. ASSUME NEW c \in Cell, Remember(c)
      PROVE  IInv' /\ hot' \cup Sealed' = (hot \cup Sealed) \cup {c}
  BY <1>1, RememberStep
<1>2. CASE Rebuild \/ (\E k \in Kind : SwitchIndex(k)) \/ (\E z \in Codec : SwitchCodec(z))
  BY <1>2, StartStep
<1>3. CASE Seal
  BY <1>3, SealStarts
<1>4. CASE Crash \/ Close
  BY <1>4, DownStep
<1>5. CASE Open
  BY <1>5, OpenStep
<1>6. CASE EngineStep
  BY <1>6, EngineStepKeeps
<1>7. CASE UNCHANGED vars
  BY <1>7, StutterKeeps
<1> QED
  BY <1>1, <1>2, <1>3, <1>4, <1>5, <1>6, <1>7 DEF Next

\* The inductive invariant holds in every state, when no crash and no I/O
\* error falls inside the rollback of a failed seal.
THEOREM Invariance ==
    ASSUME NoUndoFaults
    PROVE  Spec => []IInv
<1>1. IInv /\ [Next]_vars => IInv'
  BY NextKeeps
<1> QED
  BY <1>1, InitIInv, PTL DEF Spec

\* Every variable keeps its type; in particular no seal, rollback or rebuild
\* lists or indexes a page id that the builder cannot have given out.
THEOREM TypeCorrect ==
    ASSUME NoUndoFaults
    PROVE  Spec => []TypeOK
<1>1. IInv => TypeOK
  BY DEF IInv
<1> QED
  BY <1>1, Invariance, PTL

\* A store that serves calls passes validate_deep, whatever I/O errors earlier
\* seals met: the rollback has restored the catalog, the page files, the
\* indexes and next_page_id.
THEOREM ServingStoreIsValid ==
    ASSUME NoUndoFaults
    PROVE  Spec => []ServingIsValid
<1>1. IInv => ServingIsValid
  <2> SUFFICES ASSUME IInv, Serving, intact PROVE ValidDeep
    BY DEF ServingIsValid
  <2>1. /\ job = "none" /\ Whole /\ Apart(Listed, {}, man.next) /\ EntriesOk(catalog)
        /\ label = man.kind /\ IndexOk /\ StatisticsOk
    BY DEF IInv, Serving, Whole, Sound
  <2>2. \A p \in Listed : PageOk(p) /\ p < man.next
    BY <2>1, ListedPages DEF PageOk, PagesReadable, EntriesOk, EntryOnDisk, Apart, Listed
  <2>3. CellsOnce /\ NoOrphans
    BY <2>1 DEF CellsOnce, NoOrphans, Apart, Disjoint, Sealed
  <2> QED
    BY <2>1, <2>2, <2>3 DEF ValidDeep
<1> QED
  BY <1>1, Invariance, PTL

\* Every page the catalog lists can be read (its file is there, in the codec
\* the entry names), after crashes and configuration switches too, and in the
\* middle of every call but a rollback.
THEOREM ListedIsReadable ==
    ASSUME NoUndoFaults
    PROVE  Spec => []CatalogReadable
<1>1. IInv => CatalogReadable
  BY ListedPages DEF CatalogReadable
<1> QED
  BY <1>1, Invariance, PTL

\* rebuild_catalog_and_indexes ends with every page file listed and indexed,
\* whatever a crash inside a seal or a switch had left.
THEOREM RebuildAlwaysRepairs ==
    ASSUME NoUndoFaults
    PROVE  Spec => RebuildRepairs
<1>1. ASSUME IInv, job = "rebuild", RebuildLexical
      PROVE  Listed' = Files' /\ Active' = Listed' /\ lexical' = Listed'
  <2>1. /\ step = "lexical" /\ lexical' = Listed
        /\ UNCHANGED <<files, listing, exact, fuse, man>>
    BY <1>1 DEF RebuildLexical
  <2>2. Files' = Files /\ Listed' = Listed /\ Active' = Active
    BY <2>1 DEF Files, files, Listed, listing, Active
  <2>3. Listed = Files /\ exact = Listed /\ (man.kind = "fuse" => fuse = Listed)
    BY <1>1, <2>1 DEF IInv, Sound, Rebuilt
  <2>4. man.kind \in Kind
    BY <1>1, ManifestFields DEF IInv, TypeOK
  <2> QED
    BY <2>1, <2>2, <2>3, <2>4 DEF Active, Kind
<1>2. IInv /\ [Next]_vars =>
        [job = "rebuild" /\ RebuildLexical =>
            Listed' = Files' /\ Active' = Listed' /\ lexical' = Listed']_vars
  BY <1>1
<1> QED
  BY <1>2, Invariance, PTL DEF Spec, RebuildRepairs

\* Every step of a seal, of its rollback, of a rebuild and of a switch, and
\* every crash between two of them, leaves the client's memory as it was: the
\* store implements Retention.
THEOREM SealingImplementsRetention ==
    ASSUME NoUndoFaults
    PROVE  Spec => SealMovesMemory
<1>1. Init => Abs!Init
  BY InCells DEF Init, Abs!Init, Sealed, Listed, NoPages
<1>2. IInv /\ [Next]_vars => [Abs!Next]_<<hot \cup Sealed, {}>>
  BY NextKeeps DEF SameMemory, Abs!Next, Abs!Remember
<1> QED
  BY <1>1, <1>2, Invariance, PTL DEF Spec, SealMovesMemory, Abs!Spec
==============================================================================
