------------------------------ MODULE HotStore ------------------------------
(***************************************************************************)
(* The hot memory of one store and its persistence: L1 RAM, the queue of   *)
(* cells not yet appended, the hot log and its snapshot (crates/mge-core/  *)
(* src/hot.rs), and the calls that drive them: remember, checkpoint, seal, *)
(* drop and open (crates/mge-core/src/store.rs).                           *)
(*                                                                         *)
(* Each durable write is a step.  A crash may fall between two steps; it   *)
(* keeps the synced part of the log and any prefix of the rest, perhaps    *)
(* with a truncated record at the end.  Full-file writes are atomic and    *)
(* synced (binary.rs).  Log offsets count records: a record is one unit    *)
(* long, whatever its size.                                                *)
(***************************************************************************)
EXTENDS Integers, Sequences, FiniteSets

CONSTANTS
    Policies,   \* the durability policies a store may be configured with
    CrashAt,    \* the steps in front of which the process may crash
    FailAt,     \* the steps whose I/O may report an error
    MaxWrites,  \* bound: remember calls
    MaxFaults,  \* bound: crashes and I/O errors
    Torn,       \* a truncated record
    NoLog       \* hot.mgl is missing: it has been renamed away

Id   == 1 .. MaxWrites + 1
\* A cell: its id, and which remember call wrote it (ids could be reused).
Cell == [id : Id, w : 1 .. MaxWrites]

NoSnap == [cells |-> {}, off |-> -1]    \* no snapshot.mgs

ASSUME BoundsAssumption == MaxWrites \in Nat /\ MaxFaults \in Nat
ASSUME PolicyAssumption == Policies \subseteq {"fast", "balanced", "safe"}
ASSUME ValueAssumption  == Torn \notin Cell /\ NoLog \notin Seq(Cell \cup {Torn})

VARIABLES
    \* durable
    log,        \* hot/hot.mgl after its header: the records, in order
    synced,     \* how many of them an fsync covers
    snap,       \* hot/snapshot.mgs
    sealed,     \* the cells of the sealed pages in the catalog
    diskNext,   \* next_cell_id in manifest.mgm
    archived,   \* the log the running seal has renamed away
    diskMarks,  \* the cells whose markers dictionary/markers.mgd holds
    \* the open engine
    up, hot, pending, appended, next,
    job,        \* the call in progress
    step,       \* the durable step it takes next
    \* the store's configuration, and bookkeeping of this model
    policy,     \* manifest.durability
    writes,     \* remember calls so far
    acked,      \* the cells a call reported persisted and synced
    budget

disk == <<log, synced, snap, sealed, archived, diskNext, diskMarks>>
ram  == <<up, hot, pending, appended, next>>
vars == <<disk, ram, job, step, policy, writes, acked, budget>>

-----------------------------------------------------------------------------

MaxOf(S) == CHOOSE x \in S : \A y \in S : y <= x

Records(l, from, to) == {l[i] : i \in from .. to}

\* decode_hot_records_from: the first record that does not decode ends the
\* replay, as a bad tail if nothing after it decodes, else as an error.
FirstBad(l, from) ==
    LET bad == {i \in from .. Len(l) : l[i] = Torn}
    IN IF bad = {} THEN Len(l) + 1 ELSE CHOOSE i \in bad : \A j \in bad : i <= j

ReplayErrs(l, from) == \E i \in FirstBad(l, from) + 1 .. Len(l) : l[i] # Torn

\* load_usable_snapshot: the offset must lie within the log.
UsableSnap(l) == snap.off >= 0 /\ snap.off <= Len(l)

\* A mutant of ReplayFrom: replay starts one record late.
ReplayFrom_Late(l) == IF UsableSnap(l) THEN snap.off + 2 ELSE 1

ReplayFrom(l) == IF UsableSnap(l) THEN snap.off + 1 ELSE 1

\* load_recovering on log `l`: the snapshot's cells, then the records after
\* its offset.  A missing log holds nothing, whatever the snapshot says.
Recovered(l) ==
    IF l = NoLog THEN {}
    ELSE (IF UsableSnap(l) THEN snap.cells ELSE {})
         \cup Records(l, ReplayFrom(l), FirstBad(l, ReplayFrom(l)) - 1)

OpenErrs(l) == l # NoLog /\ ReplayErrs(l, ReplayFrom(l))

-----------------------------------------------------------------------------

Init ==
    /\ log = <<>> /\ synced = 0 /\ snap = NoSnap /\ sealed = {} /\ archived = <<>>
    /\ diskNext = 1 /\ diskMarks = {}
    /\ up = TRUE /\ hot = {} /\ pending = <<>> /\ appended = 0 /\ next = 1
    /\ job = "none" /\ step = "none"
    /\ policy \in Policies
    /\ writes = 0 /\ acked = {} /\ budget = MaxFaults

Serving == up /\ job = "none"

Return == job' = "none" /\ step' = "none"

GoTo(s) == step' = s /\ UNCHANGED job

\* flush_pending_hot(force_sync) begins: with nothing pending it only syncs.
FlushFrom(queue) == IF queue = <<>> THEN "sync" ELSE "manifest"

Begin(call) ==
    /\ Serving
    /\ job' = call /\ step' = FlushFrom(pending)
    /\ UNCHANGED <<disk, ram, policy, writes, acked, budget>>

\* remember: RAM first, then the flush the policy asks for.  `balanced`
\* flushes after BALANCED_FLUSH_EVENTS or BALANCED_FLUSH_INTERVAL, which is
\* left open here.
MayFlush == CASE policy = "fast"     -> {FALSE}
              [] policy = "balanced" -> BOOLEAN
              [] policy = "safe"     -> {TRUE}

\* A mutant of TakeId: ids are counted from the hot cells.
TakeId_FromHot == next' = Cardinality(hot) + 2

TakeId == next' = next + 1

Remember ==
    /\ Serving /\ writes < MaxWrites
    /\ LET cell == [id |-> next, w |-> writes + 1]
       IN /\ hot' = hot \cup {cell}
          /\ pending' = Append(pending, cell)
    /\ TakeId /\ writes' = writes + 1
    /\ \E flush \in MayFlush :
          IF flush THEN job' = "remember" /\ step' = "manifest" ELSE UNCHANGED <<job, step>>
    /\ UNCHANGED <<disk, up, appended, policy, acked, budget>>

\* The other calls that flush first.
Checkpoint == Begin("checkpoint")
Seal       == Begin("seal")
Drop       == Begin("drop")

-----------------------------------------------------------------------------
(* flush_pending_hot.                                                      *)

FlushManifest ==
    /\ step = "manifest"
    /\ diskNext' = next
    /\ GoTo("dictionary")
    /\ UNCHANGED <<log, synced, snap, sealed, archived, diskMarks, ram, policy, writes, acked, budget>>

\* A mutant of FlushDictionary: the markers are not saved.
FlushDictionary_Skips ==
    /\ step = "dictionary"
    /\ GoTo("append")
    /\ UNCHANGED <<disk, ram, policy, writes, acked, budget>>

FlushDictionary ==
    /\ step = "dictionary"
    /\ diskMarks' = diskMarks \cup hot
    /\ GoTo("append")
    /\ UNCHANGED <<log, synced, snap, sealed, archived, diskNext, ram, policy, writes, acked, budget>>

\* ensure_exists recreates a missing log with its header.
LogFile == IF log = NoLog THEN <<>> ELSE log

\* A fast drop is the one flush that does not sync.
SkipsSync == job = "drop" /\ policy = "fast"

\* A mutant of NextToAppend: the newest cell goes first.
NextToAppend_Newest == pending[Len(pending) - appended]

NextToAppend == pending[appended + 1]

\* A mutant of QueueDone: the position in the queue is not reset.
QueueDone_KeepsPosition == pending' = <<>> /\ UNCHANGED appended

QueueDone == pending' = <<>> /\ appended' = 0

FlushAppend ==
    /\ step = "append"
    /\ IF appended < Len(pending)
       THEN /\ log' = Append(LogFile, NextToAppend)
            /\ appended' = appended + 1
            /\ UNCHANGED <<pending, job, step>>
       ELSE /\ UNCHANGED log
            /\ IF SkipsSync
               THEN QueueDone /\ GoTo("close")
               ELSE GoTo("sync") /\ UNCHANGED <<pending, appended>>
    /\ UNCHANGED <<synced, snap, sealed, archived, diskNext, diskMarks, up, hot, next,
                   policy, writes, acked, budget>>

FlushSync ==
    /\ step = "sync"
    /\ log' = LogFile /\ synced' = Len(log')
    /\ acked' = acked \cup Records(pending, 1, Len(pending))
    /\ QueueDone
    /\ CASE job = "remember"   -> Return
         [] job = "checkpoint" -> GoTo("snapshot")
         [] job = "seal"       -> IF hot = {} THEN Return ELSE GoTo("publish")
         [] job = "drop"       -> GoTo("close")
    /\ UNCHANGED <<snap, sealed, archived, diskNext, diskMarks, up, hot, next, policy, writes, budget>>

-----------------------------------------------------------------------------
(* What follows the flush.                                                 *)

\* write_snapshot_with_key: all hot cells, and the length of the log.
WriteSnapshot ==
    /\ step = "snapshot"
    /\ snap' = [cells |-> hot, off |-> Len(log)]
    /\ Return
    /\ UNCHANGED <<log, synced, sealed, archived, diskNext, diskMarks, ram, policy, writes, acked, budget>>

\* The sealed pages, catalog, indexes and manifest are written (module SealedStore).
Publish ==
    /\ step = "publish"
    /\ sealed' = sealed \cup hot
    /\ diskNext' = next
    /\ GoTo("archive")
    /\ UNCHANGED <<log, synced, snap, archived, diskMarks, ram, policy, writes, acked, budget>>

\* archive_and_clear: rename the log away, write an empty one, drop the
\* snapshot.  (Its branch for a log without records is not reached: hot
\* cells that were flushed are in the log.)
ArchiveLog ==
    /\ step = "archive"
    /\ archived' = log
    /\ log' = NoLog /\ synced' = 0
    /\ GoTo("reset")
    /\ UNCHANGED <<snap, sealed, diskNext, diskMarks, ram, policy, writes, acked, budget>>

ResetLog ==
    /\ step = "reset"
    /\ log' = <<>> /\ synced' = 0
    /\ GoTo("unsnap")
    /\ UNCHANGED <<snap, sealed, archived, diskNext, diskMarks, ram, policy, writes, acked, budget>>

\* A mutant of RemoveSnapshot: RAM is not cleared.
RemoveSnapshot_KeepsRam ==
    /\ step = "unsnap"
    /\ snap' = NoSnap
    /\ Return
    /\ UNCHANGED <<log, synced, sealed, archived, diskNext, diskMarks, ram, policy, writes, acked, budget>>

\* remove_snapshot, and seal clears the hot layer.
RemoveSnapshot ==
    /\ step = "unsnap"
    /\ snap' = NoSnap
    /\ hot' = {}
    /\ Return
    /\ UNCHANGED <<log, synced, sealed, archived, diskNext, diskMarks, up, pending, appended, next,
                   policy, writes, acked, budget>>

EngineGone ==
    /\ up' = FALSE /\ hot' = {} /\ pending' = <<>> /\ appended' = 0 /\ next' = 1
    /\ Return

CloseEngine ==
    /\ step = "close"
    /\ EngineGone
    /\ UNCHANGED <<disk, policy, writes, acked, budget>>

-----------------------------------------------------------------------------
(* Errors, crashes, open.                                                  *)

\* An I/O error.  A flush keeps its queue and position; seal removes the
\* pages it published and puts an archived log back; archive_and_clear
\* ignores a snapshot it cannot remove; drop ignores every error.
StepFails ==
    /\ job # "none" /\ step # "close" /\ step \in FailAt /\ budget > 0
    /\ budget' = budget - 1
    /\ CASE step = "unsnap" ->
              /\ hot' = {} /\ Return
              /\ UNCHANGED <<disk, up, pending, appended, next>>
         [] step \in {"archive", "reset"} ->
              /\ sealed' = sealed \ hot
              /\ log' = IF step = "reset" THEN archived ELSE log
              /\ synced' = Len(log')
              /\ Return
              /\ UNCHANGED <<snap, archived, diskNext, diskMarks, ram>>
         [] job = "drop" -> EngineGone /\ UNCHANGED disk
         [] OTHER -> Return /\ UNCHANGED <<disk, ram>>
    /\ UNCHANGED <<policy, writes, acked>>

\* What a crash can leave of the log.
CrashLogs ==
    IF log = NoLog THEN {NoLog}
    ELSE LET kept == {SubSeq(log, 1, k) : k \in synced .. Len(log)}
             mid  == step = "append" /\ appended < Len(pending)
             cut  == {l \in kept : Len(l) < Len(log) \/ mid}
         IN kept \cup {Append(l, Torn) : l \in cut}

Crash ==
    /\ up /\ step \in CrashAt /\ budget > 0 /\ budget' = budget - 1
    /\ log' \in CrashLogs
    /\ EngineGone
    /\ UNCHANGED <<synced, snap, sealed, archived, diskNext, diskMarks, policy, writes, acked>>

\* A writable open: load_recovering, truncate_to_valid_offset on a bad tail,
\* and next_cell_id moved past every recovered cell.
Open ==
    /\ ~up /\ ~OpenErrs(log)
    /\ up' = TRUE
    /\ hot' = Recovered(log)
    /\ next' = MaxOf({diskNext} \cup {c.id + 1 : c \in hot'})
    /\ LET bad == IF log = NoLog THEN 0 ELSE FirstBad(log, ReplayFrom(log))
       IN IF log # NoLog /\ bad <= Len(log)
          THEN log' = SubSeq(log, 1, bad - 1) /\ synced' = bad - 1
          ELSE UNCHANGED <<log, synced>>
    /\ UNCHANGED <<snap, sealed, archived, diskNext, diskMarks, pending, appended,
                   job, step, policy, writes, acked, budget>>

EngineStep ==
    \/ FlushManifest \/ FlushDictionary \/ FlushAppend \/ FlushSync
    \/ WriteSnapshot \/ Publish \/ ArchiveLog \/ ResetLog \/ RemoveSnapshot
    \/ CloseEngine \/ StepFails

Next == Remember \/ Checkpoint \/ Seal \/ Drop \/ EngineStep \/ Crash \/ Open

Spec == Init /\ [][Next]_vars

-----------------------------------------------------------------------------
(* Properties.                                                             *)

Durable == sealed \cup Recovered(log)

TypeOK ==
    /\ log \in Seq(Cell \cup {Torn}) \/ log = NoLog
    /\ synced \in 0 .. MaxWrites
    /\ snap = NoSnap \/ (snap.cells \subseteq Cell /\ snap.off \in 0 .. MaxWrites)
    /\ sealed \subseteq Cell /\ diskMarks \subseteq Cell /\ hot \subseteq Cell
    /\ diskNext \in Id /\ next \in Id
    /\ pending \in Seq(Cell) /\ appended \in 0 .. Len(pending)

\* Whatever a crash leaves of the log, the store opens again and finds every
\* cell whose persistence was reported: in the hot log or its snapshot, or
\* in the sealed pages.
AckedSurvive == \A l \in CrashLogs : ~OpenErrs(l) /\ acked \subseteq sealed \cup Recovered(l)

\* A crash loses a suffix of what was remembered, never a hole: a cell that
\* survives does so with every hot cell remembered before it.
NoHoles ==
    \A l \in CrashLogs : \A a, b \in hot :
        a.w < b.w /\ b \in sealed \cup Recovered(l) => a \in sealed \cup Recovered(l)

\* No cell id is given out twice among cells that are durable or in RAM,
\* across crashes that lose the cells between them.
IdsUnique == \A a, b \in Durable \cup hot : a.id = b.id => a = b

\* Metadata goes first: the manifest's next id is past every durable cell and
\* the dictionary on disk knows its markers.
MetadataFirst == \A c \in Durable : c.id < diskNext /\ c \in diskMarks

\* Between calls RAM is exactly what a reopen would recover, and the queue.
RamMatchesLog ==
    Serving => hot = Recovered(log) \cup Records(pending, appended + 1, Len(pending))

==============================================================================
