---------------------------- MODULE Supersession ----------------------------
(***************************************************************************)
(* Append-and-supersede versioning: MemoryEngine::supersede with the       *)
(* intent it keeps in the manifest, the remember and flush it goes         *)
(* through, mark (set_status_override), drop, and the reconciliation at    *)
(* open (crates/mge-core/src/store.rs).                                    *)
(*                                                                         *)
(* Cells are their ids.  Whether a durable cell lies in the hot log or in  *)
(* a page makes no difference to find_cell, so `logged` stands for both.   *)
(***************************************************************************)
EXTENDS Integers, FiniteSets

CONSTANTS
    Modes,       \* how the engine is used: opened for one call and dropped
                 \* after it, as the CLI, the TUI and the MCP server do, or kept
                 \* by a host; the durability policy; the steps that may report
                 \* an error
    CrashSyncs,  \* what a crash leaves in the log is on disk from then on
    MaxId,       \* bound: cell ids are 1 .. MaxId
    MaxFaults    \* bound: crashes and errors

Id == 1 .. MaxId

ASSUME BoundsAssumption == MaxId \in Nat /\ MaxFaults \in Nat
ASSUME CrashAssumption  == CrashSyncs \in BOOLEAN
ASSUME ModeAssumption   ==
    Modes \subseteq [per_call : BOOLEAN, policy : {"fast", "balanced", "safe"},
                      fails : SUBSET {"intent", "remember", "save", "append", "sync", "final"}]

\* The part of the Manifest used here: next_cell_id, the keys of
\* status_overrides, superseded_by and pending_supersessions.
Manifest == [next : 1 .. MaxId + 1, over : SUBSET Id,
             by : SUBSET (Id \X Id), pend : SUBSET (Id \X Id)]

NoPair == <<0, 0>>

VARIABLES
    disk,     \* manifest.mgm
    logged,   \* the cells appended to the log
    synced,   \* those an fsync covers
    links,    \* the links each cell was written with
    replaces, \* the cell it was written to replace, 0 if none
    up,
    man,      \* the manifest in memory
    ram,      \* the cells the open engine knows
    job, step,
    cur,      \* the <<old, reserved id>> of the running supersede
    mode,
    done,     \* the supersessions reported Ok
    budget

engine == <<up, man, ram>>
call   == <<job, step, cur>>
cells  == <<links, replaces>>
vars   == <<disk, logged, synced, cells, engine, call, mode, done, budget>>

-----------------------------------------------------------------------------

Olds(rel) == {r[1] : r \in rel}

\* BTreeMap::insert replaces the value of a key.
Insert(rel, r) == {q \in rel : q[1] # r[1]} \cup {r}

Lowest(S)  == CHOOSE x \in S : \A y \in S : x <= y
Highest(S) == CHOOSE x \in S : \A y \in S : y <= x

\* The queue of cells not yet appended, in id order.
Pending == ram \ logged

Init ==
    /\ disk = [next |-> 1, over |-> {}, by |-> {}, pend |-> {}]
    /\ logged = {} /\ synced = {}
    /\ links = [c \in Id |-> {}] /\ replaces = [c \in Id |-> 0]
    /\ up = TRUE /\ man = disk /\ ram = {}
    /\ job = "none" /\ step = "none" /\ cur = NoPair
    /\ mode \in Modes
    /\ done = {} /\ budget = MaxFaults

Serving == up /\ job = "none"

GoTo(s) == step' = s /\ UNCHANGED <<job, cur>>

\* flush_pending_hot with force_sync: manifest (and dictionary), records, sync.
FlushFrom(queue) == IF queue = {} THEN "sync" ELSE "save"

\* Drop for MemoryEngine.
DropFrom(queue) ==
    /\ job' = "drop" /\ cur' = NoPair
    /\ step' = IF queue = {} /\ mode.policy = "fast" THEN "close" ELSE FlushFrom(queue)

\* A call returns, with or without an error.
Return ==
    IF mode.per_call THEN DropFrom(Pending)
    ELSE job' = "none" /\ step' = "none" /\ cur' = NoPair

-----------------------------------------------------------------------------
(* Calls.                                                                  *)

\* The in-memory half of remember: the cell takes the next id.
Insert1(ls, old) ==
    LET c == man.next
    IN /\ c \in Id
       /\ ram' = ram \cup {c}
       /\ links' = [links EXCEPT ![c] = ls] /\ replaces' = [replaces EXCEPT ![c] = old]

MayFlush == CASE mode.policy = "fast"     -> {FALSE}
              [] mode.policy = "balanced" -> BOOLEAN
              [] mode.policy = "safe"     -> {TRUE}

\* remember; the caller may link the new cell to any cell it knows.
Remember ==
    /\ Serving
    /\ \E ls \in {{}} \cup {{c} : c \in ram} : Insert1(ls, 0)
    /\ man' = [man EXCEPT !.next = @ + 1]
    /\ \E flush \in MayFlush :
          IF flush THEN job' = "remember" /\ step' = "save" /\ UNCHANGED cur
          ELSE IF mode.per_call THEN DropFrom(Pending \cup {man.next})
          ELSE UNCHANGED call
    /\ UNCHANGED <<disk, logged, synced, up, mode, done, budget>>

\* set_status_override: a mark, or `active` to clear one.  A cell with a
\* typed successor stays superseded.
SetOver(over) ==
    /\ Serving
    /\ man' = [man EXCEPT !.over = over] /\ disk' = man'
    /\ Return
    /\ UNCHANGED <<logged, synced, cells, up, ram, mode, done, budget>>

Mark(c)   == c \in ram \ man.over /\ SetOver(man.over \cup {c})
Unmark(c) == c \in (ram \cap man.over) \ Olds(man.by) /\ SetOver(man.over \ {c})

\* A mutant of Supersede: no intent is recorded.
Supersede_NoIntent(old) ==
    /\ Serving
    /\ old \in ram /\ old \notin man.over /\ old \notin Olds(man.by)
    /\ man.next \in Id
    /\ cur' = <<old, man.next>> /\ job' = "supersede" /\ step' = "intent"
    /\ UNCHANGED <<disk, logged, synced, cells, up, man, ram, mode, done, budget>>

\* supersede: the checks, then the intent in memory.
Supersede(old) ==
    /\ Serving
    /\ old \in ram /\ old \notin man.over /\ old \notin Olds(man.by)
    /\ man.next \in Id
    /\ cur' = <<old, man.next>> /\ job' = "supersede" /\ step' = "intent"
    /\ man' = [man EXCEPT !.pend = Insert(@, <<old, man.next>>)]
    /\ UNCHANGED <<disk, logged, synced, cells, up, ram, mode, done, budget>>

SaveIntent ==
    /\ step = "intent"
    /\ disk' = man
    /\ GoTo("remember")
    /\ UNCHANGED <<logged, synced, cells, engine, mode, done, budget>>

\* Mutants of RememberReplacement: the forced flush is left out; the link to
\* the old cell is left out.
RememberReplacement_NoFlush ==
    /\ step = "remember"
    /\ Insert1({cur[1]}, cur[1])
    /\ man' = [man EXCEPT !.next = @ + 1]
    /\ GoTo(IF mode.policy = "safe" THEN "save" ELSE "final")
    /\ UNCHANGED <<disk, logged, synced, up, mode, done, budget>>

RememberReplacement_NoLink ==
    /\ step = "remember"
    /\ Insert1({}, cur[1])
    /\ man' = [man EXCEPT !.next = @ + 1]
    /\ GoTo("save")
    /\ UNCHANGED <<disk, logged, synced, up, mode, done, budget>>

\* The replacement is remembered and flushed (a flush by policy inside
\* remember and the forced one after it come to one flush).
RememberReplacement ==
    /\ step = "remember"
    /\ Insert1({cur[1]}, cur[1])
    /\ man' = [man EXCEPT !.next = @ + 1]
    /\ GoTo("save")
    /\ UNCHANGED <<disk, logged, synced, up, mode, done, budget>>

FinishSupersede ==
    /\ step = "final"
    /\ man' = [man EXCEPT !.over = @ \cup {cur[1]}, !.by = Insert(@, cur),
                          !.pend = {q \in @ : q[1] # cur[1]}]
    /\ disk' = man'
    /\ done' = done \cup {cur}
    /\ Return
    /\ UNCHANGED <<logged, synced, cells, up, ram, mode, budget>>

-----------------------------------------------------------------------------
(* flush_pending_hot, and what follows it.                                 *)

FlushSave ==
    /\ step = "save"
    /\ disk' = man
    /\ GoTo("append")
    /\ UNCHANGED <<logged, synced, cells, engine, mode, done, budget>>

FlushAppend ==
    /\ step = "append"
    /\ IF Pending # {}
       THEN logged' = logged \cup {Lowest(Pending)} /\ UNCHANGED call
       ELSE /\ UNCHANGED logged
            /\ GoTo(IF job = "drop" /\ mode.policy = "fast" THEN "close" ELSE "sync")
    /\ UNCHANGED <<disk, synced, cells, engine, mode, done, budget>>

FlushSync ==
    /\ step = "sync"
    /\ synced' = logged
    /\ CASE job = "supersede" -> GoTo("final")
         [] job = "remember"  -> Return
         [] job = "drop"      -> GoTo("close")
    /\ UNCHANGED <<disk, logged, cells, engine, mode, done, budget>>

EngineGone ==
    /\ up' = FALSE /\ man' = disk /\ ram' = {}
    /\ job' = "none" /\ step' = "none" /\ cur' = NoPair

Close ==
    /\ step = "close"
    /\ EngineGone
    /\ UNCHANGED <<disk, logged, synced, cells, mode, done, budget>>

\* A host drops the engine it kept.
Drop ==
    /\ Serving /\ ~mode.per_call
    /\ DropFrom(Pending)
    /\ UNCHANGED <<disk, logged, synced, cells, engine, mode, done, budget>>

-----------------------------------------------------------------------------
(* Errors, crashes, open.                                                  *)

\* The manifest in memory when the last save of supersede fails.
ManAtStep ==
    IF step = "final"
    THEN [man EXCEPT !.over = @ \cup {cur[1]}, !.by = Insert(@, cur),
                     !.pend = {q \in @ : q[1] # cur[1]}]
    ELSE man

\* An I/O error, or (at "remember") markers that do not canonicalise, which
\* remember finds before it takes an id.  Drop ignores errors.
StepFails ==
    /\ step \in mode.fails /\ budget > 0 /\ budget' = budget - 1
    /\ step = "append" => Pending # {}
    /\ UNCHANGED <<disk, logged, synced, cells, mode, done>>
    /\ IF job = "drop" THEN EngineGone
       ELSE man' = ManAtStep /\ Return /\ UNCHANGED <<up, ram>>

\* A crash keeps what is synced and a prefix of what was appended after.
CrashLogs == {synced \cup {c \in logged : c < k} : k \in 1 .. MaxId + 1}

Crash ==
    /\ up /\ budget > 0 /\ budget' = budget - 1
    /\ logged' \in CrashLogs
    /\ synced' = IF CrashSyncs THEN logged' ELSE synced
    /\ EngineGone
    /\ UNCHANGED <<disk, cells, mode, done>>

\* reconcile_pending_supersessions fails if an intent's old cell is gone, or
\* its reserved id went to a cell that does not link to it.
ReconcileErrs(pend, known) ==
    \E r \in pend : r[1] \notin known \/ (r[2] \in known /\ r[1] \notin links[r[2]])

\* A mutant of Finished: every intent is rolled back.
Finished_Never(pend, known) == {}

\* An intent whose replacement is there is finished, the others dropped.
Finished(pend, known) == {r \in pend : r[2] \in known}

\* superseded_by.insert for each pair of `rel`, which has distinct keys.
InsertAll(base, rel) == {q \in base : q[1] \notin Olds(rel)} \cup rel

Reconcile(m, known) ==
    [m EXCEPT !.over = @ \cup Olds(Finished(m.pend, known)),
              !.by = InsertAll(@, Finished(m.pend, known)),
              !.pend = {}]

\* A mutant of NextAtOpen: it skips an id.
NextAtOpen_Skips(next, known) == Highest({next} \cup {c + 2 : c \in known})

\* next_cell_id is moved past every recovered cell.
NextAtOpen(next, known) == Highest({next} \cup {c + 1 : c \in known})

Open ==
    /\ ~up /\ up' = TRUE
    /\ ~ReconcileErrs(disk.pend, logged)
    /\ ram' = logged
    /\ LET m == Reconcile([disk EXCEPT !.next = NextAtOpen(@, logged)], logged)
       IN /\ man' = m
          /\ disk' = IF disk.pend = {} THEN disk ELSE m
    /\ UNCHANGED <<logged, synced, cells, call, mode, done, budget>>

Next ==
    \/ Remember \/ \E c \in Id : Mark(c) \/ Unmark(c) \/ Supersede(c)
    \/ SaveIntent \/ RememberReplacement \/ FinishSupersede
    \/ FlushSave \/ FlushAppend \/ FlushSync \/ Close \/ Drop
    \/ StepFails \/ Crash \/ Open

Spec == Init /\ [][Next]_vars

-----------------------------------------------------------------------------
(* Properties.                                                             *)

TypeOK ==
    /\ disk \in Manifest /\ man \in Manifest
    /\ logged \subseteq Id /\ synced \subseteq logged /\ ram \subseteq Id
    /\ links \in [Id -> SUBSET Id] /\ replaces \in [Id -> 0 .. MaxId]
    /\ up \in BOOLEAN /\ cur \in Id \X Id \cup {NoPair}
    /\ done \subseteq Id \X Id

\* Once a store serves calls, every replacement it knows has retired the cell
\* it was written for, and every recorded supersession has both of its cells,
\* runs forward and is linked (what validate checks of superseded_by): no
\* crash or error leaves both versions active, or neither.
VersionsAgree ==
    Serving =>
        /\ man.pend = {}
        /\ \A c \in ram : replaces[c] # 0 => <<replaces[c], c>> \in man.by
        /\ \A r \in man.by : /\ r[1] \in ram /\ r[2] \in ram
                             /\ r[1] < r[2] /\ r[1] \in links[r[2]]
                             /\ r[1] \in man.over
        /\ \A r, q \in man.by : r[1] = q[1] => r = q
        /\ man.over \subseteq ram

\* A supersession reported Ok stays recorded, and both its cells durable.
OkIsDurable == \A r \in done : r \in disk.by /\ {r[1], r[2]} \subseteq synced

\* Whatever a crash leaves of the log, open reconciles the intents it finds:
\* no intent can make the store impossible to open (docs/ARCHITECTURE.md,
\* "A pending manifest intent makes the operation crash-consistent").
OpenReconciles == \A l \in CrashLogs : ~ReconcileErrs(disk.pend, l)

\* What a reopen would serve from what is on disk for good.
View == Reconcile(disk, synced)

Abs == INSTANCE Versions WITH stored <- synced, retired <- View.over \cap synced,
                              succ <- View.by

\* A replacement and the retirement of what it replaces are one durable step.
SupersedeIsAtomic == Abs!Spec

=============================================================================
