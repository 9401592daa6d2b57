------------------------- MODULE SupersessionProofs --------------------------
(***************************************************************************)
(* Proofs about module Supersession, for any number of ids and faults, when *)
(* what a call writes is synced before the call that follows it.            *)
(***************************************************************************)
EXTENDS Supersession, FiniteSetTheorems, TLAPS

\* The engine is used as the CLI, the TUI and the MCP server use it (opened
\* for a call under a policy that syncs when the engine is dropped), or kept
\* under the safe policy; fsync reports no error, and a crash keeps on disk
\* what it left of the log.  A kept engine may fail in the last save only.
SyncsItsCalls ==
    /\ CrashSyncs
    /\ \A m \in Modes : /\ "sync" \notin m.fails
                        /\ m.per_call => m.policy # "fast"
                        /\ ~m.per_call => m.policy = "safe" /\ m.fails \subseteq {"final"}

-----------------------------------------------------------------------------
(* The inductive invariant.                                                *)

Steps == [none      |-> {"none"},
          remember  |-> {"save", "append", "sync"},
          supersede |-> {"intent", "remember", "save", "append", "sync", "final"},
          drop      |-> {"save", "append", "sync", "close"}]

\* Where the running call is, and the supersession it carries out.
Control ==
    /\ mode \in Modes /\ budget \in 0 .. MaxFaults
    /\ job \in DOMAIN Steps /\ step \in Steps[job]
    /\ job # "none" => up
    /\ job = "none" /\ up => man.pend = {}
    /\ job = "remember" => man.pend = {}
    /\ job = "supersede" => man.pend = {cur}
    /\ job = "supersede" /\ step # "intent" => disk.pend = {cur}
    /\ job = "supersede" /\ step \in {"intent", "remember"} => cur[2] = man.next
    /\ job = "supersede" /\ step \in {"save", "append", "sync", "final"} => cur[2] \in ram
    /\ step = "append" => disk = man

\* The log: at most the newest cell waits for it, and but for the moment
\* between an append and its fsync it is on disk.
LogFacts ==
    /\ up => logged \subseteq ram
    /\ ~up => ram = {} /\ man = disk
    /\ synced # logged => Pending = {} /\ step \in {"append", "sync"}
    /\ \A c \in Pending : c = man.next - 1
    /\ step \notin {"save", "append"} => Pending = {}
    /\ \A c \in ram : c < man.next
    /\ \A c \in logged : c < disk.next

\* An intent has its old cell on disk, and the cell with its id, if there is
\* one, is the replacement.
Intent(r, by) ==
    /\ r[1] \in synced /\ r[1] < r[2] /\ r[1] \notin Olds(by)
    /\ r[2] \in ram \cup logged => replaces[r[2]] = r[1] /\ r[1] \in links[r[2]]

Intents ==
    /\ \A r \in disk.pend : Intent(r, disk.by)
    /\ \A r \in man.pend : Intent(r, man.by)
    /\ \A r, q \in disk.pend : r = q
    /\ \A r, q \in man.pend : r = q

\* A recorded supersession.
Recorded ==
    /\ \A r \in disk.by : /\ r[1] \in synced /\ r[2] \in synced
                          /\ r[1] < r[2] /\ r[1] \in links[r[2]]
                          /\ replaces[r[2]] = r[1] /\ r[1] \in disk.over
    /\ \A r, q \in disk.by : r[1] = q[1] => r = q
    /\ disk.over \subseteq synced
    /\ \A c \in logged : replaces[c] # 0 => <<replaces[c], c>> \in disk.by \cup disk.pend
    /\ \A c \in ram : replaces[c] # 0 => <<replaces[c], c>> \in man.by \cup man.pend

\* The manifest in memory is ahead of the one on disk by supersessions whose
\* replacement is on disk, and by the intent for a cell that is not there yet.
Ahead ==
    up => LET finished == disk.pend \ man.pend
          IN /\ man.over = disk.over \cup Olds(finished)
             /\ man.by = disk.by \cup finished
             /\ \A r \in finished : r[2] \in synced
             /\ \A r \in man.pend \ disk.pend : r[2] = man.next

IInv == TypeOK /\ Control /\ LogFacts /\ Intents /\ Recorded /\ Ahead /\ OkIsDurable

-----------------------------------------------------------------------------
(* Operators.                                                              *)

\* The fields of a manifest.
LEMMA ManifestFields ==
    ASSUME NEW m \in Manifest
    PROVE  /\ m.next \in 1 .. MaxId + 1 /\ m.over \subseteq Id
           /\ m.by \subseteq Id \X Id /\ m.pend \subseteq Id \X Id
BY DEF Manifest

\* A pair of a relation on ids has ids for components.
LEMMA PairsOfIds ==
    ASSUME NEW rel \in SUBSET (Id \X Id), NEW r \in rel
    PROVE  r[1] \in Id /\ r[2] \in Id /\ r = <<r[1], r[2]>> /\ r[1] \in Olds(rel)
BY DEF Olds

\* The first components of a relation.
LEMMA OldsOf ==
    \A rel, c : c \in Olds(rel) <=> \E r \in rel : r[1] = c
BY DEF Olds

\* Inserting a pair with a new key loses no pair.
LEMMA InsertNewKey ==
    ASSUME NEW rel, NEW r, r[1] \notin Olds(rel)
    PROVE  Insert(rel, r) = rel \cup {r}
BY DEF Insert, Olds

LEMMA InsertAllNewKeys ==
    ASSUME NEW base, NEW rel, Olds(base) \cap Olds(rel) = {}
    PROVE  InsertAll(base, rel) = base \cup rel
BY DEF InsertAll, Olds

\* A call that returns drops the engine or leaves it serving; a drop syncs.
LEMMA ReturnFacts ==
    ASSUME SyncsItsCalls, mode \in Modes, Return
    PROVE  /\ cur' = NoPair
           /\ \/ /\ mode.per_call /\ job' = "drop"
                 /\ step' = IF Pending = {} THEN "sync" ELSE "save"
              \/ ~mode.per_call /\ job' = "none" /\ step' = "none"
BY ModeAssumption DEF Return, DropFrom, FlushFrom, SyncsItsCalls

-----------------------------------------------------------------------------
(* The invariant holds initially.                                          *)

LEMMA InitIInv == Init => IInv
<1> SUFFICES ASSUME Init PROVE IInv
  OBVIOUS
<1> USE DEF Init
<1>1. disk \in Manifest
  BY BoundsAssumption DEF Manifest
<1>2. TypeOK
  BY <1>1, BoundsAssumption DEF TypeOK, Id
<1>3. Control
  BY BoundsAssumption DEF Control, Steps
<1>4. LogFacts /\ Intents /\ Recorded /\ Ahead
  BY DEF LogFacts, Intents, Recorded, Ahead, Pending, Olds
<1> QED
  BY <1>2, <1>3, <1>4 DEF IInv, OkIsDurable

-----------------------------------------------------------------------------
(* The calls and their steps.                                              *)

\* What the insertion of a cell does: its id is new, and next_cell_id passes it.
LEMMA InsertFacts ==
    ASSUME IInv, up, NEW ls \in SUBSET Id, NEW old \in 0 .. MaxId, Insert1(ls, old),
           man' = [man EXCEPT !.next = @ + 1], UNCHANGED logged
    PROVE  /\ man.next \in Id /\ man.next \notin ram \cup logged \cup synced
           /\ ram' = ram \cup {man.next} /\ ram' \subseteq Id
           /\ man' \in Manifest /\ man'.next = man.next + 1
           /\ man'.over = man.over /\ man'.by = man.by /\ man'.pend = man.pend
           /\ links' \in [Id -> SUBSET Id] /\ replaces' \in [Id -> 0 .. MaxId]
           /\ links'[man.next] = ls /\ replaces'[man.next] = old
           /\ \A c \in ram \cup logged \cup synced :
                 links'[c] = links[c] /\ replaces'[c] = replaces[c]
           /\ Pending' = Pending \cup {man.next}
<1>1. /\ man \in Manifest /\ ram \subseteq Id /\ logged \subseteq ram /\ synced \subseteq logged
      /\ links \in [Id -> SUBSET Id] /\ replaces \in [Id -> 0 .. MaxId]
      /\ \A c \in ram : c < man.next
  BY DEF IInv, TypeOK, LogFacts
<1>2. /\ man.next \in Id /\ ram' = ram \cup {man.next}
      /\ links' = [links EXCEPT ![man.next] = ls]
      /\ replaces' = [replaces EXCEPT ![man.next] = old]
  BY DEF Insert1
<1>3. man.next \notin ram
  BY <1>1, <1>2 DEF Id
<1>4. /\ man' \in Manifest /\ man'.next = man.next + 1
      /\ man'.over = man.over /\ man'.by = man.by /\ man'.pend = man.pend
  <2>1. man.next + 1 \in 1 .. MaxId + 1
    BY <1>2, BoundsAssumption DEF Id
  <2> QED
    BY <1>1, <2>1 DEF Manifest
<1> QED
  BY <1>1, <1>2, <1>3, <1>4 DEF Pending

\* Between calls everything is on disk, and no intent is open in memory.
LEMMA ServingFacts ==
    ASSUME IInv, Serving
    PROVE  /\ up /\ job = "none" /\ step = "none" /\ man.pend = {}
           /\ Pending = {} /\ synced = logged /\ logged = ram
BY DEF Serving, IInv, Control, Steps, LogFacts, TypeOK, Pending

\* The manifest in memory records what the one on disk does, and more.
LEMMA InMemory ==
    ASSUME IInv, up
    PROVE  /\ synced \subseteq logged /\ logged \subseteq ram
           /\ \A r \in man.by : /\ r[1] \in synced /\ r[2] \in synced
                                /\ r[1] < r[2] /\ r[1] \in links[r[2]]
                                /\ replaces[r[2]] = r[1] /\ r[1] \in man.over
           /\ \A r, q \in man.by : r[1] = q[1] => r = q
           /\ man.over \subseteq synced
           /\ disk.by \subseteq man.by
<1> DEFINE finished == disk.pend \ man.pend
<1>1. /\ man.over = disk.over \cup Olds(finished) /\ man.by = disk.by \cup finished
      /\ \A r \in finished : r[2] \in synced
  BY DEF IInv, Ahead
<1>2. synced \subseteq logged /\ logged \subseteq ram
  BY DEF IInv, TypeOK, LogFacts
<1>3. ASSUME NEW r \in finished
      PROVE  /\ r[1] \in synced /\ r[2] \in synced /\ r[1] < r[2]
             /\ r[1] \in links[r[2]] /\ replaces[r[2]] = r[1] /\ r[1] \in Olds(finished)
             /\ r[1] \notin Olds(disk.by)
  <2>1. r \in disk.pend /\ r[2] \in synced /\ r[1] \in Olds(finished)
    BY <1>1, <1>3, OldsOf
  <2>2. Intent(r, disk.by) /\ r[2] \in ram \cup logged
    BY <1>2, <2>1 DEF IInv, Intents
  <2> QED
    BY <2>1, <2>2 DEF Intent
<1>4. \A c \in Olds(finished) : \E r \in finished : r[1] = c
  BY OldsOf
<1>5. man.over \subseteq synced
  <2>1. disk.over \subseteq synced
    BY DEF IInv, Recorded
  <2>2. ASSUME NEW c \in Olds(finished) PROVE c \in synced
    <3>1. PICK r \in finished : r[1] = c
      BY <1>4
    <3> QED
      BY <1>3, <3>1
  <2> QED
    BY <1>1, <2>1, <2>2
<1>6. ASSUME NEW r \in man.by, NEW q \in man.by, r[1] = q[1] PROVE r = q
  <2>1. CASE r \in disk.by /\ q \in disk.by
    BY <1>6, <2>1 DEF IInv, Recorded
  <2>2. CASE r \in finished /\ q \in finished
    BY <2>2 DEF IInv, Intents
  <2>3. CASE (r \in disk.by /\ q \in finished) \/ (q \in disk.by /\ r \in finished)
    BY <1>3, <1>6, <2>3, OldsOf
  <2> QED
    BY <1>1, <2>1, <2>2, <2>3
<1> QED
  BY <1>1, <1>2, <1>3, <1>5, <1>6 DEF IInv, Recorded

\* Saving the manifest brings disk and memory to agree.
LEMMA SaveFacts ==
    ASSUME IInv, up, disk' = man, UNCHANGED <<logged, synced, cells, engine, done>>
    PROVE  /\ TypeOK' <=> cur' \in Id \X Id \cup {NoPair}
           /\ Intents' /\ Recorded' /\ Ahead' /\ OkIsDurable'
<1> USE DEF cells, engine
<1>1. TypeOK' <=> cur' \in Id \X Id \cup {NoPair}
  BY DEF IInv, TypeOK
<1>2. Intents'
  BY DEF IInv, Intents, Intent
<1>3. Recorded'
  BY InMemory DEF IInv, Recorded
<1>4. Ahead'
  BY DEF Ahead, Olds
<1>5. OkIsDurable'
  BY InMemory DEF IInv, OkIsDurable
<1> QED
  BY <1>1, <1>2, <1>3, <1>4, <1>5

LEMMA RememberStep ==
    ASSUME SyncsItsCalls, IInv, Remember
    PROVE  IInv'
<1>1. PICK ls \in {{}} \cup {{c} : c \in ram} : Insert1(ls, 0)
  BY DEF Remember
<1>2. /\ Serving /\ up /\ job = "none" /\ step = "none" /\ Pending = {} /\ man.pend = {}
      /\ synced = logged /\ logged = ram
  BY DEF Remember, Serving, IInv, Control, Steps, LogFacts, TypeOK, Pending
<1>3. man' = [man EXCEPT !.next = @ + 1] /\ UNCHANGED <<disk, logged, synced, up, mode, done, budget>>
  BY DEF Remember
<1>4. ls \in SUBSET Id /\ 0 \in 0 .. MaxId
  BY <1>1, BoundsAssumption DEF IInv, TypeOK
<1>5. /\ man.next \in Id /\ man.next \notin ram \cup logged \cup synced
      /\ ram' = ram \cup {man.next} /\ ram' \subseteq Id
      /\ man' \in Manifest /\ man'.next = man.next + 1
      /\ man'.over = man.over /\ man'.by = man.by /\ man'.pend = man.pend
      /\ links' \in [Id -> SUBSET Id] /\ replaces' \in [Id -> 0 .. MaxId]
      /\ links'[man.next] = ls /\ replaces'[man.next] = 0
      /\ \A c \in ram \cup logged \cup synced :
            links'[c] = links[c] /\ replaces'[c] = replaces[c]
      /\ Pending' = Pending \cup {man.next}
  BY <1>1, <1>2, <1>3, <1>4, InsertFacts
<1>6. /\ \/ job' = "remember" /\ step' = "save"
         \/ job' = "drop" /\ step' = "save"
      /\ cur' \in Id \X Id \cup {NoPair}
  <2>1. PICK flush \in MayFlush :
          IF flush THEN job' = "remember" /\ step' = "save" /\ UNCHANGED cur
          ELSE IF mode.per_call THEN DropFrom(Pending \cup {man.next})
          ELSE UNCHANGED call
    BY DEF Remember
  <2>2. mode \in Modes /\ cur \in Id \X Id \cup {NoPair}
    BY DEF IInv, Control, TypeOK
  <2>3. flush \/ mode.per_call
    <3>1. CASE mode.policy = "safe"
      <4>1. MayFlush = {TRUE}
        BY <3>1 DEF MayFlush
      <4> QED
        BY <2>1, <4>1
    <3>2. CASE mode.policy # "safe"
      BY <2>2, <3>2, ModeAssumption DEF SyncsItsCalls
    <3> QED
      BY <3>1, <3>2
  <2>4. CASE flush
    BY <2>1, <2>2, <2>4
  <2>5. CASE ~flush
    <3>1. DropFrom(Pending \cup {man.next})
      BY <2>1, <2>3, <2>5
    <3>2. Pending \cup {man.next} # {}
      OBVIOUS
    <3> QED
      BY <3>1, <3>2 DEF DropFrom, FlushFrom
  <2> QED
    BY <2>4, <2>5
<1>7. TypeOK'
  BY <1>3, <1>5, <1>6 DEF IInv, TypeOK
<1>8. Control'
  BY <1>2, <1>3, <1>5, <1>6 DEF IInv, Control, Steps
<1>9. LogFacts'
  <2>1. man.next \in Int /\ ram \subseteq Int
    BY <1>5 DEF IInv, TypeOK, Id
  <2> QED
    BY <1>2, <1>3, <1>5, <1>6, <2>1 DEF IInv, LogFacts
<1>10. Intents'
  BY <1>2, <1>3, <1>5 DEF IInv, Intents, Intent, Ahead
<1>11. Recorded'
  BY <1>2, <1>3, <1>5 DEF IInv, Recorded
<1>12. Ahead'
  BY <1>2, <1>3, <1>5 DEF IInv, Ahead
<1> QED
  BY <1>3, <1>7, <1>8, <1>9, <1>10, <1>11, <1>12 DEF IInv, OkIsDurable

\* Marks and clearing them: cells that have a successor stay marked.
LEMMA MarkStep ==
    ASSUME SyncsItsCalls, IInv, NEW c \in Id, Mark(c) \/ Unmark(c)
    PROVE  IInv'
<1>1. PICK over \in SUBSET ram :
        /\ SetOver(over)
        /\ \A r \in man.by : r[1] \in over
  <2>1. up /\ man.over \subseteq ram /\ \A r \in man.by : r[1] \in man.over /\ r[1] \in Olds(man.by)
    BY InMemory, ServingFacts, OldsOf DEF Mark, Unmark, SetOver
  <2>2. CASE Mark(c)
    BY <2>1, <2>2 DEF Mark
  <2>3. CASE Unmark(c)
    BY <2>1, <2>3 DEF Unmark
  <2> QED
    BY <2>2, <2>3
<1>2. /\ Serving /\ Return /\ man' = [man EXCEPT !.over = over] /\ disk' = man'
      /\ UNCHANGED <<logged, synced, cells, up, ram, mode, done, budget>>
  BY <1>1 DEF SetOver
<1>3. /\ up /\ job = "none" /\ step = "none" /\ man.pend = {}
      /\ Pending = {} /\ synced = logged /\ logged = ram
  BY <1>2, ServingFacts
<1>4. /\ man' \in Manifest /\ man'.over = over /\ man'.by = man.by
      /\ man'.pend = {} /\ man'.next = man.next
  BY <1>2, <1>3 DEF IInv, TypeOK, Manifest
<1>5. Pending' = {}
  BY <1>2, <1>3 DEF Pending
<1>6. cur' = NoPair /\ \/ job' = "drop" /\ step' = "sync"
                       \/ job' = "none" /\ step' = "none"
  BY <1>2, <1>3, ReturnFacts DEF IInv, Control
<1>7. TypeOK'
  BY <1>2, <1>4, <1>6 DEF IInv, TypeOK, cells
<1>8. Control'
  BY <1>2, <1>3, <1>4, <1>6 DEF IInv, Control, Steps
<1>9. LogFacts'
  BY <1>2, <1>3, <1>4, <1>5 DEF IInv, LogFacts
<1>10. Intents'
  BY <1>2, <1>4 DEF IInv, Intents
<1>11. Recorded'
  BY <1>1, <1>2, <1>3, <1>4, InMemory DEF IInv, Recorded, cells
<1>12. Ahead'
  BY <1>2, <1>4 DEF Ahead, Olds
<1>13. OkIsDurable'
  BY <1>2, <1>3, <1>4, InMemory DEF IInv, OkIsDurable
<1> QED
  BY <1>7, <1>8, <1>9, <1>10, <1>11, <1>12, <1>13 DEF IInv

LEMMA SupersedeStep ==
    ASSUME SyncsItsCalls, IInv, NEW old \in Id, Supersede(old)
    PROVE  IInv'
<1> DEFINE r == <<old, man.next>>
<1>1. /\ old \in ram /\ old \notin Olds(man.by) /\ man.next \in Id
      /\ cur' = r /\ job' = "supersede" /\ step' = "intent"
      /\ man' = [man EXCEPT !.pend = Insert(@, r)]
      /\ UNCHANGED <<disk, logged, synced, cells, up, ram, mode, done, budget>>
  BY DEF Supersede
<1>2. /\ up /\ job = "none" /\ step = "none" /\ man.pend = {}
      /\ Pending = {} /\ synced = logged /\ logged = ram
  BY ServingFacts DEF Supersede
<1>3. Insert(man.pend, r) = {r}
  BY <1>2 DEF Insert
<1>4. /\ man' \in Manifest /\ man'.pend = {r}
      /\ man'.over = man.over /\ man'.by = man.by /\ man'.next = man.next
  BY <1>1, <1>3 DEF IInv, TypeOK, Manifest
<1>5. r[1] < r[2] /\ r[2] \notin ram /\ r[1] = old /\ r[2] = man.next
  BY <1>1 DEF IInv, LogFacts, Id
<1>6. r \notin disk.pend
  BY <1>2, <1>5 DEF IInv, Ahead
<1>7. Pending' = {}
  BY <1>1, <1>2 DEF Pending
<1>8. TypeOK'
  BY <1>1, <1>4 DEF IInv, TypeOK, cells
<1>9. Control'
  BY <1>1, <1>2, <1>4, <1>5 DEF IInv, Control, Steps
<1>10. LogFacts'
  BY <1>1, <1>2, <1>4, <1>7 DEF IInv, LogFacts
<1>11. Intents'
  BY <1>1, <1>2, <1>4, <1>5 DEF IInv, Intents, Intent, cells
<1>12. Recorded'
  BY <1>1, <1>2, <1>4 DEF IInv, Recorded, cells
<1>13. Ahead'
  <2>1. disk.pend \ {r} = disk.pend /\ disk.pend \ man.pend = disk.pend
    BY <1>2, <1>6
  <2> QED
    BY <1>1, <1>2, <1>4, <1>5, <2>1 DEF IInv, Ahead
<1> QED
  BY <1>1, <1>8, <1>9, <1>10, <1>11, <1>12, <1>13 DEF IInv, OkIsDurable

LEMMA SaveIntentStep ==
    ASSUME SyncsItsCalls, IInv, SaveIntent
    PROVE  IInv'
<1>1. /\ step = "intent" /\ disk' = man /\ step' = "remember" /\ UNCHANGED <<job, cur>>
      /\ UNCHANGED <<logged, synced, cells, engine, mode, done, budget>>
  BY DEF SaveIntent, GoTo
<1>2. job = "supersede" /\ up
  BY <1>1 DEF IInv, Control, Steps
<1>3. Intents' /\ Recorded' /\ Ahead' /\ OkIsDurable' /\ TypeOK'
  BY <1>1, <1>2, SaveFacts DEF IInv, TypeOK
<1>4. Control'
  BY <1>1, <1>2 DEF IInv, Control, Steps, engine
<1>5. Pending' = Pending
  BY <1>1 DEF Pending, engine
<1>6. LogFacts'
  BY <1>1, <1>2, <1>5 DEF IInv, LogFacts, engine
<1> QED
  BY <1>3, <1>4, <1>6 DEF IInv

LEMMA RememberReplacementStep ==
    ASSUME SyncsItsCalls, IInv, RememberReplacement
    PROVE  IInv'
<1>1. /\ step = "remember" /\ Insert1({cur[1]}, cur[1]) /\ man' = [man EXCEPT !.next = @ + 1]
      /\ step' = "save" /\ UNCHANGED <<job, cur>>
      /\ UNCHANGED <<disk, logged, synced, up, mode, done, budget>>
  BY DEF RememberReplacement, GoTo
<1>2. /\ job = "supersede" /\ up /\ man.pend = {cur} /\ disk.pend = {cur} /\ cur[2] = man.next
      /\ Pending = {} /\ synced = logged
  BY <1>1 DEF IInv, Control, Steps, LogFacts
<1>3. cur = <<cur[1], cur[2]>> /\ cur[1] \in Id /\ cur[2] \in Id
  BY <1>2, PairsOfIds, ManifestFields DEF IInv, TypeOK
<1>4. {cur[1]} \in SUBSET Id /\ cur[1] \in 0 .. MaxId
  BY <1>3, BoundsAssumption DEF Id
<1>5. /\ man.next \in Id /\ man.next \notin ram \cup logged \cup synced
      /\ ram' = ram \cup {man.next} /\ ram' \subseteq Id
      /\ man' \in Manifest /\ man'.next = man.next + 1
      /\ man'.over = man.over /\ man'.by = man.by /\ man'.pend = man.pend
      /\ links' \in [Id -> SUBSET Id] /\ replaces' \in [Id -> 0 .. MaxId]
      /\ links'[man.next] = {cur[1]} /\ replaces'[man.next] = cur[1]
      /\ \A c \in ram \cup logged \cup synced :
            links'[c] = links[c] /\ replaces'[c] = replaces[c]
      /\ Pending' = Pending \cup {man.next}
  BY <1>1, <1>2, <1>4, InsertFacts
<1>6. TypeOK'
  BY <1>1, <1>5 DEF IInv, TypeOK
<1>7. Control'
  BY <1>1, <1>2, <1>5 DEF IInv, Control, Steps
<1>8. LogFacts'
  <2>1. man.next \in Int /\ ram \subseteq Int
    BY <1>5 DEF IInv, TypeOK, Id
  <2> QED
    BY <1>1, <1>2, <1>5, <2>1 DEF IInv, LogFacts
<1>9. Intents'
  BY <1>1, <1>2, <1>5 DEF IInv, Intents, Intent
<1>10. Recorded'
  <2>1. <<cur[1], cur[2]>> \in man'.pend
    BY <1>2, <1>3, <1>5
  <2> QED
    BY <1>1, <1>2, <1>5, <2>1 DEF IInv, Recorded
<1>11. Ahead'
  BY <1>1, <1>2, <1>5 DEF IInv, Ahead
<1> QED
  BY <1>1, <1>6, <1>7, <1>8, <1>9, <1>10, <1>11 DEF IInv, OkIsDurable

\* The last step of supersede: the intent becomes a record, on disk or, when
\* the save fails, in memory.
LEMMA FinishFacts ==
    ASSUME IInv, step = "final", man' = ManAtStep
    PROVE  /\ job = "supersede" /\ up /\ Pending = {} /\ synced = logged /\ logged = ram
           /\ man.pend = {cur} /\ disk.pend = {cur} /\ cur \in Id \X Id
           /\ cur[1] \in synced /\ cur[2] \in synced /\ cur[1] < cur[2]
           /\ replaces[cur[2]] = cur[1] /\ cur[1] \in links[cur[2]]
           /\ cur[1] \notin Olds(man.by)
           /\ man' \in Manifest /\ man'.next = man.next /\ man'.pend = {}
           /\ man'.over = man.over \cup {cur[1]} /\ man'.by = man.by \cup {cur}
<1>1. /\ job = "supersede" /\ up /\ man.pend = {cur} /\ disk.pend = {cur} /\ cur[2] \in ram
      /\ Pending = {} /\ synced = logged /\ logged = ram
  <2>1. job = "supersede" /\ up
    BY DEF IInv, Control, Steps
  <2>2. Pending = {} /\ synced = logged /\ logged \subseteq ram
    BY <2>1 DEF IInv, LogFacts
  <2> QED
    BY <2>1, <2>2 DEF IInv, Control, Pending
<1>2. cur \in man.pend /\ cur \in Id \X Id /\ cur[1] \in Id
  BY <1>1, PairsOfIds, ManifestFields DEF IInv, TypeOK
<1>3. Intent(cur, man.by)
  BY <1>2 DEF IInv, Intents
<1>4. Insert(man.by, cur) = man.by \cup {cur}
  BY <1>3, InsertNewKey DEF Intent
<1>5. man' = [man EXCEPT !.over = @ \cup {cur[1]}, !.by = Insert(@, cur),
                         !.pend = {q \in @ : q[1] # cur[1]}]
  BY DEF ManAtStep
<1>6. {q \in man.pend : q[1] # cur[1]} = {}
  BY <1>1
<1>7. /\ man' \in Manifest /\ man'.next = man.next /\ man'.pend = {}
      /\ man'.over = man.over \cup {cur[1]} /\ man'.by = man.by \cup {cur}
  <2>1. man.over \cup {cur[1]} \in SUBSET Id /\ man.by \cup {cur} \in SUBSET (Id \X Id)
    BY <1>2, ManifestFields DEF IInv, TypeOK
  <2>2. man \in Manifest /\ {} \in SUBSET (Id \X Id)
    BY DEF IInv, TypeOK
  <2>3. man' = [man EXCEPT !.over = man.over \cup {cur[1]}, !.by = man.by \cup {cur}, !.pend = {}]
    BY <1>4, <1>5, <1>6
  <2> QED
    BY <2>1, <2>2, <2>3 DEF Manifest
<1> QED
  BY <1>1, <1>2, <1>3, <1>7 DEF Intent

LEMMA FinishSupersedeStep ==
    ASSUME SyncsItsCalls, IInv, FinishSupersede
    PROVE  IInv'
<1>1. /\ step = "final" /\ man' = ManAtStep /\ disk' = man' /\ done' = done \cup {cur} /\ Return
      /\ UNCHANGED <<logged, synced, cells, up, ram, mode, budget>>
  BY DEF FinishSupersede, ManAtStep
<1>2. /\ job = "supersede" /\ up /\ Pending = {} /\ synced = logged /\ logged = ram
      /\ man.pend = {cur} /\ disk.pend = {cur} /\ cur \in Id \X Id
      /\ cur[1] \in synced /\ cur[2] \in synced /\ cur[1] < cur[2]
      /\ replaces[cur[2]] = cur[1] /\ cur[1] \in links[cur[2]]
      /\ cur[1] \notin Olds(man.by)
      /\ man' \in Manifest /\ man'.next = man.next /\ man'.pend = {}
      /\ man'.over = man.over \cup {cur[1]} /\ man'.by = man.by \cup {cur}
  BY <1>1, FinishFacts
<1>3. Pending' = {}
  BY <1>1, <1>2 DEF Pending
<1>4. cur' = NoPair /\ \/ job' = "drop" /\ step' = "sync"
                       \/ job' = "none" /\ step' = "none"
  BY <1>1, <1>2, ReturnFacts DEF IInv, Control
<1>5. TypeOK'
  BY <1>1, <1>2, <1>4 DEF IInv, TypeOK, cells
<1>6. Control'
  BY <1>1, <1>2, <1>4 DEF IInv, Control, Steps
<1>7. LogFacts'
  BY <1>1, <1>2, <1>3 DEF IInv, LogFacts
<1>8. Intents'
  BY <1>1, <1>2 DEF Intents
<1>9. Recorded'
  <2>1. \A r \in man.by : r[1] # cur[1]
    BY <1>2, OldsOf
  <2> QED
    BY <1>1, <1>2, <2>1, InMemory DEF IInv, Recorded, cells
<1>10. Ahead'
  BY <1>1, <1>2 DEF Ahead, Olds
<1>11. OkIsDurable'
  BY <1>1, <1>2, InMemory DEF IInv, OkIsDurable
<1> QED
  BY <1>5, <1>6, <1>7, <1>8, <1>9, <1>10, <1>11 DEF IInv

LEMMA FlushSaveStep ==
    ASSUME SyncsItsCalls, IInv, FlushSave
    PROVE  IInv'
<1>1. /\ step = "save" /\ disk' = man /\ step' = "append" /\ UNCHANGED <<job, cur>>
      /\ UNCHANGED <<logged, synced, cells, engine, mode, done, budget>>
  BY DEF FlushSave, GoTo
<1>2. job \in {"remember", "supersede", "drop"} /\ up
  BY <1>1 DEF IInv, Control, Steps
<1>3. Intents' /\ Recorded' /\ Ahead' /\ OkIsDurable' /\ TypeOK'
  BY <1>1, <1>2, SaveFacts DEF IInv, TypeOK
<1>4. Control'
  BY <1>1, <1>2 DEF IInv, Control, Steps, engine
<1>5. Pending' = Pending
  BY <1>1 DEF Pending, engine
<1>6. LogFacts'
  BY <1>1, <1>2, <1>5 DEF IInv, LogFacts, engine
<1> QED
  BY <1>3, <1>4, <1>6 DEF IInv

\* The cell that waits is the newest one.
LEMMA LowestPending ==
    ASSUME IInv, Pending # {}
    PROVE  Pending = {Lowest(Pending)}
<1>1. Pending = {man.next - 1} /\ man.next - 1 \in Int
  BY ManifestFields DEF IInv, LogFacts, TypeOK
<1> QED
  BY <1>1 DEF Lowest

LEMMA FlushAppendStep ==
    ASSUME SyncsItsCalls, IInv, FlushAppend
    PROVE  IInv'
<1>1. /\ step = "append" /\ up /\ disk = man /\ logged \subseteq ram
      /\ job \in {"remember", "supersede", "drop"}
      /\ UNCHANGED <<disk, synced, cells, engine, mode, done, budget>>
  BY DEF FlushAppend, IInv, Control, Steps, LogFacts
<1>2. CASE Pending # {}
  <2>1. Pending = {Lowest(Pending)} /\ logged' = logged \cup {Lowest(Pending)} /\ UNCHANGED call
    BY <1>2, LowestPending DEF FlushAppend
  <2>2. /\ logged' \subseteq ram /\ logged \subseteq logged' /\ ram \cup logged = ram' \cup logged'
        /\ Pending' = {}
    BY <1>1, <2>1 DEF Pending, engine
  <2>3. synced = logged
    BY <1>2 DEF IInv, LogFacts
  <2>4. TypeOK'
    BY <1>1, <2>1, <2>2, <2>3 DEF IInv, TypeOK, engine, call, cells
  <2>5. Control'
    BY <1>1, <2>1 DEF IInv, Control, engine, call
  <2>6. LogFacts'
    BY <1>1, <2>1, <2>2 DEF IInv, LogFacts, engine, call
  <2>7. Intents'
    BY <1>1, <2>2 DEF IInv, Intents, Intent, engine, cells
  <2>8. Recorded'
    BY <1>1, <2>2 DEF IInv, Recorded, engine, cells
  <2>9. Ahead' /\ OkIsDurable'
    BY <1>1 DEF IInv, Ahead, OkIsDurable, engine
  <2> QED
    BY <2>4, <2>5, <2>6, <2>7, <2>8, <2>9 DEF IInv
<1>3. CASE Pending = {}
  <2>1. mode \in Modes /\ (job = "drop" => mode.per_call \/ mode.policy = "safe")
    BY ModeAssumption DEF IInv, Control, SyncsItsCalls
  <2>2. UNCHANGED logged /\ step' = "sync" /\ UNCHANGED <<job, cur>>
    BY <1>3, <2>1 DEF FlushAppend, GoTo, SyncsItsCalls
  <2>3. Pending' = Pending
    BY <1>1, <2>2 DEF Pending, engine
  <2>4. TypeOK' /\ Intents' /\ Recorded' /\ Ahead' /\ OkIsDurable'
    BY <1>1, <2>2 DEF IInv, TypeOK, Intents, Intent, Recorded, Ahead, OkIsDurable, engine, cells
  <2>5. Control'
    BY <1>1, <2>2 DEF IInv, Control, Steps, engine
  <2>6. LogFacts'
    BY <1>1, <1>3, <2>2, <2>3 DEF IInv, LogFacts, engine
  <2> QED
    BY <2>4, <2>5, <2>6 DEF IInv
<1> QED
  BY <1>2, <1>3

LEMMA FlushSyncStep ==
    ASSUME SyncsItsCalls, IInv, FlushSync
    PROVE  IInv'
<1>1. /\ step = "sync" /\ synced' = logged /\ up /\ Pending = {} /\ synced \subseteq logged
      /\ UNCHANGED <<disk, logged, cells, engine, mode, done, budget>>
  BY DEF FlushSync, IInv, Control, Steps, LogFacts, TypeOK
<1>2. Pending' = {}
  BY <1>1 DEF Pending, engine
<1>3. \/ job = "supersede" /\ job' = job /\ cur' = cur /\ step' = "final"
      \/ job = "drop" /\ job' = job /\ cur' = cur /\ step' = "close"
      \/ job = "remember" /\ job' = "drop" /\ cur' = NoPair /\ step' = "sync"
      \/ job = "remember" /\ job' = "none" /\ cur' = NoPair /\ step' = "none"
  <2>1. CASE job = "supersede"
    BY <2>1 DEF FlushSync, GoTo
  <2>2. CASE job = "drop"
    BY <2>2 DEF FlushSync, GoTo
  <2>3. CASE job = "remember"
    <3>1. Return
      BY <2>3 DEF FlushSync
    <3> QED
      BY <1>1, <2>3, <3>1, ReturnFacts DEF IInv, Control
  <2> QED
    BY <1>1, <2>1, <2>2, <2>3 DEF IInv, Control, Steps
<1>4. TypeOK'
  BY <1>1, <1>3 DEF IInv, TypeOK, engine, cells
<1>5. Control'
  BY <1>1, <1>3 DEF IInv, Control, Steps, engine
<1>6. LogFacts'
  BY <1>1, <1>2 DEF IInv, LogFacts, engine
<1>7. Intents' /\ Recorded'
  BY <1>1 DEF IInv, Intents, Intent, Recorded, engine, cells
<1>8. Ahead' /\ OkIsDurable'
  BY <1>1 DEF IInv, Ahead, OkIsDurable, engine, cells
<1> QED
  BY <1>4, <1>5, <1>6, <1>7, <1>8 DEF IInv

LEMMA DropStep ==
    ASSUME SyncsItsCalls, IInv, Drop
    PROVE  IInv'
<1>1. /\ up /\ job = "none" /\ step = "none" /\ man.pend = {}
      /\ Pending = {} /\ synced = logged /\ logged = ram
      /\ UNCHANGED <<disk, logged, synced, cells, engine, mode, done, budget>>
  BY ServingFacts DEF Drop
<1>2. job' = "drop" /\ cur' = NoPair /\ step' = "sync"
  BY <1>1 DEF Drop, DropFrom, FlushFrom, IInv, Control, SyncsItsCalls
<1>3. Pending' = {}
  BY <1>1 DEF Pending, engine
<1>4. TypeOK' /\ Intents' /\ Recorded' /\ Ahead' /\ OkIsDurable'
  BY <1>1, <1>2 DEF IInv, TypeOK, Intents, Intent, Recorded, Ahead, OkIsDurable, engine, cells
<1>5. Control'
  BY <1>1, <1>2 DEF IInv, Control, Steps, engine
<1>6. LogFacts'
  BY <1>1, <1>3 DEF IInv, LogFacts, engine
<1> QED
  BY <1>4, <1>5, <1>6 DEF IInv

-----------------------------------------------------------------------------
(* The engine goes, and a store opens.                                     *)

\* Without an engine only the disk counts; what is left of the log is synced.
LEMMA GoneStep ==
    ASSUME IInv, EngineGone, logged' \subseteq logged, synced \subseteq logged',
           synced' = logged', budget' \in 0 .. MaxFaults,
           UNCHANGED <<disk, cells, mode, done>>
    PROVE  IInv'
<1>1. /\ ~up' /\ up' \in BOOLEAN /\ man' = disk /\ ram' = {}
      /\ job' = "none" /\ step' = "none" /\ cur' = NoPair
  BY DEF EngineGone
<1>2. Pending' = {}
  BY <1>1 DEF Pending
<1>3. TypeOK'
  BY <1>1 DEF IInv, TypeOK, cells
<1>4. Control'
  BY <1>1 DEF IInv, Control, Steps
<1>5. LogFacts'
  BY <1>1, <1>2 DEF IInv, LogFacts
<1>6. Intents'
  BY <1>1 DEF IInv, Intents, Intent, cells
<1>7. Recorded'
  BY <1>1 DEF IInv, Recorded, cells
<1>8. Ahead' /\ OkIsDurable'
  BY <1>1 DEF IInv, Ahead, OkIsDurable
<1> QED
  BY <1>3, <1>4, <1>5, <1>6, <1>7, <1>8 DEF IInv

LEMMA CloseStep ==
    ASSUME SyncsItsCalls, IInv, Close
    PROVE  IInv'
<1>1. synced = logged
  BY DEF Close, IInv, LogFacts
<1> QED
  BY <1>1, GoneStep DEF Close, IInv, Control

LEMMA CrashStep ==
    ASSUME SyncsItsCalls, IInv, Crash
    PROVE  IInv'
<1>1. PICK k \in 1 .. MaxId + 1 : logged' = synced \cup {c \in logged : c < k}
  BY DEF Crash, CrashLogs
<1>2. synced \subseteq logged /\ budget \in 0 .. MaxFaults /\ budget > 0 /\ budget' = budget - 1
  BY DEF Crash, IInv, TypeOK, Control
<1>3. budget' \in 0 .. MaxFaults
  BY <1>2, BoundsAssumption
<1> QED
  BY <1>1, <1>2, <1>3, GoneStep DEF Crash, SyncsItsCalls

LEMMA StepFailsStep ==
    ASSUME SyncsItsCalls, IInv, StepFails
    PROVE  IInv'
<1>1. /\ step \in mode.fails /\ (step = "append" => Pending # {})
      /\ UNCHANGED <<disk, logged, synced, cells, mode, done>>
      /\ budget \in 0 .. MaxFaults /\ budget > 0 /\ budget' = budget - 1
      /\ mode \in Modes
  BY DEF StepFails, IInv, Control
<1>2. budget' \in 0 .. MaxFaults
  BY <1>1, BoundsAssumption
<1>3. step \in {"intent", "remember", "save", "append", "final"} /\ (mode.per_call \/ step = "final")
  BY <1>1, ModeAssumption DEF SyncsItsCalls
<1>4. synced = logged /\ job \in {"remember", "supersede", "drop"} /\ up
  BY <1>1, <1>3 DEF IInv, LogFacts, Control, Steps
<1>5. CASE job = "drop"
  BY <1>1, <1>2, <1>4, <1>5, GoneStep DEF StepFails
<1>6. CASE job # "drop"
  <2>1. man' = ManAtStep /\ Return /\ UNCHANGED <<up, ram>>
    BY <1>6 DEF StepFails
  <2>2. /\ cur' = NoPair
        /\ \/ mode.per_call /\ job' = "drop" /\ step' = IF Pending = {} THEN "sync" ELSE "save"
           \/ ~mode.per_call /\ job' = "none" /\ step' = "none"
    BY <1>1, <2>1, ReturnFacts
  <2>3. Pending' = Pending
    BY <1>1, <2>1 DEF Pending
  <2>4. CASE step = "final"
    <3>1. /\ job = "supersede" /\ up /\ Pending = {} /\ synced = logged /\ logged = ram
          /\ man.pend = {cur} /\ disk.pend = {cur} /\ cur \in Id \X Id
          /\ cur[1] \in synced /\ cur[2] \in synced /\ cur[1] < cur[2]
          /\ replaces[cur[2]] = cur[1] /\ cur[1] \in links[cur[2]]
          /\ cur[1] \notin Olds(man.by)
          /\ man' \in Manifest /\ man'.next = man.next /\ man'.pend = {}
          /\ man'.over = man.over \cup {cur[1]} /\ man'.by = man.by \cup {cur}
      BY <2>1, <2>4, FinishFacts
    <3>2. TypeOK'
      BY <1>1, <2>1, <2>2, <3>1 DEF IInv, TypeOK, cells
    <3>3. Control'
      BY <1>1, <1>2, <2>1, <2>2, <3>1 DEF IInv, Control, Steps
    <3>4. LogFacts'
      BY <1>1, <2>1, <2>3, <3>1 DEF IInv, LogFacts
    <3>5. Intents'
      BY <1>1, <2>1, <3>1 DEF IInv, Intents, Intent, cells
    <3>6. <<cur[1], cur[2]>> = cur
      BY <3>1
    <3>7. Recorded'
      BY <1>1, <2>1, <3>1, <3>6 DEF IInv, Recorded, cells
    <3>8. Ahead'
      <4>1. Olds({cur}) = {cur[1]}
        BY DEF Olds
      <4>2. man.over = disk.over /\ man.by = disk.by
        BY <3>1 DEF IInv, Ahead, Olds
      <4> QED
        BY <1>1, <3>1, <4>1, <4>2 DEF Ahead
    <3> QED
      BY <1>1, <3>2, <3>3, <3>4, <3>5, <3>7, <3>8 DEF IInv, OkIsDurable
  <2>5. CASE step # "final"
    <3>1. man' = man /\ mode.per_call
      BY <1>3, <2>1, <2>5 DEF ManAtStep
    <3>2. job' = "drop" /\ step' = IF Pending = {} THEN "sync" ELSE "save"
      BY <2>2, <3>1
    <3>3. TypeOK' /\ Intents' /\ Recorded' /\ Ahead' /\ OkIsDurable'
      BY <1>1, <2>1, <2>2, <3>1
      DEF IInv, TypeOK, Intents, Intent, Recorded, Ahead, OkIsDurable, cells
    <3>4. Control'
      BY <1>1, <1>2, <1>4, <2>1, <3>1, <3>2 DEF IInv, Control, Steps
    <3>5. LogFacts'
      BY <1>1, <1>4, <2>1, <2>3, <3>1, <3>2 DEF IInv, LogFacts
    <3> QED
      BY <3>3, <3>4, <3>5 DEF IInv
  <2> QED
    BY <2>4, <2>5
<1> QED
  BY <1>5, <1>6

\* The manifest's next id is past every cell of the log: open leaves it there.
LEMMA NextAtOpenIsNext ==
    ASSUME IInv
    PROVE  NextAtOpen(disk.next, logged) = disk.next
<1>1. /\ disk.next \in Int /\ logged \subseteq Int
      /\ \A c \in logged : c < disk.next
  BY ManifestFields DEF IInv, TypeOK, LogFacts, Id
<1> DEFINE S == {disk.next} \cup {c + 1 : c \in logged}
<1>2. /\ disk.next \in S /\ S \subseteq Int
      /\ \A x \in S : x <= disk.next
  BY <1>1
<1>3. Highest(S) \in S /\ \A y \in S : y <= Highest(S)
  BY <1>2 DEF Highest
<1>4. Highest(S) = disk.next
  <2> HIDE DEF S
  <2>1. Highest(S) \in Int /\ Highest(S) <= disk.next /\ disk.next <= Highest(S)
    BY <1>2, <1>3
  <2> QED
    BY <1>1, <2>1
<1> QED
  BY <1>4 DEF NextAtOpen

\* What a reconciled manifest says: intents whose replacement is known have
\* become records.
LEMMA ReconcileFacts ==
    ASSUME IInv, NEW known
    PROVE  /\ Finished(disk.pend, known) \subseteq disk.pend
           /\ Reconcile(disk, known) \in Manifest
           /\ Reconcile(disk, known).next = disk.next
           /\ Reconcile(disk, known).pend = {}
           /\ Reconcile(disk, known).over = disk.over \cup Olds(Finished(disk.pend, known))
           /\ Reconcile(disk, known).by = disk.by \cup Finished(disk.pend, known)
<1> DEFINE F == Finished(disk.pend, known)
<1>1. F \subseteq disk.pend
  BY DEF Finished
<1>2. disk \in Manifest /\ disk.pend \subseteq Id \X Id /\ disk.over \subseteq Id
      /\ disk.by \subseteq Id \X Id
  BY ManifestFields DEF IInv, TypeOK
<1>3. Olds(F) \subseteq Id
  BY <1>1, <1>2, PairsOfIds, OldsOf
<1>4. Olds(disk.by) \cap Olds(F) = {}
  BY <1>1, OldsOf DEF IInv, Intents, Intent
<1>5. InsertAll(disk.by, F) = disk.by \cup F
  BY <1>4, InsertAllNewKeys
<1>6. Reconcile(disk, known) = [disk EXCEPT !.over = disk.over \cup Olds(F),
                                            !.by = disk.by \cup F, !.pend = {}]
  BY <1>5 DEF Reconcile
<1>7. disk.over \cup Olds(F) \in SUBSET Id /\ disk.by \cup F \in SUBSET (Id \X Id)
      /\ {} \in SUBSET (Id \X Id)
  BY <1>1, <1>2, <1>3
<1> QED
  BY <1>1, <1>2, <1>6, <1>7 DEF Manifest

LEMMA OpenStep ==
    ASSUME SyncsItsCalls, IInv, Open
    PROVE  IInv'
<1> DEFINE F == Finished(disk.pend, logged)
           m == Reconcile(disk, logged)
<1>1. /\ ~up /\ up' /\ up' \in BOOLEAN /\ ram' = logged
      /\ UNCHANGED <<logged, synced, cells, call, mode, done, budget>>
  BY DEF Open
<1>2. man' = m /\ disk' = IF disk.pend = {} THEN disk ELSE m
  <2>1. [disk EXCEPT !.next = NextAtOpen(@, logged)] = disk
    BY NextAtOpenIsNext DEF IInv, TypeOK, Manifest
  <2> QED
    BY <2>1 DEF Open
<1>3. /\ F \subseteq disk.pend /\ m \in Manifest /\ m.next = disk.next /\ m.pend = {}
      /\ m.over = disk.over \cup Olds(F) /\ m.by = disk.by \cup F
  BY ReconcileFacts
<1>4. \A r \in disk.pend : r \in F <=> r[2] \in logged
  BY DEF Finished
<1>5. /\ synced = logged /\ job = "none" /\ step = "none" /\ Pending = {}
  BY <1>1 DEF IInv, LogFacts, Control, Steps
<1>6. /\ disk' \in Manifest /\ disk'.next = disk.next /\ disk'.pend = {}
      /\ disk'.over = disk.over \cup Olds(F) /\ disk'.by = disk.by \cup F
      /\ man'.over = disk'.over /\ man'.by = disk'.by
  <2>1. CASE disk.pend = {}
    <3>1. F = {} /\ Olds(F) = {}
      BY <1>3, <2>1, OldsOf
    <3> QED
      BY <1>2, <1>3, <2>1, <3>1 DEF IInv, TypeOK
  <2>2. CASE disk.pend # {}
    BY <1>2, <1>3, <2>2
  <2> QED
    BY <2>1, <2>2
<1>7. Pending' = {}
  BY <1>1 DEF Pending
<1>8. TypeOK'
  BY <1>1, <1>2, <1>3, <1>6 DEF IInv, TypeOK, cells, call
<1>9. Control'
  BY <1>1, <1>2, <1>3, <1>5 DEF IInv, Control, Steps, call
<1>10. LogFacts'
  BY <1>1, <1>2, <1>3, <1>5, <1>6, <1>7 DEF IInv, LogFacts, call
<1>11. Intents'
  BY <1>2, <1>3, <1>6 DEF Intents
<1>12. \A r \in F : /\ r[1] \in synced /\ r[2] \in synced /\ r[1] < r[2]
                    /\ r[1] \in links[r[2]] /\ replaces[r[2]] = r[1]
                    /\ r[1] \notin Olds(disk.by) /\ r[1] \in Olds(F)
  BY <1>3, <1>4, <1>5, OldsOf DEF IInv, Intents, Intent
<1>13. Recorded'
  <2>1. Olds(F) \subseteq synced
    BY <1>12, OldsOf
  <2>2. \A r, q \in disk'.by : r[1] = q[1] => r = q
    <3> SUFFICES ASSUME NEW r \in disk'.by, NEW q \in disk'.by, r[1] = q[1] PROVE r = q
      OBVIOUS
    <3>1. CASE r \in disk.by /\ q \in disk.by
      BY <3>1 DEF IInv, Recorded
    <3>2. CASE r \in F /\ q \in F
      BY <1>3, <3>2 DEF IInv, Intents
    <3>3. CASE (r \in disk.by /\ q \in F) \/ (q \in disk.by /\ r \in F)
      BY <1>12, <3>3, OldsOf
    <3> QED
      BY <1>6, <3>1, <3>2, <3>3
  <2>3. \A c \in logged : replaces[c] # 0 => <<replaces[c], c>> \in disk'.by
    BY <1>4, <1>6 DEF IInv, Recorded
  <2> QED
    BY <1>1, <1>6, <1>12, <2>1, <2>2, <2>3 DEF IInv, Recorded, cells
<1>14. Ahead'
  BY <1>2, <1>3, <1>6 DEF Ahead, Olds
<1>15. OkIsDurable'
  BY <1>1, <1>6 DEF IInv, OkIsDurable
<1> QED
  BY <1>8, <1>9, <1>10, <1>11, <1>13, <1>14, <1>15 DEF IInv

LEMMA NextIInv ==
    ASSUME SyncsItsCalls, IInv, [Next]_vars
    PROVE  IInv'
<1>1. CASE Remember
  BY <1>1, RememberStep
<1>2. CASE \E c \in Id : Mark(c) \/ Unmark(c) \/ Supersede(c)
  BY <1>2, MarkStep, SupersedeStep
<1>3. CASE SaveIntent \/ RememberReplacement \/ FinishSupersede
  BY <1>3, SaveIntentStep, RememberReplacementStep, FinishSupersedeStep
<1>4. CASE FlushSave \/ FlushAppend \/ FlushSync \/ Close \/ Drop
  BY <1>4, FlushSaveStep, FlushAppendStep, FlushSyncStep, CloseStep, DropStep
<1>5. CASE StepFails \/ Crash \/ Open
  BY <1>5, StepFailsStep, CrashStep, OpenStep
<1>6. CASE UNCHANGED vars
  <2>1. UNCHANGED <<disk, logged, synced, links, replaces, up, man, ram, job, step, cur, mode, done, budget>>
    BY <1>6 DEF vars, cells, engine, call
  <2>2. TypeOK' /\ Control' /\ LogFacts'
    BY <2>1 DEF IInv, TypeOK, Control, LogFacts, Pending
  <2>3. Intents' /\ Recorded'
    BY <2>1 DEF IInv, Intents, Intent, Recorded
  <2>4. Ahead' /\ OkIsDurable'
    BY <2>1 DEF IInv, Ahead, OkIsDurable
  <2> QED
    BY <2>1, <2>2, <2>3, <2>4 DEF IInv
<1> QED
  BY <1>1, <1>2, <1>3, <1>4, <1>5, <1>6 DEF Next

-----------------------------------------------------------------------------
(* The theorems.                                                           *)

\* The invariant: what the log, the manifest on disk and the one in memory
\* say of each other, wherever a supersede, a flush or a drop has got to.
THEOREM Invariance ==
    ASSUME SyncsItsCalls
    PROVE  Spec => []IInv
<1>1. Init => IInv
  BY InitIInv
<1>2. IInv /\ [Next]_vars => IInv'
  BY NextIInv
<1> QED
  BY <1>1, <1>2, PTL DEF Spec

\* Manifest, log and cells have their types, and ids stay within the bound.
THEOREM TypeCorrect ==
    ASSUME SyncsItsCalls
    PROVE  Spec => []TypeOK
<1>1. IInv => TypeOK
  BY DEF IInv
<1> QED
  BY <1>1, Invariance, PTL

\* A store that serves calls shows no two active versions of a memory and no
\* memory without one: every replacement it knows has retired its old cell,
\* every record has both its cells (supersede, reconcile_pending_supersessions).
THEOREM VersionsAlwaysAgree ==
    ASSUME SyncsItsCalls
    PROVE  Spec => []VersionsAgree
<1>1. ASSUME IInv, Serving PROVE VersionsAgree
  <2>1. /\ man.pend = {} /\ synced = logged /\ logged = ram /\ up
    BY <1>1, ServingFacts
  <2> QED
    BY <1>1, <2>1, InMemory DEF VersionsAgree, IInv, Recorded
<1>2. IInv => VersionsAgree
  BY <1>1 DEF VersionsAgree
<1> QED
  BY <1>2, Invariance, PTL

\* A supersession that returned Ok is on disk for good: its record, and both
\* its cells under an fsync.
THEOREM OkStaysDurable ==
    ASSUME SyncsItsCalls
    PROVE  Spec => []OkIsDurable
<1>1. IInv => OkIsDurable
  BY DEF IInv
<1> QED
  BY <1>1, Invariance, PTL

\* No crash leaves an intent that open cannot reconcile.
THEOREM OpenAlwaysReconciles ==
    ASSUME SyncsItsCalls
    PROVE  Spec => []OpenReconciles
<1>1. ASSUME IInv, NEW l \in CrashLogs PROVE ~ReconcileErrs(disk.pend, l)
  <2>1. synced \subseteq l /\ l \subseteq logged
    BY <1>1 DEF CrashLogs, IInv, TypeOK
  <2> QED
    BY <1>1, <2>1 DEF IInv, Intents, Intent, ReconcileErrs
<1>2. IInv => OpenReconciles
  BY <1>1 DEF OpenReconciles
<1> QED
  BY <1>2, Invariance, PTL

-----------------------------------------------------------------------------
(* Supersession implements Versions.                                       *)

\* The abstract state, in terms of the manifest on disk.
ViewOfDisk ==
    /\ View.over = disk.over \cup Olds(Finished(disk.pend, synced))
    /\ View.by = disk.by \cup Finished(disk.pend, synced)
    /\ View.over \subseteq synced

LEMMA ViewFacts == IInv => ViewOfDisk
<1> SUFFICES ASSUME IInv PROVE ViewOfDisk
  OBVIOUS
<1>1. /\ View.over = disk.over \cup Olds(Finished(disk.pend, synced))
      /\ View.by = disk.by \cup Finished(disk.pend, synced)
  BY ReconcileFacts DEF View
<1>2. \A c \in Olds(Finished(disk.pend, synced)) : c \in synced
  BY OldsOf DEF IInv, Intents, Intent, Finished
<1> QED
  BY <1>1, <1>2 DEF IInv, Recorded, ViewOfDisk

\* With an engine open the manifest in memory tells the same.
LEMMA ViewInMemory ==
    ASSUME IInv, up
    PROVE  /\ View.over = man.over \cup Olds(Finished(man.pend, synced))
           /\ View.by = man.by \cup Finished(man.pend, synced)
<1> DEFINE finished == disk.pend \ man.pend
           D == Finished(disk.pend, synced)
           M == Finished(man.pend, synced)
<1>1. /\ man.over = disk.over \cup Olds(finished) /\ man.by = disk.by \cup finished
      /\ \A r \in finished : r[2] \in synced
      /\ \A r \in man.pend \ disk.pend : r[2] = man.next
  BY DEF IInv, Ahead
<1>2. man.next \notin synced
  <2>1. man.next \notin ram /\ synced \subseteq ram
    BY ManifestFields DEF IInv, LogFacts, TypeOK, Id
  <2> QED
    BY <2>1
<1>3. D = finished \cup M
  BY <1>1, <1>2 DEF Finished
<1>4. Olds(D) = Olds(finished) \cup Olds(M)
  BY <1>3 DEF Olds
<1> QED
  BY <1>1, <1>3, <1>4, ViewFacts DEF ViewOfDisk

SameView == synced' = synced /\ View'.over = View.over /\ View'.by = View.by

\* A step that changes neither the manifest on disk nor what is synced.
LEMMA DiskSame ==
    ASSUME UNCHANGED <<disk, synced>>
    PROVE  SameView
BY DEF SameView, View, Reconcile, Finished

\* A save of the manifest in memory.
LEMMA SaveIsInvisible ==
    ASSUME SyncsItsCalls, IInv, SaveIntent \/ FlushSave
    PROVE  SameView
<1>1. up /\ disk' = man /\ synced' = synced
  BY DEF SaveIntent, FlushSave, IInv, Control, Steps
<1>2. IInv'
  BY SaveIntentStep, FlushSaveStep
<1>3. ViewOfDisk'
  BY <1>2, ViewFacts, PTL
<1> QED
  BY <1>1, <1>3, ViewInMemory DEF SameView, ViewOfDisk, Finished

\* The last step of supersede only writes down what open would conclude.
LEMMA FinishIsInvisible ==
    ASSUME SyncsItsCalls, IInv, FinishSupersede
    PROVE  SameView
<1>1. step = "final" /\ man' = ManAtStep /\ disk' = man' /\ synced' = synced
  BY DEF FinishSupersede, ManAtStep
<1>2. /\ up /\ man.pend = {cur} /\ cur[2] \in synced /\ man'.pend = {}
      /\ man'.over = man.over \cup {cur[1]} /\ man'.by = man.by \cup {cur}
  BY <1>1, FinishFacts
<1>3. ViewOfDisk'
  BY FinishSupersedeStep, ViewFacts, PTL
<1>4. Finished(man.pend, synced) = {cur} /\ Olds({cur}) = {cur[1]}
  BY <1>2 DEF Finished, Olds
<1>5. Finished(disk'.pend, synced') = {} /\ Olds({}) = {}
  BY <1>1, <1>2 DEF Finished, Olds
<1> QED
  BY <1>1, <1>2, <1>3, <1>4, <1>5, ViewInMemory DEF SameView, ViewOfDisk

\* Nor does open change what is on disk, but for writing it down.
LEMMA OpenIsInvisible ==
    ASSUME SyncsItsCalls, IInv, Open
    PROVE  SameView
<1> DEFINE F == Finished(disk.pend, synced)
<1>1. synced' = synced /\ synced = logged
  BY DEF Open, IInv, LogFacts, Control, Steps
<1>2. CASE disk.pend = {}
  BY <1>1, <1>2, DiskSame DEF Open
<1>3. CASE disk.pend # {}
  <2>1. [disk EXCEPT !.next = NextAtOpen(@, logged)] = disk
    BY NextAtOpenIsNext DEF IInv, TypeOK, Manifest
  <2>2. disk' = Reconcile(disk, synced)
    BY <1>1, <1>3, <2>1 DEF Open
  <2>3. disk' = View /\ disk'.pend = {}
    BY <2>2, ReconcileFacts DEF View
  <2>4. ViewOfDisk'
    BY OpenStep, ViewFacts, PTL
  <2>5. Finished(disk'.pend, synced') = {} /\ Olds({}) = {}
    BY <2>3 DEF Finished, Olds
  <2> QED
    BY <1>1, <2>3, <2>4, <2>5 DEF SameView, ViewOfDisk
<1> QED
  BY <1>2, <1>3

\* A mark, or the removal of one, is the abstract one.
LEMMA MarkIsMark ==
    ASSUME SyncsItsCalls, IInv, NEW c \in Id, Mark(c) \/ Unmark(c)
    PROVE  \E d \in synced : Abs!Mark(d) \/ Abs!Unmark(d)
<1>1. PICK over \in {man.over \cup {c}, man.over \ {c}} : SetOver(over)
  BY DEF Mark, Unmark
<1>2. /\ Serving /\ man' = [man EXCEPT !.over = over] /\ disk' = man'
      /\ UNCHANGED <<logged, synced>>
  BY <1>1 DEF SetOver
<1>3. /\ up /\ man.pend = {} /\ synced = logged /\ logged = ram
  BY <1>2, ServingFacts
<1>4. disk'.over = man'.over /\ disk'.by = man.by /\ disk'.pend = {}
  BY <1>2, <1>3 DEF IInv, TypeOK, Manifest
<1>5. Finished(man.pend, synced) = {} /\ Finished(disk'.pend, synced') = {} /\ Olds({}) = {}
  BY <1>3, <1>4 DEF Finished, Olds
<1>6. View.over = man.over /\ View.by = man.by /\ View.over \subseteq synced
  BY <1>3, <1>5, ViewFacts, ViewInMemory DEF ViewOfDisk
<1>7. View'.over = man'.over /\ View'.by = man.by
  <2>1. ViewOfDisk'
    BY MarkStep, ViewFacts, PTL
  <2> QED
    BY <1>4, <1>5, <2>1 DEF ViewOfDisk
<1>8. CASE Mark(c)
  <2>1. c \in synced /\ man'.over = man.over \cup {c}
    BY <1>3, <1>8 DEF Mark, SetOver, IInv, TypeOK, Manifest
  <2> QED
    BY <1>2, <1>6, <1>7, <2>1 DEF Abs!Mark
<1>9. CASE Unmark(c)
  <2>1. c \in synced /\ c \notin Olds(man.by) /\ man'.over = man.over \ {c}
    BY <1>3, <1>9 DEF Unmark, SetOver, IInv, TypeOK, Manifest
  <2> QED
    BY <1>2, <1>6, <1>7, <2>1 DEF Abs!Unmark, Abs!Olds, Olds
<1> QED
  BY <1>8, <1>9

\* What becomes durable does so with the retirement of what it replaces.
LEMMA GrowthIsPersist ==
    ASSUME IInv, ViewOfDisk', disk' = disk, synced \subseteq synced'
    PROVE  Abs!Next
<1> DEFINE F == Finished(disk.pend, synced)
           G == Finished(disk.pend, synced')
           new == synced' \ synced
           repl == View'.by \ View.by
           marked == (View'.over \cap synced') \cap new
<1>1. /\ View.over = disk.over \cup Olds(F) /\ View.by = disk.by \cup F
      /\ View.over \subseteq synced
  BY ViewFacts DEF ViewOfDisk
<1>2. /\ View'.over = disk.over \cup Olds(G) /\ View'.by = disk.by \cup G
      /\ View'.over \subseteq synced'
  BY DEF ViewOfDisk, Finished
<1>3. F \subseteq G /\ G \subseteq disk.pend
  BY DEF Finished
<1>4. ASSUME NEW r \in repl
      PROVE  /\ r \in G /\ r \in disk.pend /\ r[2] \in new /\ r[1] \in synced /\ r[1] < r[2]
             /\ r[1] \notin Olds(disk.by) /\ F = {}
  <2>1. r \in G /\ r \notin F /\ r \in disk.pend
    BY <1>1, <1>2, <1>3
  <2>2. r[2] \in new
    BY <2>1 DEF Finished
  <2>3. F = {}
    BY <1>3, <2>1 DEF IInv, Intents
  <2> QED
    BY <2>1, <2>2, <2>3 DEF IInv, Intents, Intent
<1>5. repl = {} => G \subseteq View.by
  BY <1>2
<1>6. View'.by = View.by \cup repl
  BY <1>1, <1>2, <1>3
<1>7. Olds(repl) \cap Olds(View.by) = {}
  BY <1>1, <1>4, OldsOf
<1>8. Olds(G) = Olds(F) \cup Olds(repl)
  <2>1. ASSUME NEW r \in G PROVE r \in F \/ r \in repl
    <3>1. r \notin disk.by
      BY <1>3, OldsOf DEF IInv, Intents, Intent
    <3> QED
      BY <1>1, <1>2, <3>1
  <2> QED
    BY <1>3, <1>4, <2>1 DEF Olds
<1>9. \A r, q \in repl : r = q
  BY <1>4 DEF IInv, Intents
<1>10. View'.over \cap synced' = (View.over \cap synced) \cup Olds(repl) \cup marked
  BY <1>1, <1>2, <1>8
<1>11. Abs!Persist(new, repl, marked)
  BY <1>4, <1>6, <1>7, <1>9, <1>10 DEF Abs!Persist, Abs!Olds, Olds
<1> QED
  BY <1>11 DEF Abs!Next

\* Every step of the engine is a step of Versions, or none.
LEMMA AbsNext ==
    ASSUME SyncsItsCalls, IInv, [Next]_vars
    PROVE  Abs!Next \/ SameView
<1>1. CASE Remember \/ RememberReplacement \/ FlushAppend \/ Close \/ Drop \/ StepFails
           \/ UNCHANGED vars
  BY <1>1, DiskSame
  DEF Remember, RememberReplacement, FlushAppend, Close, Drop, StepFails, vars
<1>2. ASSUME NEW c \in Id, Mark(c) \/ Unmark(c) PROVE Abs!Next
  BY <1>2, MarkIsMark DEF Abs!Next
<1>3. ASSUME NEW c \in Id, Supersede(c) PROVE SameView
  BY <1>3, DiskSame DEF Supersede
<1>4. CASE SaveIntent \/ FlushSave
  BY <1>4, SaveIsInvisible
<1>5. CASE FinishSupersede
  BY <1>5, FinishIsInvisible
<1>6. CASE Open
  BY <1>6, OpenIsInvisible
<1>7. CASE FlushSync
  <2>1. ViewOfDisk'
    BY <1>7, FlushSyncStep, ViewFacts, PTL
  <2>2. disk' = disk /\ synced \subseteq synced'
    BY <1>7 DEF FlushSync, IInv, TypeOK
  <2> QED
    BY <2>1, <2>2, GrowthIsPersist
<1>8. CASE Crash
  <2>1. ViewOfDisk'
    BY <1>8, CrashStep, ViewFacts, PTL
  <2>2. disk' = disk /\ synced \subseteq synced'
    BY <1>8 DEF Crash, CrashLogs, SyncsItsCalls
  <2> QED
    BY <2>1, <2>2, GrowthIsPersist
<1> QED
  BY <1>1, <1>2, <1>3, <1>4, <1>5, <1>6, <1>7, <1>8 DEF Next

LEMMA AbsInit == Init => Abs!Init
<1> SUFFICES ASSUME Init PROVE synced = {} /\ View.over \cap synced = {} /\ View.by = {}
  BY DEF Abs!Init
<1> QED
  BY InitIInv, ViewFacts DEF Init, ViewOfDisk, Finished, Olds

\* A replacement and the retirement of the cell it replaces become durable in
\* one step, whatever interrupts supersede and the opens after it.
THEOREM SupersessionImplementsVersions ==
    ASSUME SyncsItsCalls
    PROVE  Spec => SupersedeIsAtomic
<1>1. Init => Abs!Init
  BY AbsInit
<1>2. IInv /\ [Next]_vars => [Abs!Next]_<<synced, View.over \cap synced, View.by>>
  BY AbsNext DEF SameView
<1> QED
  BY <1>1, <1>2, Invariance, PTL DEF Spec, SupersedeIsAtomic, Abs!Spec
==============================================================================
