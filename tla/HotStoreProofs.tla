---------------------------- MODULE HotStoreProofs ----------------------------
(***************************************************************************)
(* Proofs about module HotStore, for any number of writes and faults, when  *)
(* no fault leaves the snapshot of an archived log behind.                  *)
(***************************************************************************)
EXTENDS HotStore, SequenceTheorems, TLAPS

\* Between the renaming of the log and the removal of its snapshot the process
\* does not die, and the removal itself reports no error.
SnapshotGoesWithLog == CrashAt \cap {"reset", "unsnap"} = {} /\ "unsnap" \notin FailAt

-----------------------------------------------------------------------------
(* The inductive invariant.                                                *)

FlushSteps == {"manifest", "dictionary", "append", "sync"}

StepsOf == [none       |-> {"none"},
            remember   |-> FlushSteps,
            checkpoint |-> FlushSteps \cup {"snapshot"},
            seal       |-> FlushSteps \cup {"publish", "archive", "reset", "unsnap"},
            drop       |-> FlushSteps \cup {"close"}]

Control ==
    /\ job \in DOMAIN StepsOf /\ step \in StepsOf[job]
    /\ ~up => job = "none" /\ hot = {} /\ pending = <<>> /\ appended = 0
    /\ step = "sync" => appended = Len(pending)
    /\ step \in {"snapshot", "publish", "archive", "reset", "unsnap"} => pending = <<>>
    /\ step \in {"snapshot", "publish", "archive"} => synced = Len(log)
    /\ step = "reset" => log = NoLog
    /\ step = "unsnap" => log = <<>>
    /\ step \in {"reset", "unsnap"} => synced = 0

\* The log that holds the hot cells: a seal puts it aside first.
Kept == IF step \in {"reset", "unsnap"} THEN archived ELSE log

\* The records of a log that decode, and the cells of the queue that are in no
\* log yet.
Good(l) == {l[i] : i \in 1 .. Len(l)} \ {Torn}
Queue   == Records(pending, appended + 1, Len(pending))
Live    == Good(Kept) \cup Queue

\* The log: whole records, oldest first, and after a crash perhaps one that is
\* torn, past what an fsync covers.
LogFacts ==
    /\ Kept \in Seq(Cell \cup {Torn})
    /\ synced \in 0 .. Len(Kept)
    /\ \A i \in 1 .. Len(Kept) : Kept[i] = Torn => i = Len(Kept) /\ ~up /\ synced < i
    /\ \A i \in 1 .. Len(Kept) : Kept[i] # Torn =>
           i <= Kept[i].w /\ \A j \in 1 .. i - 1 : Kept[j].w < Kept[i].w

\* The queue: what is appended is in the log, the rest is newer than it.
QueueFacts ==
    /\ \A j \in 1 .. appended : pending[j] \in Good(Kept)
    /\ \A j \in appended + 1 .. Len(pending) :
           /\ \A i \in 1 .. Len(Kept) : Kept[i].w < pending[j].w
           /\ \A i \in appended + 1 .. j - 1 : pending[i].w < pending[j].w

\* The snapshot: what a prefix of the log says that is synced.
SnapFacts ==
    snap # NoSnap =>
        /\ snap.off \in 0 .. Len(Kept)
        /\ step \notin {"reset", "unsnap"} => snap.off <= synced
        /\ snap.cells = Records(Kept, 1, snap.off)

\* Ids and writes: counters are ahead of what they have counted.
Counters ==
    /\ writes \in 0 .. MaxWrites /\ next <= writes + 1 /\ diskNext <= writes + 1
    /\ \A c \in Live : c.w <= writes
    /\ up => \A c \in sealed \cup Live : c.id < next
    /\ \A a, b \in sealed \cup Live : a.id = b.id => a = b

\* Metadata is on disk before the cells are.
Metadata ==
    /\ \A c \in sealed \cup Good(Kept) : c.id < diskNext /\ c \in diskMarks
    /\ step \in {"dictionary", "append"} => diskNext = next
    /\ step = "append" => hot \subseteq diskMarks

\* What RAM holds, and where the acknowledged cells are.
Memory ==
    /\ up => hot = Live
    /\ step \in {"archive", "reset", "unsnap"} => Live \subseteq sealed /\ acked \subseteq sealed
    /\ step \notin {"reset", "unsnap"} =>
           /\ acked \subseteq sealed \cup Records(Kept, 1, synced)
           /\ sealed \cap Live \subseteq Records(Kept, 1, synced)

IInv == /\ TypeOK /\ budget \in 0 .. MaxFaults
        /\ Control /\ LogFacts /\ QueueFacts /\ SnapFacts
        /\ Counters /\ Metadata /\ Memory

-----------------------------------------------------------------------------
(* Sequences of records.                                                   *)

LEMMA AppendIs ==
    ASSUME NEW S, NEW l \in Seq(S), NEW e \in S
    PROVE  /\ Append(l, e) \in Seq(S) /\ Len(Append(l, e)) = Len(l) + 1
           /\ \A i \in 1 .. Len(l) : Append(l, e)[i] = l[i]
           /\ Append(l, e)[Len(l) + 1] = e
BY AppendProperties

LEMMA PrefixIs ==
    ASSUME NEW S, NEW l \in Seq(S), NEW k \in 0 .. Len(l)
    PROVE  /\ SubSeq(l, 1, k) \in Seq(S) /\ Len(SubSeq(l, 1, k)) = k
           /\ \A i \in 1 .. k : SubSeq(l, 1, k)[i] = l[i]
<1>1. Len(l) \in Nat /\ k \in Nat /\ k <= Len(l)
  BY LenProperties
<1>2. \A i \in 1 .. k : l[i] \in S
  BY <1>1, ElementOfSeq
<1>3. /\ SubSeq(l, 1, k) \in Seq(S)
      /\ Len(SubSeq(l, 1, k)) = IF 1 <= k THEN k - 1 + 1 ELSE 0
      /\ \A i \in 1 .. k - 1 + 1 : SubSeq(l, 1, k)[i] = l[1 + i - 1]
  BY <1>1, <1>2, SubSeqProperties
<1>4. k - 1 + 1 = k /\ (~ (1 <= k) => k = 0) /\ \A i \in 1 .. k : 1 + i - 1 = i
  BY <1>1
<1> QED
  BY <1>3, <1>4

\* Records are what the indices say; Good leaves the torn one out.
LEMMA RecordsIs ==
    \A l, from, to, c : c \in Records(l, from, to) <=> \E i \in from .. to : l[i] = c
BY DEF Records

LEMMA GoodIs ==
    \A l, c : c \in Good(l) <=> c # Torn /\ \E i \in 1 .. Len(l) : l[i] = c
BY DEF Good

\* decode_hot_records_from on a log that is torn at its end or not at all.
LEMMA FirstBadIs ==
    ASSUME NEW S, NEW l \in Seq(S), NEW from \in 1 .. Len(l) + 1,
           \A i \in 1 .. Len(l) : l[i] = Torn => i = Len(l) /\ from <= i
    PROVE  FirstBad(l, from) = IF Torn \in {l[i] : i \in 1 .. Len(l)} THEN Len(l) ELSE Len(l) + 1
<1> DEFINE bad == {i \in from .. Len(l) : l[i] = Torn}
<1>1. Len(l) \in Nat /\ from \in Nat /\ from >= 1
  BY LenProperties
<1>2. CASE Torn \in {l[i] : i \in 1 .. Len(l)}
  <2>1. PICK i \in 1 .. Len(l) : l[i] = Torn
    BY <1>2
  <2>2. Len(l) \in bad /\ \A j \in bad : j = Len(l)
    BY <1>1, <2>1
  <2>3. bad = {Len(l)}
    BY <2>2
  <2> HIDE DEF bad
  <2>4. (CHOOSE k \in bad : \A j \in bad : k <= j) = Len(l)
    BY <1>1, <2>3
  <2> QED
    BY <1>2, <2>3, <2>4 DEF FirstBad, bad
<1>3. CASE Torn \notin {l[i] : i \in 1 .. Len(l)}
  <2>1. bad = {}
    BY <1>1, <1>3
  <2> QED
    BY <1>3, <2>1 DEF FirstBad
<1> QED
  BY <1>2, <1>3

-----------------------------------------------------------------------------
(* What is left of a log, and what an open makes of it.                    *)

\* A log as a crash may leave it: what was synced, more of the log perhaps,
\* and at most one torn record, at its end.
IsCut(l) ==
    /\ l \in Seq(Cell \cup {Torn}) /\ synced <= Len(l)
    /\ \A i \in 1 .. Len(l) :
           \/ l[i] = Torn /\ i = Len(l) /\ synced < i
           \/ l[i] # Torn /\ i <= Len(log) /\ l[i] = log[i]

LEMMA LogIs ==
    ASSUME IInv, step \notin {"reset", "unsnap"}
    PROVE  /\ Kept = log /\ log \in Seq(Cell \cup {Torn}) /\ log # NoLog /\ Len(log) \in Nat
           /\ synced \in Nat /\ synced <= Len(log) /\ IsCut(log)
<1>1. Kept = log
  BY DEF Kept
<1>2. log \in Seq(Cell \cup {Torn}) /\ synced \in 0 .. Len(log)
  BY <1>1 DEF IInv, LogFacts
<1>3. Len(log) \in Nat
  BY <1>2, LenProperties
<1>4. log # NoLog
  BY <1>2, ValueAssumption
<1>5. IsCut(log)
  BY <1>1, <1>2, <1>3 DEF IInv, LogFacts, IsCut
<1> QED
  BY <1>1, <1>2, <1>3, <1>4, <1>5

\* A crash leaves a cut of the log.
LEMMA CrashCuts ==
    ASSUME IInv, step \notin {"reset", "unsnap"}, NEW l \in CrashLogs
    PROVE  IsCut(l)
<1>1. /\ Kept = log /\ log \in Seq(Cell \cup {Torn}) /\ log # NoLog /\ Len(log) \in Nat
      /\ synced \in Nat /\ synced <= Len(log)
  BY LogIs
<1>2. \A i \in 1 .. Len(log) : log[i] = Torn => i = Len(log) /\ ~up /\ synced < i
  BY <1>1 DEF IInv, LogFacts
<1>3. step = "append" => up
  BY DEF IInv, Control, StepsOf
<1>4. PICK k \in synced .. Len(log) :
        \/ l = SubSeq(log, 1, k)
        \/ l = Append(SubSeq(log, 1, k), Torn) /\ (k < Len(log) \/ up)
  <2>1. PICK b \in {SubSeq(log, 1, k) : k \in synced .. Len(log)} :
          \/ l = b
          \/ l = Append(b, Torn) /\ (Len(b) < Len(log) \/ step = "append")
    BY <1>1 DEF CrashLogs
  <2>2. PICK k \in synced .. Len(log) : b = SubSeq(log, 1, k)
    BY <2>1
  <2>3. Len(b) = k
    BY <1>1, <2>2, PrefixIs
  <2> QED
    BY <1>3, <2>1, <2>2, <2>3
<1> DEFINE b == SubSeq(log, 1, k)
<1>5. /\ b \in Seq(Cell \cup {Torn}) /\ Len(b) = k /\ \A i \in 1 .. k : b[i] = log[i]
      /\ k \in Nat /\ synced <= k /\ k <= Len(log)
  BY <1>1, <1>4, PrefixIs
<1> HIDE DEF b
<1>6. CASE l = b
  BY <1>1, <1>2, <1>5, <1>6 DEF IsCut
<1>7. CASE l = Append(b, Torn) /\ (k < Len(log) \/ up)
  <2>1. /\ l \in Seq(Cell \cup {Torn}) /\ Len(l) = k + 1
        /\ \A i \in 1 .. k : l[i] = log[i]
        /\ l[k + 1] = Torn
    BY <1>5, <1>7, AppendIs
  <2>2. \A i \in 1 .. k : log[i] # Torn
    BY <1>1, <1>2, <1>5, <1>7
  <2> QED
    BY <1>1, <1>5, <2>1, <2>2 DEF IsCut
<1> QED
  BY <1>4, <1>6, <1>7 DEF b

\* The snapshot stays usable, and the replay goes on where it ends.
LEMMA ReplayIs ==
    ASSUME IInv, step \notin {"reset", "unsnap"}, NEW l, IsCut(l)
    PROVE  /\ snap # NoSnap => UsableSnap(l) /\ ReplayFrom(l) = snap.off + 1 /\ snap.off \in 0 .. synced
                               /\ snap.cells = Records(log, 1, snap.off)
           /\ snap = NoSnap => ~UsableSnap(l) /\ ReplayFrom(l) = 1
           /\ ReplayFrom(l) \in 1 .. synced + 1
           /\ FirstBad(l, ReplayFrom(l)) =
                  IF Torn \in {l[i] : i \in 1 .. Len(l)} THEN Len(l) ELSE Len(l) + 1
<1>1. Kept = log /\ synced \in Nat /\ Len(log) \in Nat /\ synced <= Len(log)
  BY LogIs
<1>2. l \in Seq(Cell \cup {Torn}) /\ Len(l) \in Nat /\ synced <= Len(l)
  BY LenProperties DEF IsCut
<1>3. snap # NoSnap => /\ snap.off \in 0 .. synced /\ snap.cells = Records(log, 1, snap.off)
                       /\ UsableSnap(l) /\ ReplayFrom(l) = snap.off + 1
  BY <1>1, <1>2 DEF IInv, SnapFacts, UsableSnap, ReplayFrom
<1>4. snap = NoSnap => ~UsableSnap(l) /\ ReplayFrom(l) = 1
  BY DEF NoSnap, UsableSnap, ReplayFrom
<1>5. ReplayFrom(l) \in 1 .. synced + 1
  BY <1>1, <1>3, <1>4
<1>6. \A i \in 1 .. Len(l) : l[i] = Torn => i = Len(l) /\ ReplayFrom(l) <= i
  BY <1>1, <1>2, <1>5 DEF IsCut
<1>7. ReplayFrom(l) \in 1 .. Len(l) + 1
  BY <1>1, <1>2, <1>5
<1> HIDE DEF IsCut
<1>8. FirstBad(l, ReplayFrom(l)) = IF Torn \in {l[i] : i \in 1 .. Len(l)} THEN Len(l) ELSE Len(l) + 1
  BY <1>2, <1>6, <1>7, FirstBadIs
<1> QED
  BY <1>3, <1>4, <1>5, <1>8

\* An open succeeds and recovers the whole records, among them the synced.
LEMMA RecoversCut ==
    ASSUME IInv, step \notin {"reset", "unsnap"}, NEW l, IsCut(l)
    PROVE  /\ ~OpenErrs(l) /\ Recovered(l) = Good(l)
           /\ Records(log, 1, synced) \subseteq Good(l)
<1>1. Kept = log /\ synced \in Nat /\ Len(log) \in Nat /\ synced <= Len(log)
  BY LogIs
<1>2. /\ l \in Seq(Cell \cup {Torn}) /\ Len(l) \in Nat /\ synced <= Len(l) /\ l # NoLog
      /\ \A i \in 1 .. Len(l) : \/ l[i] = Torn /\ i = Len(l) /\ synced < i
                                \/ l[i] # Torn /\ i <= Len(log) /\ l[i] = log[i]
  BY LenProperties, ValueAssumption DEF IsCut
<1> DEFINE from == ReplayFrom(l)
           bad == FirstBad(l, from)
<1>3. /\ from \in 1 .. synced + 1
      /\ bad = IF Torn \in {l[i] : i \in 1 .. Len(l)} THEN Len(l) ELSE Len(l) + 1
  BY ReplayIs
<1>4. ~OpenErrs(l)
  BY <1>1, <1>2, <1>3 DEF OpenErrs, ReplayErrs
<1>5. \A i \in 1 .. synced : l[i] = log[i] /\ l[i] # Torn
  BY <1>1, <1>2
<1>6. Records(l, from, bad - 1) = {l[i] : i \in from .. Len(l)} \ {Torn}
  <2>1. CASE Torn \in {l[i] : i \in 1 .. Len(l)}
    <3>1. bad = Len(l) /\ l[Len(l)] = Torn /\ \A i \in 1 .. Len(l) - 1 : l[i] # Torn
      BY <1>1, <1>2, <1>3, <2>1
    <3> QED
      BY <1>1, <1>2, <1>3, <3>1 DEF Records
  <2>2. CASE Torn \notin {l[i] : i \in 1 .. Len(l)}
    BY <1>1, <1>2, <1>3, <2>2 DEF Records
  <2> QED
    BY <2>1, <2>2
<1>7. CASE snap # NoSnap
  <2>1. /\ UsableSnap(l) /\ from = snap.off + 1 /\ snap.off \in 0 .. synced
        /\ snap.cells = Records(log, 1, snap.off)
    BY <1>7, ReplayIs
  <2>2. snap.cells = {l[i] : i \in 1 .. snap.off} \ {Torn}
    BY <1>1, <1>5, <2>1 DEF Records
  <2>3. Recovered(l) = snap.cells \cup Records(l, from, bad - 1)
    BY <1>2, <2>1 DEF Recovered
  <2>4. 1 .. Len(l) = (1 .. snap.off) \cup (from .. Len(l))
    BY <1>1, <1>2, <2>1
  <2>5. Recovered(l) = Good(l)
    BY <1>6, <2>2, <2>3, <2>4 DEF Good
  <2> QED
    BY <1>1, <1>2, <1>4, <1>5, <2>5 DEF Good, Records
<1>8. CASE snap = NoSnap
  <2>1. ~UsableSnap(l) /\ from = 1
    BY <1>8, ReplayIs
  <2>2. Recovered(l) = Good(l)
    BY <1>2, <1>6, <2>1 DEF Recovered, Good
  <2> QED
    BY <1>1, <1>2, <1>4, <1>5, <2>2 DEF Good, Records
<1> QED
  BY <1>7, <1>8

-----------------------------------------------------------------------------
(* Types and frames.                                                       *)

\* There are no more records than writes: a record is no older than its place.
LEMMA LogBound ==
    LogFacts => synced \in 0 .. MaxWrites /\ (up => Len(Kept) \in 0 .. MaxWrites)
<1> SUFFICES ASSUME LogFacts
             PROVE  synced \in 0 .. MaxWrites /\ (up => Len(Kept) \in 0 .. MaxWrites)
  OBVIOUS
<1>1. Kept \in Seq(Cell \cup {Torn}) /\ Len(Kept) \in Nat /\ synced \in 0 .. Len(Kept)
  BY LenProperties DEF LogFacts
<1>2. ASSUME NEW n \in 1 .. Len(Kept), Kept[n] # Torn
      PROVE  n <= MaxWrites
  <2>1. Kept[n] \in Cell
    BY <1>1, <1>2, ElementOfSeq
  <2>2. n <= Kept[n].w /\ Kept[n].w \in 1 .. MaxWrites
    BY <1>2, <2>1 DEF LogFacts, Cell
  <2> QED
    BY <1>1, <2>2, BoundsAssumption
<1>3. synced > 0 => Kept[synced] # Torn
  BY <1>1 DEF LogFacts
<1>4. up /\ Len(Kept) > 0 => Kept[Len(Kept)] # Torn
  BY <1>1 DEF LogFacts
<1> QED
  BY <1>1, <1>2, <1>3, <1>4, BoundsAssumption

LEMMA LogBoundNext ==
    LogFacts' => (synced \in 0 .. MaxWrites /\ (up => Len(Kept) \in 0 .. MaxWrites))'
BY LogBound, PTL

\* The calls and their steps.
LEMMA StepTable ==
    /\ DOMAIN StepsOf = {"none", "remember", "checkpoint", "seal", "drop"}
    /\ StepsOf["none"] = {"none"}
    /\ StepsOf["remember"] = {"manifest", "dictionary", "append", "sync"}
    /\ StepsOf["checkpoint"] = {"manifest", "dictionary", "append", "sync", "snapshot"}
    /\ StepsOf["seal"] = {"manifest", "dictionary", "append", "sync",
                          "publish", "archive", "reset", "unsnap"}
    /\ StepsOf["drop"] = {"manifest", "dictionary", "append", "sync", "close"}
BY DEF StepsOf, FlushSteps

LEMMA JobOf ==
    ASSUME IInv
    PROVE  /\ job = "none" <=> step = "none"
           /\ job \in {"none", "remember", "checkpoint", "seal", "drop"}
           /\ step = "snapshot" => job = "checkpoint"
           /\ step \in {"publish", "archive", "reset", "unsnap"} => job = "seal"
           /\ step = "close" => job = "drop"
           /\ job # "none" => up
           /\ step \in {"manifest", "dictionary", "append", "sync", "snapshot", "publish",
                        "archive", "reset", "unsnap", "close", "none"}
<1>1. job \in DOMAIN StepsOf /\ step \in StepsOf[job] /\ (~up => job = "none")
  BY DEF IInv, Control
<1>2. \/ job = "none" /\ step \in StepsOf["none"]
      \/ job = "remember" /\ step \in StepsOf["remember"]
      \/ job = "checkpoint" /\ step \in StepsOf["checkpoint"]
      \/ job = "seal" /\ step \in StepsOf["seal"]
      \/ job = "drop" /\ step \in StepsOf["drop"]
  BY <1>1, StepTable
<1> QED
  BY <1>1, <1>2, StepTable

\* The log, its snapshot and the queue are left alone.
LEMMA ShapeFrame ==
    ASSUME IInv, Kept' = Kept, UNCHANGED <<synced, snap, pending, appended, up>>,
           step' \notin {"reset", "unsnap"} => step \notin {"reset", "unsnap"}
    PROVE  /\ LogFacts' /\ QueueFacts' /\ SnapFacts'
           /\ Good(Kept)' = Good(Kept) /\ Live' = Live
<1>1. Good(Kept)' = Good(Kept) /\ Queue' = Queue /\ Live' = Live
  BY DEF Good, Queue, Records, Live
<1>2. LogFacts'
  BY DEF IInv, LogFacts
<1>3. QueueFacts'
  BY <1>1 DEF IInv, QueueFacts
<1>4. SnapFacts'
  BY DEF IInv, SnapFacts, Records
<1> QED
  BY <1>1, <1>2, <1>3, <1>4

\* A step that changes the counters and the dictionary on disk at most.
LEMMA QuietStep ==
    ASSUME IInv,
           UNCHANGED <<log, synced, snap, sealed, archived, ram, writes, acked>>,
           step \notin {"reset", "unsnap"},
           job' \in DOMAIN StepsOf, step' \in StepsOf[job'],
           step' \notin {"publish", "archive", "reset", "unsnap", "snapshot"},
           job' # "none" => up,
           step' = "sync" => appended = Len(pending),
           diskNext' = diskNext \/ (up /\ diskNext' = next),
           diskMarks' \in {diskMarks, diskMarks \cup hot},
           step' \in {"dictionary", "append"} => diskNext' = next,
           step' = "append" => hot \subseteq diskMarks',
           budget' \in 0 .. MaxFaults
    PROVE  IInv'
<1> USE DEF ram
<1>1. Kept' = Kept
  BY DEF Kept
<1>2. LogFacts' /\ QueueFacts' /\ SnapFacts' /\ Good(Kept)' = Good(Kept) /\ Live' = Live
  BY <1>1, ShapeFrame
<1>3. TypeOK'
  BY DEF IInv, TypeOK
<1>4. Control'
  BY DEF IInv, Control
<1>5. Counters'
  BY <1>2 DEF IInv, Counters, TypeOK
<1>6. Metadata'
  <2>1. \A c \in sealed \cup Good(Kept) : c.id < diskNext /\ c \in diskMarks
    BY DEF IInv, Metadata
  <2>2. up => \A c \in sealed \cup Good(Kept) : c.id < next
    BY DEF IInv, Counters, Live
  <2> QED
    BY <1>2, <2>1, <2>2 DEF Metadata
<1>7. Memory'
  BY <1>1, <1>2 DEF IInv, Memory, Records
<1> QED
  BY <1>2, <1>3, <1>4, <1>5, <1>6, <1>7 DEF IInv

-----------------------------------------------------------------------------
(* The calls.                                                              *)

LEMMA InitIInv == Init => IInv
<1> SUFFICES ASSUME Init PROVE IInv
  OBVIOUS
<1>1. /\ Kept = <<>> /\ log = <<>> /\ pending = <<>> /\ appended = 0 /\ synced = 0 /\ snap = NoSnap
      /\ job = "none" /\ step = "none" /\ hot = {} /\ sealed = {} /\ acked = {} /\ writes = 0
      /\ diskNext = 1 /\ next = 1 /\ diskMarks = {} /\ up /\ budget = MaxFaults
  BY DEF Init, Kept
<1>2. <<>> \in Seq(Cell \cup {Torn}) /\ <<>> \in Seq(Cell) /\ Len(<<>>) = 0
  BY EmptySeq
<1>3. Good(Kept) = {} /\ Queue = {} /\ Live = {}
  BY <1>1, <1>2 DEF Good, Queue, Records, Live
<1>4. TypeOK
  BY <1>1, <1>2, BoundsAssumption DEF TypeOK, Id
<1>5. Control
  BY <1>1, StepTable DEF Control
<1>6. LogFacts /\ QueueFacts /\ SnapFacts
  BY <1>1, <1>2 DEF LogFacts, QueueFacts, SnapFacts
<1>7. Counters /\ Metadata /\ Memory
  BY <1>1, <1>3, BoundsAssumption DEF Counters, Metadata, Memory
<1> QED
  BY <1>1, <1>4, <1>5, <1>6, <1>7, BoundsAssumption DEF IInv

\* remember gives the cell an id that no durable or hot cell has, and puts it
\* behind everything that is in the log or in the queue.
LEMMA RememberStep == IInv /\ Remember => IInv'
<1> SUFFICES ASSUME IInv, Remember PROVE IInv'
  OBVIOUS
<1> DEFINE cell == [id |-> next, w |-> writes + 1]
<1>1. /\ up /\ job = "none" /\ step = "none" /\ writes < MaxWrites
      /\ hot' = hot \cup {cell} /\ pending' = Append(pending, cell)
      /\ next' = next + 1 /\ writes' = writes + 1
      /\ UNCHANGED <<disk, up, appended, policy, acked, budget>>
      /\ \/ job' = "remember" /\ step' = "manifest"
         \/ UNCHANGED <<job, step>>
  BY JobOf DEF Remember, Serving, TakeId
<1>2. /\ Kept = log /\ Kept' = log /\ Len(log) \in Nat /\ log \in Seq(Cell \cup {Torn})
  BY <1>1, LogIs DEF Kept, disk
<1>3. /\ writes \in Nat /\ MaxWrites \in Nat /\ next \in Int /\ next >= 1 /\ next <= writes + 1
  BY BoundsAssumption DEF IInv, Counters, TypeOK, Id
<1>4. cell \in Cell
  BY <1>1, <1>3 DEF Cell, Id
<1>5. /\ pending \in Seq(Cell) /\ Len(pending) \in Nat /\ appended \in 0 .. Len(pending)
      /\ pending' \in Seq(Cell) /\ Len(pending') = Len(pending) + 1
      /\ \A j \in 1 .. Len(pending) : pending'[j] = pending[j]
      /\ pending'[Len(pending) + 1] = cell
  BY <1>1, <1>4, AppendIs, LenProperties DEF IInv, TypeOK
<1>6. cell.id = next /\ cell.w = writes + 1
  OBVIOUS
<1> HIDE DEF cell
<1>7. Good(Kept)' = Good(Kept) /\ Queue' = Queue \cup {cell}
      /\ Live' = Live \cup {cell}
  <2>1. Good(Kept)' = Good(Kept)
    BY <1>2 DEF Good
  <2>2. Queue' = Queue \cup {cell}
    <3>1. appended + 1 .. Len(pending') = (appended + 1 .. Len(pending)) \cup {Len(pending) + 1}
      BY <1>5
    <3>2. appended' = appended
      BY <1>1
    <3> QED
      BY <1>5, <3>1, <3>2 DEF Queue, Records
  <2> QED
    BY <1>2, <2>1, <2>2 DEF Live
<1>8. TypeOK' /\ Control'
  <2>1. TypeOK'
    BY <1>1, <1>3, <1>4, <1>5 DEF IInv, TypeOK, disk, Id
  <2>2. Control'
    BY <1>1, StepTable DEF IInv, Control, disk
  <2> QED
    BY <2>1, <2>2
<1>9. LogFacts' /\ SnapFacts'
  BY <1>1, <1>2 DEF IInv, LogFacts, SnapFacts, disk, Records
<1>10. QueueFacts'
  <2>1. \A c \in Live : c.w < cell.w
    <3> TAKE c \in Live
    <3>1. c \in Cell /\ c.w <= writes
      BY <1>1, <1>5, ElementOfSeq DEF IInv, Counters, Memory, TypeOK
    <3> QED
      BY <1>3, <1>6, <3>1 DEF Cell
  <2>2. \A i \in 1 .. Len(Kept) : Kept[i] \in Live
    BY <1>1, <1>2 DEF IInv, LogFacts, Live, Good
  <2>3. \A i \in appended + 1 .. Len(pending) : pending[i] \in Live
    BY DEF Live, Queue, Records
  <2>4. \A j \in 1 .. appended' : pending'[j] \in Good(Kept)'
    BY <1>1, <1>5, <1>7 DEF IInv, QueueFacts
  <2>5. ASSUME NEW j \in appended' + 1 .. Len(pending')
        PROVE  /\ \A i \in 1 .. Len(Kept') : Kept'[i].w < pending'[j].w
               /\ \A i \in appended' + 1 .. j - 1 : pending'[i].w < pending'[j].w
    <3>1. CASE j \in appended + 1 .. Len(pending)
      BY <1>1, <1>2, <1>5, <3>1 DEF IInv, QueueFacts
    <3>2. CASE j = Len(pending) + 1
      BY <1>1, <1>2, <1>5, <2>1, <2>2, <2>3, <3>2
    <3>3. j \in appended + 1 .. Len(pending) \/ j = Len(pending) + 1
      BY <1>1, <1>5
    <3> QED
      BY <3>1, <3>2, <3>3
  <2> QED
    BY <2>4, <2>5 DEF QueueFacts
<1>11. Counters'
  <2>1. \A c \in sealed \cup Live : c.id < next
    BY <1>1 DEF IInv, Counters
  <2>2. \A c \in sealed \cup Live : c \in Cell
    BY <1>1 DEF IInv, Memory, TypeOK
  <2>3. \A c \in sealed' \cup Live' : c.id < next'
    BY <1>1, <1>3, <1>6, <1>7, <2>1, <2>2 DEF Cell, Id, disk
  <2>4. \A a, b \in sealed' \cup Live' : a.id = b.id => a = b
    BY <1>1, <1>3, <1>6, <1>7, <2>1, <2>2 DEF IInv, Counters, Cell, Id, disk
  <2>5. \A c \in Live' : c.w <= writes'
    BY <1>1, <1>3, <1>6, <1>7, <2>2 DEF IInv, Counters, Cell
  <2>6. diskNext' <= writes' + 1 /\ next' <= writes' + 1 /\ writes' \in 0 .. MaxWrites
    BY <1>1, <1>3 DEF IInv, Counters, TypeOK, Id, disk
  <2> QED
    BY <2>3, <2>4, <2>5, <2>6 DEF Counters
<1>12. Metadata'
  BY <1>1, <1>7 DEF IInv, Metadata, disk
<1>13. Memory'
  <2>1. cell \notin sealed
    BY <1>1, <1>3, <1>6 DEF IInv, Counters, TypeOK, Cell, Id
  <2> QED
    BY <1>1, <1>2, <1>7, <2>1 DEF IInv, Memory, disk, Records
<1> QED
  BY <1>1, <1>8, <1>9, <1>10, <1>11, <1>12, <1>13 DEF IInv, disk

\* The calls that flush first.
LEMMA BeginStep == IInv /\ (Checkpoint \/ Seal \/ Drop) => IInv'
<1> SUFFICES ASSUME IInv, Checkpoint \/ Seal \/ Drop PROVE IInv'
  OBVIOUS
<1>1. /\ up /\ job = "none" /\ step = "none"
      /\ job' \in {"checkpoint", "seal", "drop"} /\ step' \in {"sync", "manifest"}
      /\ step' = "sync" => pending = <<>>
      /\ UNCHANGED <<disk, ram, policy, writes, acked, budget>>
  BY JobOf DEF Checkpoint, Seal, Drop, Begin, Serving, FlushFrom
<1>2. step' = "sync" => appended = Len(pending)
  BY <1>1, EmptySeq DEF IInv, TypeOK
<1>3. job' \in DOMAIN StepsOf /\ step' \in StepsOf[job']
  BY <1>1, StepTable
<1> QED
  BY <1>1, <1>2, <1>3, QuietStep DEF IInv, disk

-----------------------------------------------------------------------------
(* flush_pending_hot.                                                      *)

LEMMA FlushManifestStep == IInv /\ FlushManifest => IInv'
<1> SUFFICES ASSUME IInv, FlushManifest PROVE IInv'
  OBVIOUS
<1>1. /\ step = "manifest" /\ diskNext' = next /\ job' = job /\ step' = "dictionary"
      /\ job \in {"remember", "checkpoint", "seal", "drop"} /\ up
      /\ UNCHANGED <<log, synced, snap, sealed, archived, diskMarks, ram, policy, writes, acked, budget>>
  BY JobOf DEF FlushManifest, GoTo
<1>2. job' \in DOMAIN StepsOf /\ step' \in StepsOf[job']
  BY <1>1, StepTable
<1> QED
  BY <1>1, <1>2, QuietStep DEF IInv, ram

LEMMA FlushDictionaryStep == IInv /\ FlushDictionary => IInv'
<1> SUFFICES ASSUME IInv, FlushDictionary PROVE IInv'
  OBVIOUS
<1>1. /\ step = "dictionary" /\ diskMarks' = diskMarks \cup hot /\ job' = job /\ step' = "append"
      /\ job \in {"remember", "checkpoint", "seal", "drop"} /\ up
      /\ UNCHANGED <<log, synced, snap, sealed, archived, diskNext, ram, policy, writes, acked, budget>>
  BY JobOf DEF FlushDictionary, GoTo
<1>2. job' \in DOMAIN StepsOf /\ step' \in StepsOf[job'] /\ diskNext' = next'
  BY <1>1, StepTable DEF IInv, Metadata, ram
<1> QED
  BY <1>1, <1>2, QuietStep DEF IInv, ram

\* The next cell of the queue becomes the last record of the log.
LEMMA AppendOneStep == IInv /\ FlushAppend /\ appended < Len(pending) => IInv'
<1> SUFFICES ASSUME IInv, FlushAppend, appended < Len(pending) PROVE IInv'
  OBVIOUS
<1> DEFINE cell == pending[appended + 1]
<1>1. /\ step = "append" /\ up /\ log' = Append(LogFile, cell) /\ appended' = appended + 1
      /\ UNCHANGED <<pending, job, step, synced, snap, sealed, archived, diskNext, diskMarks, up, hot,
                     next, policy, writes, acked, budget>>
  BY JobOf DEF FlushAppend, NextToAppend
<1>2. /\ Kept = log /\ log \in Seq(Cell \cup {Torn}) /\ Len(log) \in Nat /\ log # NoLog
      /\ synced \in Nat /\ synced <= Len(log)
  BY <1>1, LogIs
<1>3. /\ pending \in Seq(Cell) /\ Len(pending) \in Nat /\ appended \in 0 .. Len(pending)
      /\ appended + 1 \in 1 .. Len(pending) /\ cell \in Cell /\ cell # Torn
  BY LenProperties, ElementOfSeq, ValueAssumption DEF IInv, TypeOK
<1> HIDE DEF cell
<1>4. /\ log' \in Seq(Cell \cup {Torn}) /\ Len(log') = Len(log) + 1
      /\ \A i \in 1 .. Len(log) : log'[i] = log[i]
      /\ log'[Len(log) + 1] = cell
  BY <1>1, <1>2, <1>3, AppendIs DEF LogFile
<1>5. Kept' = log'
  BY <1>1 DEF Kept
<1>6. Good(Kept)' = Good(Kept) \cup {cell}
  <2>1. 1 .. Len(log') = (1 .. Len(log)) \cup {Len(log) + 1}
    BY <1>2, <1>4
  <2> QED
    BY <1>2, <1>3, <1>4, <1>5, <2>1 DEF Good
<1>7. Queue = Queue' \cup {cell}
  <2>1. appended + 1 .. Len(pending) = {appended + 1} \cup (appended' + 1 .. Len(pending))
    BY <1>1, <1>3
  <2> QED
    BY <1>1, <2>1 DEF Queue, Records, cell
<1>8. Live' = Live
  BY <1>6, <1>7 DEF Live
<1>9. \A i \in 1 .. Len(log) : log[i] # Torn /\ log[i].w < cell.w
  BY <1>1, <1>2, <1>3 DEF IInv, LogFacts, QueueFacts, cell
<1>10. LogFacts'
  <2>1. Len(log) + 1 <= cell.w
    <3>1. cell.w \in 1 .. MaxWrites
      BY <1>3 DEF Cell
    <3>2. CASE Len(log) = 0
      BY <3>1, <3>2, BoundsAssumption
    <3>3. CASE Len(log) > 0
      <4>1. Len(log) <= log[Len(log)].w /\ log[Len(log)].w < cell.w
        BY <1>2, <1>9, <3>3 DEF IInv, LogFacts
      <4>2. log[Len(log)] \in Cell
        BY <1>2, <1>9, <3>3, ElementOfSeq
      <4> QED
        BY <1>2, <3>1, <4>1, <4>2, BoundsAssumption DEF Cell
    <3> QED
      BY <1>2, <3>2, <3>3
  <2>2. ASSUME NEW i \in 1 .. Len(log')
        PROVE  /\ log'[i] # Torn /\ i <= log'[i].w
               /\ \A j \in 1 .. i - 1 : log'[j].w < log'[i].w
    <3>1. CASE i \in 1 .. Len(log)
      BY <1>2, <1>4, <1>9, <3>1 DEF IInv, LogFacts
    <3>2. CASE i = Len(log) + 1
      <4>1. log'[i] = cell /\ \A j \in 1 .. i - 1 : j \in 1 .. Len(log) /\ log'[j] = log[j]
        BY <1>2, <1>4, <3>2
      <4> QED
        BY <1>3, <1>9, <2>1, <3>2, <4>1
    <3>3. i \in 1 .. Len(log) \/ i = Len(log) + 1
      BY <1>2, <1>4
    <3> QED
      BY <3>1, <3>2, <3>3
  <2>3. synced' \in 0 .. Len(log')
    BY <1>1, <1>2, <1>4
  <2> QED
    BY <1>4, <1>5, <2>2, <2>3 DEF LogFacts
<1>11. QueueFacts'
  <2>1. \A j \in 1 .. appended' : pending'[j] \in Good(Kept)'
    <3>1. 1 .. appended' = (1 .. appended) \cup {appended + 1}
      BY <1>1, <1>3
    <3> QED
      BY <1>1, <1>6, <3>1 DEF IInv, QueueFacts, cell
  <2>2. ASSUME NEW j \in appended' + 1 .. Len(pending')
        PROVE  /\ \A i \in 1 .. Len(log') : log'[i].w < pending'[j].w
               /\ \A i \in appended' + 1 .. j - 1 : pending'[i].w < pending'[j].w
    <3>1. j \in appended + 1 .. Len(pending) /\ appended + 1 \in appended + 1 .. j - 1
      BY <1>1, <1>3
    <3>2. cell.w < pending[j].w /\ \A i \in 1 .. Len(log) : log[i].w < pending[j].w
      BY <1>2, <3>1 DEF IInv, QueueFacts, cell
    <3>3. 1 .. Len(log') = (1 .. Len(log)) \cup {Len(log) + 1}
      BY <1>2, <1>4
    <3>4. \A i \in 1 .. Len(log') : log'[i].w < pending'[j].w
      BY <1>1, <1>4, <3>2, <3>3
    <3>5. \A i \in appended' + 1 .. j - 1 : i \in appended + 1 .. j - 1
      BY <1>1, <1>3
    <3> QED
      BY <1>1, <3>1, <3>4, <3>5 DEF IInv, QueueFacts
  <2> QED
    BY <1>5, <2>1, <2>2 DEF QueueFacts
<1>12. SnapFacts'
  <2> SUFFICES ASSUME snap # NoSnap PROVE SnapFacts'
    BY <1>1 DEF SnapFacts
  <2>1. snap.off \in 0 .. Len(log) /\ snap.off <= synced /\ snap.cells = Records(log, 1, snap.off)
    BY <1>1, <1>2 DEF IInv, SnapFacts
  <2>2. Records(log', 1, snap.off) = Records(log, 1, snap.off)
    BY <1>2, <1>4, <2>1 DEF Records
  <2> QED
    BY <1>1, <1>2, <1>4, <1>5, <2>1, <2>2 DEF SnapFacts
<1>13. TypeOK'
  BY <1>1, <1>3, <1>4 DEF IInv, TypeOK
<1>14. Control'
  BY <1>1 DEF IInv, Control
<1>15. Counters'
  BY <1>1, <1>8 DEF IInv, Counters
<1>16. Metadata'
  <2>1. cell \in Live /\ hot = Live /\ hot \subseteq diskMarks /\ diskNext = next
    BY <1>1, <1>7 DEF IInv, Memory, Live, Metadata
  <2>2. cell.id < diskNext
    BY <1>1, <2>1 DEF IInv, Counters
  <2> QED
    BY <1>1, <1>6, <2>1, <2>2 DEF IInv, Metadata
<1>17. Memory'
  <2>1. Records(log', 1, synced) = Records(log, 1, synced)
    BY <1>2, <1>4 DEF Records
  <2> QED
    BY <1>1, <1>2, <1>5, <1>8, <2>1 DEF IInv, Memory
<1> QED
  BY <1>1, <1>10, <1>11, <1>12, <1>13, <1>14, <1>15, <1>16, <1>17 DEF IInv

\* A queue that is all in the log and is then forgotten.
LEMMA QueueDrains ==
    ASSUME IInv, appended = Len(pending), pending' = <<>>, appended' = 0
    PROVE  Queue = {} /\ Queue' = {} /\ pending' \in Seq(Cell) /\ Len(pending') = 0
<1>1. Len(pending) \in Nat /\ pending' \in Seq(Cell) /\ Len(pending') = 0
  BY LenProperties, EmptySeq DEF IInv, TypeOK
<1> QED
  BY <1>1 DEF Queue, Records

LEMMA AppendEndsStep == IInv /\ FlushAppend /\ ~ (appended < Len(pending)) => IInv'
<1> SUFFICES ASSUME IInv, FlushAppend, ~ (appended < Len(pending)) PROVE IInv'
  OBVIOUS
<1>1. /\ step = "append" /\ up /\ UNCHANGED log
      /\ IF SkipsSync THEN QueueDone /\ GoTo("close")
                      ELSE GoTo("sync") /\ UNCHANGED <<pending, appended>>
      /\ UNCHANGED <<synced, snap, sealed, archived, diskNext, diskMarks, up, hot, next,
                     policy, writes, acked, budget>>
  BY JobOf DEF FlushAppend
<1>2. appended = Len(pending)
  BY LenProperties DEF IInv, TypeOK
<1>3. job \in {"remember", "checkpoint", "seal", "drop"}
  BY <1>1, JobOf
<1>4. CASE ~SkipsSync
  <2>1. job' = job /\ step' = "sync" /\ UNCHANGED <<pending, appended>>
    BY <1>1, <1>4 DEF GoTo
  <2>2. job' \in DOMAIN StepsOf /\ step' \in StepsOf[job']
    BY <1>3, <2>1, StepTable
  <2> QED
    BY <1>1, <1>2, <1>3, <2>1, <2>2, QuietStep DEF IInv, ram
<1>5. CASE SkipsSync
  <2>1. job = "drop" /\ job' = job /\ step' = "close" /\ pending' = <<>> /\ appended' = 0
    BY <1>1, <1>5 DEF GoTo, SkipsSync, QueueDone
  <2>2. Queue = {} /\ Queue' = {} /\ pending' \in Seq(Cell) /\ Len(pending') = 0
    BY <1>2, <2>1, QueueDrains
  <2>3. Kept' = Kept
    BY <1>1, <2>1 DEF Kept
  <2>4. Good(Kept)' = Good(Kept) /\ Live' = Live
    BY <2>2, <2>3 DEF Good, Live
  <2>5. LogFacts' /\ QueueFacts' /\ SnapFacts'
    BY <1>1, <2>1, <2>2, <2>3 DEF IInv, LogFacts, QueueFacts, SnapFacts, Records
  <2>6. TypeOK' /\ Control'
    BY <1>1, <2>1, <2>2, StepTable DEF IInv, TypeOK, Control
  <2>7. Counters' /\ Metadata' /\ Memory'
    BY <1>1, <2>1, <2>3, <2>4 DEF IInv, Counters, Metadata, Memory, Records
  <2> QED
    BY <1>1, <2>5, <2>6, <2>7 DEF IInv
<1> QED
  BY <1>4, <1>5

\* The sync covers the whole queue, whose cells are acknowledged.
LEMMA FlushSyncStep == IInv /\ FlushSync => IInv'
<1> SUFFICES ASSUME IInv, FlushSync PROVE IInv'
  OBVIOUS
<1>1. /\ step = "sync" /\ up /\ log' = LogFile /\ synced' = Len(log')
      /\ acked' = acked \cup Records(pending, 1, Len(pending))
      /\ pending' = <<>> /\ appended' = 0
      /\ UNCHANGED <<snap, sealed, archived, diskNext, diskMarks, up, hot, next, policy, writes, budget>>
  BY JobOf DEF FlushSync, QueueDone
<1>2. /\ Kept = log /\ log \in Seq(Cell \cup {Torn}) /\ Len(log) \in Nat /\ log # NoLog
      /\ synced \in Nat /\ synced <= Len(log)
  BY <1>1, LogIs
<1>3. log' = log
  BY <1>1, <1>2 DEF LogFile
<1>4. /\ job' \in DOMAIN StepsOf /\ step' \in StepsOf[job'] /\ (job' # "none" => up)
      /\ step' \in {"none", "snapshot", "publish", "close"}
  <2>1. job \in {"remember", "checkpoint", "seal", "drop"}
    BY <1>1, JobOf
  <2>2. CASE job = "remember"
    BY <1>1, <2>2, StepTable DEF FlushSync, Return
  <2>3. CASE job = "checkpoint"
    BY <1>1, <2>3, StepTable DEF FlushSync, GoTo
  <2>4. CASE job = "seal"
    BY <1>1, <2>4, StepTable DEF FlushSync, GoTo, Return
  <2>5. CASE job = "drop"
    BY <1>1, <2>5, StepTable DEF FlushSync, GoTo
  <2> QED
    BY <2>1, <2>2, <2>3, <2>4, <2>5
<1>5. appended = Len(pending)
  BY <1>1 DEF IInv, Control
<1>6. Queue = {} /\ Queue' = {} /\ pending' \in Seq(Cell) /\ Len(pending') = 0
  BY <1>1, <1>5, QueueDrains
<1>7. Kept' = log
  BY <1>3, <1>4 DEF Kept
<1>8. Good(Kept)' = Good(Kept) /\ Live' = Live
  BY <1>2, <1>6, <1>7 DEF Good, Live
<1>9. \A i \in 1 .. Len(log) : log[i] # Torn
  BY <1>1, <1>2 DEF IInv, LogFacts
<1>10. Records(log, 1, Len(log)) = Good(log)
  BY <1>9 DEF Records, Good
<1>11. LogFacts'
  <2>1. synced' \in 0 .. Len(log)
    BY <1>1, <1>2, <1>3
  <2> QED
    BY <1>1, <1>2, <1>7, <1>9, <2>1 DEF IInv, LogFacts
<1>12. QueueFacts' /\ SnapFacts'
  <2>1. QueueFacts'
    BY <1>1, <1>6 DEF QueueFacts
  <2>2. SnapFacts'
    BY <1>1, <1>2, <1>3, <1>7 DEF IInv, SnapFacts, Records
  <2> QED
    BY <2>1, <2>2
<1>13. TypeOK'
  BY <1>1, <1>2, <1>3, <1>6, <1>11, LogBoundNext DEF IInv, TypeOK
<1>14. Control'
  BY <1>1, <1>3, <1>4 DEF Control
<1>15. Counters' /\ Metadata'
  BY <1>1, <1>4, <1>8 DEF IInv, Counters, Metadata
<1>16. Memory'
  <2>1. Records(pending, 1, Len(pending)) \subseteq Good(log)
    BY <1>2, <1>5 DEF IInv, QueueFacts, Records
  <2>2. acked \subseteq sealed \cup Good(log)
    <3>1. Records(log, 1, synced) \subseteq Records(log, 1, Len(log))
      BY <1>2 DEF Records
    <3> QED
      BY <1>1, <1>2, <1>10, <3>1 DEF IInv, Memory
  <2>3. Live = Good(log)
    BY <1>2, <1>6 DEF Live
  <2> QED
    BY <1>1, <1>3, <1>4, <1>7, <1>8, <1>10, <2>1, <2>2, <2>3 DEF IInv, Memory
<1> QED
  BY <1>1, <1>11, <1>12, <1>13, <1>14, <1>15, <1>16 DEF IInv

-----------------------------------------------------------------------------
(* What follows the flush.                                                 *)

LEMMA WriteSnapshotStep == IInv /\ WriteSnapshot => IInv'
<1> SUFFICES ASSUME IInv, WriteSnapshot PROVE IInv'
  OBVIOUS
<1>1. /\ step = "snapshot" /\ up /\ snap' = [cells |-> hot, off |-> Len(log)]
      /\ job' = "none" /\ step' = "none"
      /\ UNCHANGED <<log, synced, sealed, archived, diskNext, diskMarks, ram, policy, writes, acked, budget>>
  BY JobOf DEF WriteSnapshot, Return
<1> USE DEF ram
<1>2. /\ Kept = log /\ Kept' = log /\ log \in Seq(Cell \cup {Torn}) /\ Len(log) \in Nat
  BY <1>1, LogIs DEF Kept
<1>3. synced = Len(log) /\ pending = <<>>
  BY <1>1 DEF IInv, Control
<1>4. \A i \in 1 .. Len(log) : log[i] # Torn
  BY <1>1, <1>2 DEF IInv, LogFacts
<1>5. hot = Records(log, 1, Len(log))
  <2>1. appended = Len(pending)
    BY <1>3, EmptySeq DEF IInv, TypeOK
  <2>2. Queue = {}
    BY <1>3, <2>1, EmptySeq DEF Queue, Records
  <2> QED
    BY <1>1, <1>2, <1>4, <2>2 DEF IInv, Memory, Live, Good, Records
<1>6. Good(Kept)' = Good(Kept) /\ Live' = Live
  BY <1>1, <1>2 DEF Good, Live, Queue, Records
<1>7. LogFacts' /\ QueueFacts'
  BY <1>1, <1>2, <1>6 DEF IInv, LogFacts, QueueFacts
<1>8. SnapFacts'
  <2>1. snap'.cells = hot /\ snap'.off = Len(log)
    BY <1>1
  <2> QED
    BY <1>1, <1>2, <1>3, <1>5, <2>1 DEF SnapFacts
<1>9. TypeOK'
  <2>1. snap'.cells = hot /\ snap'.off = Len(log) /\ Len(log) \in 0 .. MaxWrites
    BY <1>1, <1>2, LogBound DEF IInv
  <2> QED
    BY <1>1, <2>1 DEF IInv, TypeOK
<1>10. Control'
  BY <1>1, StepTable DEF IInv, Control
<1>11. Counters' /\ Metadata' /\ Memory'
  BY <1>1, <1>2, <1>6 DEF IInv, Counters, Metadata, Memory, Records
<1> QED
  BY <1>1, <1>7, <1>8, <1>9, <1>10, <1>11 DEF IInv

LEMMA PublishStep == IInv /\ Publish => IInv'
<1> SUFFICES ASSUME IInv, Publish PROVE IInv'
  OBVIOUS
<1>1. /\ step = "publish" /\ job = "seal" /\ up /\ sealed' = sealed \cup hot /\ diskNext' = next
      /\ job' = job /\ step' = "archive"
      /\ UNCHANGED <<log, synced, snap, archived, diskMarks, ram, policy, writes, acked, budget>>
  BY JobOf DEF Publish, GoTo
<1> USE DEF ram
<1>2. /\ Kept = log /\ Kept' = Kept /\ log \in Seq(Cell \cup {Torn}) /\ Len(log) \in Nat
  BY <1>1, LogIs DEF Kept
<1>3. synced = Len(log) /\ pending = <<>>
  BY <1>1 DEF IInv, Control
<1>4. LogFacts' /\ QueueFacts' /\ SnapFacts' /\ Good(Kept)' = Good(Kept) /\ Live' = Live
  BY <1>1, <1>2, ShapeFrame
<1>5. hot = Live /\ Live = Good(log) /\ Good(log) = Records(log, 1, synced)
  <2>1. appended = Len(pending)
    BY <1>3, EmptySeq DEF IInv, TypeOK
  <2>2. Queue = {}
    BY <1>3, <2>1, EmptySeq DEF Queue, Records
  <2>3. \A i \in 1 .. Len(log) : log[i] # Torn
    BY <1>1, <1>2 DEF IInv, LogFacts
  <2> QED
    BY <1>1, <1>2, <1>3, <2>2, <2>3 DEF IInv, Memory, Live, Good, Records
<1>6. TypeOK' /\ Control'
  BY <1>1, <1>3, StepTable DEF IInv, TypeOK, Control
<1>7. Counters'
  BY <1>1, <1>4, <1>5 DEF IInv, Counters
<1>8. Metadata'
  BY <1>1, <1>2, <1>4, <1>5 DEF IInv, Metadata, Counters
<1>9. Memory'
  <2>1. Records(Kept, 1, synced)' = Records(Kept, 1, synced)
    BY <1>1, <1>2 DEF Records
  <2> QED
    BY <1>1, <1>2, <1>4, <1>5, <2>1 DEF IInv, Memory
<1> QED
  BY <1>1, <1>4, <1>6, <1>7, <1>8, <1>9 DEF IInv

\* archive_and_clear sets the log aside, and what it held is in the pages.
LEMMA ArchiveLogStep == IInv /\ ArchiveLog => IInv'
<1> SUFFICES ASSUME IInv, ArchiveLog PROVE IInv'
  OBVIOUS
<1>1. /\ step = "archive" /\ job = "seal" /\ up /\ archived' = log /\ log' = NoLog /\ synced' = 0
      /\ job' = job /\ step' = "reset"
      /\ UNCHANGED <<snap, sealed, diskNext, diskMarks, ram, policy, writes, acked, budget>>
  BY JobOf DEF ArchiveLog, GoTo
<1> USE DEF ram
<1>2. /\ Kept = log /\ Kept' = log /\ log \in Seq(Cell \cup {Torn}) /\ Len(log) \in Nat
  BY <1>1, LogIs DEF Kept
<1>3. pending = <<>> /\ synced = Len(log)
  BY <1>1 DEF IInv, Control
<1>4. Good(Kept)' = Good(Kept) /\ Live' = Live
  BY <1>1, <1>2 DEF Good, Live, Queue, Records
<1>5. LogFacts' /\ QueueFacts'
  BY <1>1, <1>2, <1>4 DEF IInv, LogFacts, QueueFacts
<1>6. SnapFacts'
  BY <1>1, <1>2 DEF IInv, SnapFacts, Records
<1>7. TypeOK' /\ Control'
  BY <1>1, <1>3, StepTable, BoundsAssumption DEF IInv, TypeOK, Control
<1>8. Counters' /\ Metadata' /\ Memory'
  BY <1>1, <1>2, <1>4 DEF IInv, Counters, Metadata, Memory
<1> QED
  BY <1>1, <1>5, <1>6, <1>7, <1>8 DEF IInv

LEMMA ResetLogStep == IInv /\ ResetLog => IInv'
<1> SUFFICES ASSUME IInv, ResetLog PROVE IInv'
  OBVIOUS
<1>1. /\ step = "reset" /\ job = "seal" /\ up /\ log' = <<>> /\ synced' = 0
      /\ job' = job /\ step' = "unsnap"
      /\ UNCHANGED <<snap, sealed, archived, diskNext, diskMarks, ram, policy, writes, acked, budget>>
  BY JobOf DEF ResetLog, GoTo
<1> USE DEF ram
<1>2. Kept' = Kept /\ synced = 0 /\ pending = <<>> /\ log' \in Seq(Cell \cup {Torn})
  BY <1>1, EmptySeq DEF Kept, IInv, Control
<1>3. LogFacts' /\ QueueFacts' /\ SnapFacts' /\ Good(Kept)' = Good(Kept) /\ Live' = Live
  BY <1>1, <1>2, ShapeFrame
<1>4. TypeOK' /\ Control'
  BY <1>1, <1>2, StepTable, BoundsAssumption DEF IInv, TypeOK, Control
<1>5. Counters' /\ Metadata' /\ Memory'
  BY <1>1, <1>3 DEF IInv, Counters, Metadata, Memory
<1> QED
  BY <1>1, <1>3, <1>4, <1>5 DEF IInv

\* The snapshot goes and RAM is cleared: all that was hot is sealed.
LEMMA RemoveSnapshotStep == IInv /\ RemoveSnapshot => IInv'
<1> SUFFICES ASSUME IInv, RemoveSnapshot PROVE IInv'
  OBVIOUS
<1>1. /\ step = "unsnap" /\ up /\ snap' = NoSnap /\ hot' = {} /\ job' = "none" /\ step' = "none"
      /\ UNCHANGED <<log, synced, sealed, archived, diskNext, diskMarks, up, pending, appended, next,
                     policy, writes, acked, budget>>
  BY JobOf DEF RemoveSnapshot, Return
<1>2. Kept' = <<>> /\ log = <<>> /\ synced = 0 /\ pending = <<>>
  BY <1>1 DEF Kept, IInv, Control
<1>3. <<>> \in Seq(Cell \cup {Torn}) /\ Len(<<>>) = 0
  BY EmptySeq
<1>4. appended = 0
  BY <1>2, <1>3 DEF IInv, TypeOK
<1>5. Good(Kept)' = {} /\ Live' = {}
  BY <1>1, <1>2, <1>3, <1>4 DEF Good, Live, Queue, Records
<1>6. LogFacts' /\ QueueFacts' /\ SnapFacts'
  BY <1>1, <1>2, <1>3, <1>4 DEF LogFacts, QueueFacts, SnapFacts
<1>7. TypeOK' /\ Control'
  BY <1>1, StepTable DEF IInv, TypeOK, Control
<1>8. Counters' /\ Metadata'
  BY <1>1, <1>5 DEF IInv, Counters, Metadata
<1>9. Memory'
  BY <1>1, <1>5 DEF IInv, Memory
<1> QED
  BY <1>1, <1>6, <1>7, <1>8, <1>9 DEF IInv

-----------------------------------------------------------------------------
(* Errors, crashes, open.                                                  *)

\* The engine goes, and leaves a cut of the log.
LEMMA GoneStep ==
    ASSUME IInv, step \notin {"reset", "unsnap"}, EngineGone, IsCut(log'),
           UNCHANGED <<synced, snap, sealed, archived, diskNext, diskMarks, writes, acked>>,
           budget' \in 0 .. MaxFaults
    PROVE  IInv'
<1>1. /\ up' = FALSE /\ hot' = {} /\ pending' = <<>> /\ appended' = 0 /\ next' = 1
      /\ job' = "none" /\ step' = "none"
  BY DEF EngineGone, Return
<1>2. /\ Kept = log /\ Kept' = log' /\ log \in Seq(Cell \cup {Torn}) /\ Len(log) \in Nat
      /\ synced \in Nat /\ synced <= Len(log)
  BY <1>1, LogIs DEF Kept
<1>3. /\ log' \in Seq(Cell \cup {Torn}) /\ Len(log') \in Nat /\ synced <= Len(log')
      /\ \A i \in 1 .. Len(log') : \/ log'[i] = Torn /\ i = Len(log') /\ synced < i
                                   \/ log'[i] # Torn /\ i <= Len(log) /\ log'[i] = log[i]
  BY LenProperties DEF IsCut
<1>4. \A i \in 1 .. synced : log'[i] = log[i] /\ i <= Len(log)
  BY <1>2, <1>3
<1>5. Good(Kept)' \subseteq Good(Kept) /\ Live' = Good(Kept)'
  <2>1. Queue' = {}
    BY <1>1, EmptySeq DEF Queue, Records
  <2>2. Good(log') \subseteq Good(log)
    BY <1>2, <1>3 DEF Good
  <2> QED
    BY <1>2, <2>1, <2>2 DEF Live, Good
<1>6. LogFacts'
  <2>1. ASSUME NEW i \in 1 .. Len(log'), log'[i] # Torn
        PROVE  i <= log'[i].w /\ \A j \in 1 .. i - 1 : log'[j].w < log'[i].w
    <3>1. i <= Len(log) /\ \A j \in 1 .. i : log'[j] = log[j]
      BY <1>3, <2>1
    <3>2. i \in 1 .. Len(log) /\ log[i] # Torn /\ log'[i] = log[i]
      BY <1>2, <1>3, <2>1, <3>1
    <3>3. i <= log[i].w /\ \A j \in 1 .. i - 1 : log[j].w < log[i].w
      BY <1>2, <3>2 DEF IInv, LogFacts
    <3>4. \A j \in 1 .. i - 1 : log'[j] = log[j]
      BY <1>3, <3>1
    <3> QED
      BY <3>2, <3>3, <3>4
  <2> QED
    BY <1>1, <1>2, <1>3, <2>1 DEF LogFacts
<1>7. QueueFacts'
  BY <1>1, EmptySeq DEF QueueFacts
<1>8. SnapFacts'
  <2> SUFFICES ASSUME snap # NoSnap PROVE SnapFacts'
    BY DEF SnapFacts
  <2>1. snap.off \in 0 .. Len(log) /\ snap.off <= synced /\ snap.cells = Records(log, 1, snap.off)
    BY <1>2 DEF IInv, SnapFacts
  <2>2. Records(log', 1, snap.off) = Records(log, 1, snap.off)
    BY <1>2, <1>4, <2>1 DEF Records
  <2> QED
    BY <1>2, <1>3, <2>1, <2>2 DEF SnapFacts
<1>9. TypeOK'
  BY <1>1, <1>3, EmptySeq, BoundsAssumption DEF IInv, TypeOK, Id
<1>10. Control'
  BY <1>1, StepTable DEF Control
<1>11. Counters'
  BY <1>1, <1>5, BoundsAssumption DEF IInv, Counters, Live
<1>12. Metadata'
  BY <1>1, <1>5 DEF IInv, Metadata
<1>13. Memory'
  <2>1. Records(log', 1, synced) = Records(log, 1, synced)
    BY <1>4 DEF Records
  <2> QED
    BY <1>1, <1>2, <1>5, <2>1 DEF IInv, Memory, Live
<1> QED
  BY <1>6, <1>7, <1>8, <1>9, <1>10, <1>11, <1>12, <1>13 DEF IInv

LEMMA CloseStep == IInv /\ CloseEngine => IInv'
<1> SUFFICES ASSUME IInv, CloseEngine PROVE IInv'
  OBVIOUS
<1>1. step = "close" /\ EngineGone /\ UNCHANGED <<disk, policy, writes, acked, budget>>
  BY DEF CloseEngine
<1>2. IsCut(log)
  BY <1>1, LogIs
<1>3. IsCut(log')
  BY <1>1, <1>2 DEF disk
<1> QED
  BY <1>1, <1>3, GoneStep DEF disk, IInv

LEMMA CrashStep == IInv /\ SnapshotGoesWithLog /\ Crash => IInv'
<1> SUFFICES ASSUME IInv, SnapshotGoesWithLog, Crash PROVE IInv'
  OBVIOUS
<1>1. /\ step \notin {"reset", "unsnap"} /\ log' \in CrashLogs /\ EngineGone
      /\ budget > 0 /\ budget' = budget - 1
      /\ UNCHANGED <<synced, snap, sealed, archived, diskNext, diskMarks, policy, writes, acked>>
  BY DEF Crash, SnapshotGoesWithLog
<1>2. IsCut(log')
  BY <1>1, CrashCuts
<1>3. budget' \in 0 .. MaxFaults
  BY <1>1, BoundsAssumption DEF IInv
<1> QED
  BY <1>1, <1>2, <1>3, GoneStep

\* seal gives up while it archives the log: the log is there again, and the
\* published pages are taken back.
LEMMA SealGivesUp ==
    ASSUME IInv, step \in {"archive", "reset"}, up,
           sealed' = sealed \ hot, log' = IF step = "reset" THEN archived ELSE log,
           synced' = Len(log'), job' = "none", step' = "none",
           UNCHANGED <<snap, archived, diskNext, diskMarks, ram, policy, writes, acked>>,
           budget' \in 0 .. MaxFaults
    PROVE  IInv'
<1> USE DEF ram
<1>1. Kept' = Kept /\ log' = Kept
  BY DEF Kept
<1>2. /\ Kept \in Seq(Cell \cup {Torn}) /\ Len(Kept) \in Nat
      /\ \A i \in 1 .. Len(Kept) : Kept[i] # Torn
  BY LenProperties DEF IInv, LogFacts
<1>3. Good(Kept)' = Good(Kept) /\ Live' = Live /\ Queue' = Queue
  BY <1>1 DEF Good, Live, Queue, Records
<1>4. pending = <<>> /\ appended = 0
  BY EmptySeq DEF IInv, Control, TypeOK
<1>5. hot = Live /\ Live = Good(Kept) /\ Good(Kept) = Records(Kept, 1, Len(Kept))
  <2>1. Queue = {}
    BY <1>4, EmptySeq DEF Queue, Records
  <2> QED
    BY <1>2, <2>1 DEF IInv, Memory, Live, Good, Records
<1>6. LogFacts' /\ QueueFacts'
  <2>1. synced' \in 0 .. Len(Kept)
    BY <1>1, <1>2
  <2> QED
    BY <1>1, <1>2, <1>3, <2>1 DEF IInv, LogFacts, QueueFacts
<1>7. SnapFacts'
  BY <1>1, <1>2 DEF IInv, SnapFacts, Records
<1>8. TypeOK' /\ Control'
  <2>1. synced' \in 0 .. MaxWrites
    BY <1>6, LogBoundNext
  <2> QED
    BY <1>1, <1>2, <2>1, StepTable DEF IInv, TypeOK, Control
<1>9. Counters' /\ Metadata'
  BY <1>3 DEF IInv, Counters, Metadata
<1>10. Memory'
  <2>1. acked \subseteq sealed
    BY DEF IInv, Memory
  <2>2. Records(Kept, 1, synced)' = Records(Kept, 1, Len(Kept))
    BY <1>1 DEF Records
  <2> QED
    BY <1>3, <1>5, <2>1, <2>2 DEF Memory
<1> QED
  BY <1>6, <1>7, <1>8, <1>9, <1>10 DEF IInv

LEMMA StepFailsStep == IInv /\ SnapshotGoesWithLog /\ StepFails => IInv'
<1> SUFFICES ASSUME IInv, SnapshotGoesWithLog, StepFails PROVE IInv'
  OBVIOUS
<1>1. /\ job # "none" /\ step # "close" /\ step # "unsnap" /\ up
      /\ budget > 0 /\ budget' = budget - 1 /\ UNCHANGED <<policy, writes, acked>>
  BY JobOf DEF StepFails, SnapshotGoesWithLog
<1>2. budget' \in 0 .. MaxFaults
  BY <1>1, BoundsAssumption DEF IInv
<1>3. CASE step = "archive" \/ step = "reset"
  <2>1. /\ sealed' = sealed \ hot /\ log' = IF step = "reset" THEN archived ELSE log
        /\ synced' = Len(log') /\ job' = "none" /\ step' = "none"
        /\ UNCHANGED <<snap, archived, diskNext, diskMarks, ram>>
    <3>0. job = "seal"
      BY <1>3, JobOf
    <3>1. CASE step = "archive"
      BY <3>0, <3>1 DEF StepFails, Return
    <3>2. CASE step = "reset"
      BY <3>0, <3>2 DEF StepFails, Return
    <3> QED
      BY <1>3, <3>1, <3>2
  <2> QED
    BY <1>1, <1>2, <1>3, <2>1, SealGivesUp
<1>4. CASE step # "archive" /\ step # "reset" /\ job = "drop"
  <2>1. EngineGone /\ UNCHANGED disk
    BY <1>1, <1>4 DEF StepFails
  <2>2. IsCut(log')
    BY <1>1, <1>4, <2>1, LogIs DEF disk
  <2> QED
    BY <1>1, <1>2, <1>4, <2>1, <2>2, GoneStep DEF disk
<1>5. CASE step # "archive" /\ step # "reset" /\ job # "drop"
  <2>1. job' = "none" /\ step' = "none" /\ UNCHANGED <<disk, ram>>
    BY <1>1, <1>5 DEF StepFails, Return
  <2>2. job' \in DOMAIN StepsOf /\ step' \in StepsOf[job']
    BY <2>1, StepTable
  <2> QED
    BY <1>1, <1>2, <1>5, <2>1, <2>2, QuietStep DEF disk
<1> QED
  BY <1>3, <1>4, <1>5

\* The largest of the ids an open has to stay clear of is the manifest's.
LEMMA NextIdIs ==
    ASSUME NEW n \in Int, NEW S \in SUBSET Int, \A x \in S : x <= n
    PROVE  MaxOf({n} \cup S) = n
<1> DEFINE T == {n} \cup S
<1>1. n \in T /\ \A y \in T : y <= n
  OBVIOUS
<1>2. \A x \in T : (\A y \in T : y <= x) => x = n
  BY <1>1
<1> HIDE DEF T
<1>3. (CHOOSE x \in T : \A y \in T : y <= x) = n
  BY <1>1, <1>2
<1> QED
  BY <1>3 DEF MaxOf, T

\* What an open finds, and what it makes of the log.
LEMMA OpenFacts ==
    ASSUME IInv, Open
    PROVE  /\ job = "none" /\ step = "none" /\ ~up /\ pending = <<>> /\ appended = 0
           /\ up' = TRUE /\ hot' = Good(log) /\ next' = diskNext
           /\ log' \in Seq(Cell \cup {Torn}) /\ Len(log') \in 0 .. Len(log) /\ synced <= Len(log')
           /\ \A i \in 1 .. Len(log') : log'[i] = log[i] /\ log[i] # Torn
           /\ \A i \in Len(log') + 1 .. Len(log) : log[i] = Torn
           /\ (synced' = synced \/ synced' = Len(log'))
           /\ UNCHANGED <<snap, sealed, archived, diskNext, diskMarks, pending, appended,
                          job, step, policy, writes, acked, budget>>
<1>1. ~up /\ job = "none" /\ step = "none" /\ pending = <<>> /\ appended = 0
  BY JobOf DEF Open, IInv, Control
<1>2. /\ Kept = log /\ log \in Seq(Cell \cup {Torn}) /\ log # NoLog /\ Len(log) \in Nat
      /\ synced \in Nat /\ synced <= Len(log) /\ IsCut(log)
  BY <1>1, LogIs
<1>3. \A i \in 1 .. Len(log) : log[i] = Torn => i = Len(log) /\ synced < i
  BY <1>2 DEF IInv, LogFacts
<1>4. hot' = Good(log)
  BY <1>1, <1>2, RecoversCut DEF Open
<1>5. next' = diskNext
  <2>1. next' = MaxOf({diskNext} \cup {c.id + 1 : c \in hot'})
    BY DEF Open
  <2>2. \A c \in hot' : c \in Cell /\ c.id < diskNext
    <3> TAKE c \in hot'
    <3>1. c.id < diskNext
      BY <1>2, <1>4 DEF IInv, Metadata
    <3>2. c \in Cell
      BY <1>2, <1>4, ElementOfSeq DEF Good
    <3> QED
      BY <3>1, <3>2
  <2>3. diskNext \in Int /\ \A c \in hot' : c.id + 1 \in Int /\ c.id + 1 <= diskNext
    BY <2>2, BoundsAssumption DEF IInv, TypeOK, Cell, Id
  <2> DEFINE S == {c.id + 1 : c \in hot'}
  <2>4. S \in SUBSET Int /\ \A x \in S : x <= diskNext
    BY <2>3
  <2>5. next' = MaxOf({diskNext} \cup S)
    BY <2>1
  <2> HIDE DEF S
  <2> QED
    BY <2>3, <2>4, <2>5, NextIdIs
<1>6. FirstBad(log, ReplayFrom(log)) =
          IF Torn \in {log[i] : i \in 1 .. Len(log)} THEN Len(log) ELSE Len(log) + 1
  BY <1>1, <1>2, ReplayIs
<1>7. CASE Torn \in {log[i] : i \in 1 .. Len(log)}
  <2>1. log[Len(log)] = Torn /\ Len(log) >= 1 /\ synced < Len(log)
    BY <1>2, <1>3, <1>7
  <2>2. log' = SubSeq(log, 1, Len(log) - 1) /\ synced' = Len(log) - 1
    BY <1>2, <1>6, <1>7 DEF Open
  <2>3. Len(log) - 1 \in 0 .. Len(log)
    BY <1>2, <2>1
  <2>4. /\ log' \in Seq(Cell \cup {Torn}) /\ Len(log') = Len(log) - 1
        /\ \A i \in 1 .. Len(log) - 1 : log'[i] = log[i]
    BY <1>2, <2>2, <2>3, PrefixIs
  <2>5. Len(log') \in 0 .. Len(log) /\ synced <= Len(log')
    BY <1>2, <2>1, <2>4
  <2>6. \A i \in 1 .. Len(log') : log'[i] = log[i] /\ log[i] # Torn
    BY <1>2, <1>3, <2>1, <2>4
  <2>7. \A i \in Len(log') + 1 .. Len(log) : log[i] = Torn
    BY <1>2, <2>1, <2>4
  <2>8. synced' = Len(log')
    BY <2>2, <2>4
  <2>9. /\ up' = TRUE
        /\ UNCHANGED <<snap, sealed, archived, diskNext, diskMarks, pending, appended,
                       job, step, policy, writes, acked, budget>>
    BY DEF Open
  <2> QED
    BY <1>1, <1>4, <1>5, <2>4, <2>5, <2>6, <2>7, <2>8, <2>9
<1>8. CASE Torn \notin {log[i] : i \in 1 .. Len(log)}
  <2>1. UNCHANGED <<log, synced>>
    BY <1>2, <1>6, <1>8 DEF Open
  <2> QED
    BY <1>1, <1>2, <1>4, <1>5, <1>8, <2>1 DEF Open
<1> QED
  BY <1>7, <1>8

LEMMA OpenStep == IInv /\ Open => IInv'
<1> SUFFICES ASSUME IInv, Open PROVE IInv'
  OBVIOUS
<1>1. /\ job = "none" /\ step = "none" /\ ~up /\ pending = <<>> /\ appended = 0
      /\ up' = TRUE /\ hot' = Good(log) /\ next' = diskNext
      /\ log' \in Seq(Cell \cup {Torn}) /\ Len(log') \in 0 .. Len(log) /\ synced <= Len(log')
      /\ \A i \in 1 .. Len(log') : log'[i] = log[i] /\ log[i] # Torn
      /\ \A i \in Len(log') + 1 .. Len(log) : log[i] = Torn
      /\ (synced' = synced \/ synced' = Len(log'))
      /\ UNCHANGED <<snap, sealed, archived, diskNext, diskMarks, pending, appended,
                     job, step, policy, writes, acked, budget>>
  BY OpenFacts
<1>2. /\ Kept = log /\ Kept' = log' /\ log \in Seq(Cell \cup {Torn}) /\ Len(log) \in Nat
      /\ synced \in Nat /\ synced <= Len(log)
  BY <1>1, LogIs DEF Kept
<1>3. Len(log') \in Nat /\ Len(log') <= Len(log) /\ synced' \in 0 .. Len(log') /\ synced <= synced'
  BY <1>1, <1>2
<1>4. Good(Kept)' = Good(Kept) /\ Live' = Live /\ Live = Good(log)
  <2>1. Queue = {} /\ Queue' = {}
    BY <1>1, EmptySeq DEF Queue, Records
  <2>2. Good(log') = Good(log)
    <3>1. ASSUME NEW i \in 1 .. Len(log), log[i] # Torn
          PROVE  i \in 1 .. Len(log') /\ log'[i] = log[i]
      BY <1>1, <1>2, <1>3, <3>1
    <3>2. ASSUME NEW i \in 1 .. Len(log')
          PROVE  i \in 1 .. Len(log) /\ log'[i] = log[i]
      BY <1>1, <1>2, <1>3
    <3> QED
      BY <3>1, <3>2 DEF Good
  <2>3. Good(Kept) = Good(log) /\ Good(Kept)' = Good(log')
    BY <1>2 DEF Good
  <2> QED
    BY <2>1, <2>2, <2>3 DEF Live
<1>5. LogFacts'
  <2>1. ASSUME NEW i \in 1 .. Len(log')
        PROVE  log'[i] # Torn /\ i <= log'[i].w /\ \A j \in 1 .. i - 1 : log'[j].w < log'[i].w
    <3>1. i \in 1 .. Len(log) /\ \A j \in 1 .. i : log'[j] = log[j] /\ log[j] # Torn
      BY <1>1, <1>2, <1>3
    <3> QED
      BY <1>2, <3>1 DEF IInv, LogFacts
  <2> QED
    BY <1>1, <1>2, <1>3, <2>1 DEF LogFacts
<1>6. QueueFacts'
  BY <1>1, EmptySeq DEF QueueFacts
<1>7. SnapFacts'
  <2> SUFFICES ASSUME snap # NoSnap PROVE SnapFacts'
    BY <1>1 DEF SnapFacts
  <2>1. snap.off \in 0 .. Len(log) /\ snap.off <= synced /\ snap.cells = Records(log, 1, snap.off)
    BY <1>1, <1>2 DEF IInv, SnapFacts
  <2>2. Records(log', 1, snap.off) = Records(log, 1, snap.off)
    <3>1. \A i \in 1 .. snap.off : log'[i] = log[i]
      BY <1>1, <1>2, <1>3, <2>1
    <3> QED
      BY <3>1 DEF Records
  <2> QED
    BY <1>1, <1>2, <1>3, <2>1, <2>2 DEF SnapFacts
<1>8. TypeOK'
  <2>1. hot' \subseteq Cell
    BY <1>1, <1>2, ElementOfSeq DEF Good
  <2>2. synced' \in 0 .. MaxWrites
    BY <1>5, LogBoundNext
  <2> QED
    BY <1>1, <2>1, <2>2 DEF IInv, TypeOK
<1>9. Control'
  BY <1>1, StepTable DEF Control
<1>10. Counters'
  <2>1. \A c \in sealed \cup Live : c.id < diskNext
    BY <1>2, <1>4 DEF IInv, Metadata
  <2> QED
    BY <1>1, <1>4, <2>1 DEF IInv, Counters
<1>11. Metadata'
  BY <1>1, <1>4 DEF IInv, Metadata
<1>12. Memory'
  <2>1. Records(log, 1, synced) \subseteq Records(log', 1, synced')
    BY <1>1, <1>2, <1>3 DEF Records
  <2>2. /\ acked \subseteq sealed \cup Records(log, 1, synced)
        /\ sealed \cap Live \subseteq Records(log, 1, synced)
    BY <1>1, <1>2 DEF IInv, Memory
  <2>3. hot' = Live' /\ Kept' = log' /\ UNCHANGED <<step, sealed, acked>> /\ step = "none"
    BY <1>1, <1>2, <1>4
  <2> QED
    BY <1>4, <2>1, <2>2, <2>3 DEF Memory
<1> QED
  BY <1>1, <1>5, <1>6, <1>7, <1>8, <1>9, <1>10, <1>11, <1>12 DEF IInv

-----------------------------------------------------------------------------
(* The theorems.                                                           *)

LEMMA StutterStep == IInv /\ UNCHANGED vars => IInv'
<1> SUFFICES ASSUME IInv, UNCHANGED vars PROVE IInv'
  OBVIOUS
<1> USE DEF vars, disk, ram
<1>1. Kept' = Kept
  BY DEF Kept
<1>2. LogFacts' /\ QueueFacts' /\ SnapFacts' /\ Good(Kept)' = Good(Kept) /\ Live' = Live
  BY <1>1, ShapeFrame
<1>3. TypeOK' /\ Control'
  BY DEF IInv, TypeOK, Control
<1>4. Counters' /\ Metadata' /\ Memory'
  BY <1>1, <1>2 DEF IInv, Counters, Metadata, Memory, Records
<1> QED
  BY <1>2, <1>3, <1>4 DEF IInv

LEMMA NextKeeps == SnapshotGoesWithLog /\ IInv /\ [Next]_vars => IInv'
<1> SUFFICES ASSUME SnapshotGoesWithLog, IInv, [Next]_vars PROVE IInv'
  OBVIOUS
<1>1. CASE Remember
  BY <1>1, RememberStep
<1>2. CASE Checkpoint \/ Seal \/ Drop
  BY <1>2, BeginStep
<1>3. CASE FlushManifest \/ FlushDictionary \/ FlushAppend \/ FlushSync
  BY <1>3, FlushManifestStep, FlushDictionaryStep, AppendOneStep, AppendEndsStep, FlushSyncStep
<1>4. CASE WriteSnapshot \/ Publish \/ ArchiveLog \/ ResetLog \/ RemoveSnapshot \/ CloseEngine
  BY <1>4, WriteSnapshotStep, PublishStep, ArchiveLogStep, ResetLogStep, RemoveSnapshotStep, CloseStep
<1>5. CASE StepFails \/ Crash
  BY <1>5, StepFailsStep, CrashStep
<1>6. CASE Open
  BY <1>6, OpenStep
<1>7. CASE UNCHANGED vars
  BY <1>7, StutterStep
<1> QED
  BY <1>1, <1>2, <1>3, <1>4, <1>5, <1>6, <1>7 DEF Next, EngineStep

\* The inductive invariant holds in every state, when no fault separates the
\* renaming of the log from the removal of its snapshot.
THEOREM Invariance ==
    ASSUME SnapshotGoesWithLog
    PROVE  Spec => []IInv
<1>1. IInv /\ [Next]_vars => IInv'
  BY NextKeeps
<1> QED
  BY <1>1, InitIInv, PTL DEF Spec

\* Every variable keeps its type: ids and offsets stay within what has been
\* written, and the position in the queue within the queue.
THEOREM TypeCorrect ==
    ASSUME SnapshotGoesWithLog
    PROVE  Spec => []TypeOK
<1>1. IInv => TypeOK
  BY DEF IInv
<1> QED
  BY <1>1, Invariance, PTL

\* In the two steps of archive_and_clear after the renaming there is no record
\* to lose: every hot and every acknowledged cell is in the sealed pages.
LEMMA WhileArchived ==
    ASSUME IInv, step \in {"reset", "unsnap"}, NEW l \in CrashLogs
    PROVE  ~OpenErrs(l) /\ hot \subseteq sealed /\ acked \subseteq sealed
<1>1. hot \subseteq sealed /\ acked \subseteq sealed
  BY JobOf DEF IInv, Memory
<1>2. CASE step = "reset"
  BY <1>1, <1>2 DEF IInv, Control, CrashLogs, OpenErrs
<1>3. CASE step = "unsnap"
  <2>1. log = <<>> /\ synced = 0 /\ <<>> \in Seq(Cell \cup {Torn}) /\ Len(<<>>) = 0
    BY <1>3, EmptySeq DEF IInv, Control
  <2>2. log # NoLog
    BY <2>1, ValueAssumption
  <2>3. \A k \in 0 .. 0 : SubSeq(<<>>, 1, k) = <<>>
    BY SubSeqEmpty
  <2>4. l = <<>>
    <3>1. PICK b \in {SubSeq(log, 1, k) : k \in synced .. Len(log)} :
            \/ l = b
            \/ l = Append(b, Torn) /\ Len(b) < Len(log)
      BY <1>3, <2>2 DEF CrashLogs
    <3>2. b = <<>>
      BY <2>1, <2>3
    <3> QED
      BY <2>1, <3>1, <3>2
  <2>5. ReplayFrom(l) \in Int /\ ReplayFrom(l) >= 1
    BY <2>1, <2>4 DEF ReplayFrom, UsableSnap, IInv, SnapFacts, NoSnap
  <2>6. FirstBad(l, ReplayFrom(l)) = 1
    BY <2>1, <2>4, <2>5 DEF FirstBad
  <2>7. ~ReplayErrs(l, ReplayFrom(l))
    BY <2>1, <2>4, <2>6 DEF ReplayErrs
  <2> QED
    BY <1>1, <2>7 DEF OpenErrs
<1> QED
  BY <1>2, <1>3

\* Whatever a crash leaves of the log, the store opens and finds every cell
\* whose persistence a call reported.
THEOREM AckedAlwaysSurvive ==
    ASSUME SnapshotGoesWithLog
    PROVE  Spec => []AckedSurvive
<1>1. IInv => AckedSurvive
  <2> SUFFICES ASSUME IInv, NEW l \in CrashLogs
               PROVE  ~OpenErrs(l) /\ acked \subseteq sealed \cup Recovered(l)
    BY DEF AckedSurvive
  <2>1. CASE step \in {"reset", "unsnap"}
    BY <2>1, WhileArchived
  <2>2. CASE step \notin {"reset", "unsnap"}
    <3>1. IsCut(l) /\ Kept = log
      BY <2>2, CrashCuts, LogIs
    <3>2. ~OpenErrs(l) /\ Recovered(l) = Good(l) /\ Records(log, 1, synced) \subseteq Good(l)
      BY <2>2, <3>1, RecoversCut
    <3> QED
      BY <2>2, <3>1, <3>2 DEF IInv, Memory
  <2> QED
    BY <2>1, <2>2
<1> QED
  BY <1>1, Invariance, PTL

\* A crash loses a suffix of what was remembered, never a cell that is older
\* than one which survives.
THEOREM CrashLosesASuffix ==
    ASSUME SnapshotGoesWithLog
    PROVE  Spec => []NoHoles
<1>1. IInv => NoHoles
  <2> SUFFICES ASSUME IInv, NEW l \in CrashLogs, NEW a \in hot, NEW b \in hot, a.w < b.w,
                      b \in sealed \cup Recovered(l)
               PROVE  a \in sealed \cup Recovered(l)
    BY DEF NoHoles
  <2>1. CASE step \in {"reset", "unsnap"}
    BY <2>1, WhileArchived
  <2>2. CASE step \notin {"reset", "unsnap"}
    <3>1. /\ Kept = log /\ log \in Seq(Cell \cup {Torn}) /\ Len(log) \in Nat
          /\ synced \in Nat /\ synced <= Len(log) /\ IsCut(l)
      BY <2>2, LogIs, CrashCuts
    <3>2. Recovered(l) = Good(l) /\ Records(log, 1, synced) \subseteq Good(l)
      BY <2>2, <3>1, RecoversCut
    <3>3. up /\ hot = Live
      BY DEF IInv, Control, Memory
    <3>4. b \in Good(l)
      BY <2>2, <3>1, <3>2, <3>3 DEF IInv, Memory
    <3>5. /\ Len(l) \in Nat
          /\ \A i \in 1 .. Len(l) : l[i] # Torn => i <= Len(log) /\ l[i] = log[i]
          /\ \A i \in 1 .. Len(l) : l[i] = Torn => i = Len(l)
      BY <3>1, LenProperties DEF IsCut
    <3>6. PICK n \in 1 .. Len(l) : l[n] = b /\ b # Torn
      BY <3>4 DEF Good
    <3>7. n \in 1 .. Len(log) /\ log[n] = b
      BY <3>5, <3>6
    <3>8. \A i \in 1 .. n : l[i] = log[i] /\ l[i] # Torn
      BY <3>5, <3>6
    <3>9. a \in Cell /\ b \in Cell
      BY DEF IInv, TypeOK
    <3>10. \E i \in 1 .. n : a = log[i]
      <4>1. CASE a \in Good(log)
        <5>1. PICK m \in 1 .. Len(log) : log[m] = a /\ a # Torn
          BY <4>1 DEF Good
        <5>2. n < m => log[n].w < log[m].w
          BY <3>1, <3>7, <5>1 DEF IInv, LogFacts
        <5>3. ~ (n < m)
          BY <3>7, <3>9, <5>1, <5>2 DEF Cell
        <5> QED
          BY <3>1, <3>7, <5>1, <5>3
      <4>2. CASE a \in Queue
        <5>1. PICK j \in appended + 1 .. Len(pending) : pending[j] = a
          BY <4>2 DEF Queue, Records
        <5>2. log[n].w < a.w
          BY <3>1, <3>7, <5>1 DEF IInv, QueueFacts
        <5> QED
          BY <3>7, <3>9, <5>2 DEF Cell
      <4> QED
        BY <3>1, <3>3, <4>1, <4>2 DEF Live
    <3>11. a \in Good(l)
      BY <3>5, <3>6, <3>8, <3>10 DEF Good
    <3> QED
      BY <3>2, <3>11
  <2> QED
    BY <2>1, <2>2
<1> QED
  BY <1>1, Invariance, PTL

\* An open never brings back more than the log that holds the hot cells.
LEMMA RecoveredIs ==
    ASSUME IInv
    PROVE  Recovered(log) = IF step \in {"reset", "unsnap"} THEN {} ELSE Good(Kept)
<1>1. CASE step \notin {"reset", "unsnap"}
  BY <1>1, LogIs, RecoversCut
<1>2. CASE step = "reset"
  BY <1>2 DEF IInv, Control, Recovered
<1>3. CASE step = "unsnap"
  <2>1. log = <<>> /\ Len(<<>>) = 0 /\ log # NoLog
    BY <1>3, EmptySeq, ValueAssumption DEF IInv, Control
  <2>2. snap # NoSnap => snap.off \in Nat /\ snap.cells = Records(Kept, 1, snap.off)
    BY DEF IInv, SnapFacts
  <2>3. UsableSnap(log) => snap.cells = {} /\ snap.off = 0
    BY <2>1, <2>2 DEF UsableSnap, NoSnap, Records
  <2>4. ReplayFrom(log) = 1
    BY <2>3 DEF ReplayFrom
  <2>5. FirstBad(log, 1) = 1
    BY <2>1 DEF FirstBad
  <2> QED
    BY <1>3, <2>1, <2>3, <2>4, <2>5 DEF Recovered, Records
<1> QED
  BY <1>1, <1>2, <1>3

\* No id is given out twice among the cells that are durable or hot: a crash
\* may lose ids, but next_cell_id on disk is past all that survive.
THEOREM IdsStayUnique ==
    ASSUME SnapshotGoesWithLog
    PROVE  Spec => []IdsUnique
<1>1. IInv => IdsUnique
  <2> SUFFICES ASSUME IInv PROVE IdsUnique
    OBVIOUS
  <2>1. Durable \cup hot \subseteq sealed \cup Live
    BY RecoveredIs DEF Durable, Live, IInv, Memory, Control
  <2> QED
    BY <2>1 DEF IdsUnique, IInv, Counters
<1> QED
  BY <1>1, Invariance, PTL

\* The manifest and the dictionary on disk are ahead of every durable cell, at
\* every step of every flush.
THEOREM MetadataIsAhead ==
    ASSUME SnapshotGoesWithLog
    PROVE  Spec => []MetadataFirst
<1>1. IInv => MetadataFirst
  BY RecoveredIs DEF MetadataFirst, Durable, IInv, Metadata
<1> QED
  BY <1>1, Invariance, PTL

\* Between calls RAM holds what a reopen would recover and what the queue has
\* not appended yet, whichever step of an earlier call failed.
THEOREM RamAlwaysMatchesLog ==
    ASSUME SnapshotGoesWithLog
    PROVE  Spec => []RamMatchesLog
<1>1. IInv => RamMatchesLog
  BY RecoveredIs, JobOf DEF RamMatchesLog, Serving, IInv, Memory, Live, Queue
<1> QED
  BY <1>1, Invariance, PTL
==============================================================================
