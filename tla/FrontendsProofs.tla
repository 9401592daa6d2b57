--------------------------- MODULE FrontendsProofs ---------------------------
(***************************************************************************)
(* Proofs about module Frontends, for any processes, lines of a client,    *)
(* settings of a host and room on the disk: what the programs report is    *)
(* so.                                                                     *)
(***************************************************************************)
EXTENDS Frontends, FiniteSetTheorems, FunctionTheorems, SequenceTheorems, TLAPS

-----------------------------------------------------------------------------
(* The store and the calls on it.                                          *)

Names == {"none", "setup", "init", "remember", "import", "use", "stats"} \cup Kinds

\* The steps of a call that has the lock.
Locked == {"create", "files", "load", "apply"}

\* What a dashboard would show.
Shown == [next |-> store.next, kind |-> store.kind]

\* Ids and memories are given in one order, without a gap.
StoreOk ==
    /\ DOMAIN store = {"room", "made", "enc", "key", "whole", "next", "kind", "entries"}
    /\ store.room \in 0 .. MaxWrites /\ written \in 0 .. store.room
    /\ store.next = written + 1 /\ store.entries = {<<i, i>> : i \in 1 .. written}
    /\ acked \subseteq 1 .. written
    /\ store.kind \in Kinds /\ store.key \in Pass \cup {NoPass}
    /\ lock \in Proc \cup {Free}

\* What is so of the store when it is reported stays so.
ReportOk(r) ==
    r.ok => /\ store.made
            /\ (r.already \/ r.made) => r.enc = store.enc
            /\ r.made => store.whole

\* A call that has read the store has the lock, and what it read is what there
\* is; one that made the store finds it as it made it.
CallOk(p) ==
    LET c == calls[p] IN
    /\ DOMAIN c = {"name", "enc", "pass", "step", "mem", "looked", "made", "report"}
    /\ c.name \in Names /\ c.pass \in Pass \cup {NoPass}
    /\ c.step = "idle" => c = Idle
    /\ c.step \in Locked => lock = p
    /\ c.step \in {"look", "create", "files"} => Creates(c.name)
    /\ c.step = "apply" /\ ~Creates(c.name) => c.mem = Shown
    /\ Creates(c.name) /\ c.step \in {"files", "load", "apply"} => store.made
    /\ c.made => /\ c.step \in {"files", "load", "apply"} /\ store.made
                 /\ store.enc = c.enc
                 /\ c.step \in {"load", "apply"} => store.whole
    /\ c.looked => store.made
    /\ ReportOk(c.report)

AccessOk == StoreOk /\ DOMAIN calls = Proc /\ \A p \in Proc : CallOk(p)

\* A store keeps its mode and key, its files and its room.
StoreKeeps ==
    /\ store.made => store'.made /\ store'.enc = store.enc /\ store'.key = store.key
    /\ store.whole => store'.whole

\* The others' calls go on as they were.
LEMMA OthersKeep ==
    ASSUME AccessOk, NEW p \in Proc, NEW q \in Proc, q # p, calls'[q] = calls[q], StoreKeeps,
           lock' = lock \/ lock' = Released(p) \/ (lock = Free /\ lock' = p),
           store' = store \/ lock = p
    PROVE  CallOk(q)'
<1>1. Free \notin Proc
  BY AccessAssumption
<1>2. CallOk(q)
  BY DEF AccessOk
<1>3. calls[q].step \in Locked => lock' = q /\ store' = store
  BY <1>1, <1>2 DEF CallOk, Released
<1>4. ReportOk(calls[q].report) => ReportOk(calls[q].report)'
  BY DEF ReportOk, StoreKeeps
<1>5. (calls[q].made => calls[q].step \in Locked) /\ {"files", "load", "apply"} \subseteq Locked
  BY <1>2 DEF CallOk, Locked
<1>6. (calls[q].report)' = calls[q].report /\ (store' = store => Shown' = Shown)
  BY DEF Shown
<1>7. ReportOk(calls[q].report)'
  BY <1>2, <1>4, <1>6 DEF CallOk, ReportOk
<1> QED
  BY <1>2, <1>3, <1>5, <1>6, <1>7 DEF CallOk, StoreKeeps

\* What is to show of a step of `p`.
Moves(p) == /\ AccessOk' /\ StoreKeeps
            /\ \A q \in Proc \ {p} : calls'[q] = calls[q]
            /\ acked \subseteq acked'

\* No call but that of `p` goes on.
OnlyCall(p) == DOMAIN calls' = DOMAIN calls /\ \A q \in Proc \ {p} : calls'[q] = calls[q]

\* The call of `p` goes on, and nothing is written.
LEMMA CallGoesOn ==
    ASSUME AccessOk, NEW p \in Proc, OnlyCall(p),
           UNCHANGED <<store, written, acked>>,
           lock' = lock \/ lock' = Released(p) \/ (lock = Free /\ lock' = p),
           CallOk(p)'
    PROVE  Moves(p)
<1>1. DOMAIN calls' = Proc /\ \A q \in Proc \ {p} : calls'[q] = calls[q]
  BY DEF AccessOk, OnlyCall
<1>2. StoreKeeps
  BY DEF StoreKeeps
<1>3. StoreOk'
  BY DEF AccessOk, StoreOk, Released
<1>4. \A q \in Proc \ {p} : CallOk(q)'
  BY <1>1, <1>2, OthersKeep
<1> QED
  BY <1>1, <1>2, <1>3, <1>4 DEF Moves, AccessOk

\* The same for a step that writes, which the one with the lock does.
LEMMA CallWrites ==
    ASSUME AccessOk, NEW p \in Proc, OnlyCall(p),
           lock = p, lock' = lock \/ lock' = Released(p), StoreOk', StoreKeeps,
           acked \subseteq acked', CallOk(p)'
    PROVE  Moves(p)
<1>1. DOMAIN calls' = Proc /\ \A q \in Proc \ {p} : calls'[q] = calls[q]
  BY DEF AccessOk, OnlyCall
<1>2. \A q \in Proc \ {p} : CallOk(q)'
  BY <1>1, OthersKeep
<1> QED
  BY <1>1, <1>2 DEF Moves, AccessOk

\* A call before its first step.
FreshCall(call) ==
    \E name \in Names \ {"none"}, enc \in BOOLEAN, pass \in Pass \cup {NoPass} :
        call = Call(name, enc, pass)

LEMMA BeginKeeps ==
    ASSUME AccessOk, NEW p \in Proc, NEW call, FreshCall(call),
           calls' = [calls EXCEPT ![p] = [call EXCEPT !.step =
                         IF Creates(call.name) THEN "look" ELSE "check"]],
           UNCHANGED <<store, lock, written, acked>>
    PROVE  Moves(p)
<1> DEFINE c == [call EXCEPT !.step = IF Creates(call.name) THEN "look" ELSE "check"]
<1>1. /\ DOMAIN c = {"name", "enc", "pass", "step", "mem", "looked", "made", "report"}
      /\ c.name \in Names /\ c.pass \in Pass \cup {NoPass}
      /\ c.step = IF Creates(c.name) THEN "look" ELSE "check"
      /\ ~c.looked /\ ~c.made /\ ~c.report.ok
  BY DEF FreshCall, Call, Idle, NoReport
<1>2. calls'[p] = c /\ OnlyCall(p)
  BY DEF AccessOk, OnlyCall
<1> HIDE DEF c
<1>3. CallOk(p)'
  BY <1>1, <1>2 DEF CallOk, Locked, ReportOk
<1> QED
  BY <1>2, <1>3, CallGoesOn

\* Nothing is known of a call that failed, and nothing is of an idle one.
LEMMA StopKeeps ==
    ASSUME AccessOk, NEW p \in Proc, NEW c, c \in {Failed(p), Idle},
           calls' = [calls EXCEPT ![p] = c], UNCHANGED <<store, written, acked>>,
           lock' = Released(p) \/ (lock' = lock /\ calls[p].step \notin Locked)
    PROVE  Moves(p)
<1>1. calls'[p] = c /\ OnlyCall(p)
  BY DEF AccessOk, OnlyCall
<1>2. calls[p].name \in Names /\ "none" \in Names
  BY DEF AccessOk, CallOk, Names
<1>3. /\ DOMAIN c = {"name", "enc", "pass", "step", "mem", "looked", "made", "report"}
      /\ c.name \in Names /\ c.pass = NoPass /\ c.step \in {"failed", "idle"}
      /\ (c.step = "idle" => c = Idle)
      /\ ~c.looked /\ ~c.made /\ ~c.report.ok
  <2>1. CASE c = Failed(p)
    BY <1>2, <2>1 DEF Failed, Idle, NoReport
  <2>2. CASE c = Idle
    BY <1>2, <2>2 DEF Idle, NoReport
  <2> QED
    BY <2>1, <2>2
<1>4. CallOk(p)'
  BY <1>1, <1>3 DEF CallOk, Locked, ReportOk
<1> QED
  BY <1>1, <1>4, CallGoesOn

LEMMA FailKeeps ==
    ASSUME AccessOk, NEW p \in Proc, Fail(p)
    PROVE  Moves(p)
BY StopKeeps DEF Fail

LEMMA DoneKeeps ==
    ASSUME AccessOk, NEW p \in Proc, Done(p), Returned(p)
    PROVE  Moves(p)
BY StopKeeps DEF Done, Returned, At, Locked

LEMMA DieKeeps ==
    ASSUME AccessOk, NEW p \in Proc, Die(p)
    PROVE  Moves(p)
BY StopKeeps DEF Die

\* A call that returns, with what it reports.
LEMMA OverKeeps ==
    ASSUME AccessOk, NEW p \in Proc, NEW mem, NEW report, Returns(p, mem, report), ReportOk(report),
           UNCHANGED <<store, written, acked>>
    PROVE  Moves(p)
<1> DEFINE c == Over(p, mem, report)
<1>1. OnlyCall(p) /\ calls'[p] = c /\ lock' = Released(p)
  BY DEF AccessOk, Returns, OnlyCall
<1>2. calls[p].name \in Names
  BY DEF AccessOk, CallOk
<1>3. /\ DOMAIN c = {"name", "enc", "pass", "step", "mem", "looked", "made", "report"}
      /\ c.name \in Names /\ c.pass = NoPass /\ c.step = "ok"
      /\ ~c.looked /\ ~c.made /\ c.report = report
  BY <1>2 DEF Over, Idle
<1> HIDE DEF c
<1>4. ReportOk(report)'
  BY DEF ReportOk
<1>5. CallOk(p)'
  BY <1>1, <1>3, <1>4 DEF CallOk, Locked, ReportOk
<1> QED
  BY <1>1, <1>5, CallGoesOn

LEMMA LookKeeps ==
    ASSUME AccessOk, NEW p \in Proc, Look(p)
    PROVE  Moves(p)
<1>1. CallOk(p) /\ calls[p].step = "look" /\ DOMAIN calls = Proc
  BY DEF AccessOk, Look, At
<1>2. ~calls[p].made
  BY <1>1 DEF CallOk
<1>3. CASE Fail(p)
  BY <1>3, FailKeeps
<1>4. CASE store.made /\ Reports(p, TRUE, store.enc) /\ UNCHANGED <<store, written, acked>>
  <2> DEFINE r == [already |-> TRUE, enc |-> store.enc, made |-> calls[p].made, ok |-> TRUE]
  <2>1. Returns(p, NoMem, r) /\ ReportOk(r)
    BY <1>2, <1>4 DEF Reports, ReportOk
  <2> QED
    BY <1>4, <2>1, OverKeeps
<1>5. ASSUME OnlyCall(p), DOMAIN calls'[p] = DOMAIN calls[p], calls'[p].step = "lock",
             calls'[p].pass \in Pass \cup {NoPass}, calls'[p].looked => store.made,
             \A f \in {"name", "enc", "mem", "made", "report"} : calls'[p][f] = calls[p][f],
             UNCHANGED <<store, lock, written, acked>>
      PROVE  Moves(p)
  <2>1. CallOk(p)'
    BY <1>1, <1>2, <1>5 DEF CallOk, Locked, ReportOk
  <2> QED
    BY <1>5, <2>1, CallGoesOn
<1>6. CASE /\ calls' = [calls EXCEPT ![p].step = "lock",
                                   ![p].pass = IF calls[p].enc THEN @ ELSE NoPass]
           /\ UNCHANGED <<store, lock, written, acked>>
  <2>1. /\ OnlyCall(p) /\ DOMAIN calls'[p] = DOMAIN calls[p] /\ calls'[p].step = "lock"
        /\ calls'[p].pass \in Pass \cup {NoPass} /\ (calls'[p].looked => store.made)
        /\ \A f \in {"name", "enc", "mem", "made", "report"} : calls'[p][f] = calls[p][f]
    BY <1>1, <1>6 DEF OnlyCall, CallOk
  <2> QED
    BY <1>5, <1>6, <2>1
<1>7. CASE LookForInit(p)
  <2>1. /\ OnlyCall(p) /\ DOMAIN calls'[p] = DOMAIN calls[p] /\ calls'[p].step = "lock"
        /\ calls'[p].pass \in Pass \cup {NoPass} /\ (calls'[p].looked => store.made)
        /\ \A f \in {"name", "enc", "mem", "made", "report"} : calls'[p][f] = calls[p][f]
    BY <1>1, <1>7 DEF OnlyCall, CallOk, LookForInit
  <2> QED
    BY <1>5, <1>7, <2>1 DEF LookForInit
<1>8. CASE LookForSetup(p)
  BY <1>3, <1>4, <1>6, <1>8 DEF LookForSetup
<1> QED
  BY <1>7, <1>8 DEF Look

LEMMA CheckKeeps ==
    ASSUME AccessOk, NEW p \in Proc, Check(p)
    PROVE  Moves(p)
<1>1. CallOk(p) /\ calls[p].step = "check" /\ DOMAIN calls = Proc
  BY DEF AccessOk, Check, At
<1>2. CASE Fail(p)
  BY <1>2, FailKeeps
<1>3. CASE GoTo(p, "lock") /\ UNCHANGED <<store, lock, written, acked>>
  <2>1. /\ OnlyCall(p) /\ DOMAIN calls'[p] = DOMAIN calls[p] /\ calls'[p].step = "lock"
        /\ \A f \in {"name", "enc", "pass", "mem", "looked", "made", "report"} :
               calls'[p][f] = calls[p][f]
    BY <1>1, <1>3 DEF OnlyCall, CallOk, GoTo
  <2>2. CallOk(p)'
    BY <1>1, <1>3, <2>1 DEF CallOk, Locked, ReportOk
  <2> QED
    BY <1>3, <2>1, <2>2, CallGoesOn
<1> QED
  BY <1>2, <1>3 DEF Check

LEMMA TakeLockKeeps ==
    ASSUME AccessOk, NEW p \in Proc, TakeLock(p)
    PROVE  Moves(p)
<1>1. CallOk(p) /\ calls[p].step = "lock" /\ DOMAIN calls = Proc
  BY DEF AccessOk, TakeLock, At
<1>2. CASE Fail(p)
  BY <1>2, FailKeeps
<1>3. CASE ~Fail(p)
  <2> DEFINE next == IF Creates(calls[p].name) THEN "create" ELSE "load"
  <2>1. lock = Free /\ lock' = p /\ GoTo(p, next) /\ UNCHANGED <<store, written, acked>>
    BY <1>3 DEF TakeLock
  <2>2. /\ OnlyCall(p) /\ DOMAIN calls'[p] = DOMAIN calls[p] /\ calls'[p].step = next
        /\ \A f \in {"name", "enc", "pass", "mem", "looked", "made", "report"} :
               calls'[p][f] = calls[p][f]
    BY <1>1, <2>1 DEF OnlyCall, CallOk, GoTo
  <2>3. CallOk(p)'
    BY <1>1, <2>1, <2>2 DEF CallOk, Locked, ReportOk
  <2> QED
    BY <2>1, <2>2, <2>3, CallGoesOn
<1> QED
  BY <1>2, <1>3

LEMMA CreateManifestKeeps ==
    ASSUME AccessOk, NEW p \in Proc, CreateManifest(p)
    PROVE  Moves(p)
<1>1. CallOk(p) /\ calls[p].step = "create" /\ DOMAIN calls = Proc /\ StoreOk
  BY DEF AccessOk, CreateManifest, At
<1>2. /\ OnlyCall(p) /\ DOMAIN calls'[p] = DOMAIN calls[p] /\ calls'[p].step = "files"
      /\ calls'[p].made <=> ~store.made
      /\ \A f \in {"name", "enc", "pass", "mem", "looked", "report"} :
             calls'[p][f] = calls[p][f]
  BY <1>1 DEF OnlyCall, CallOk, CreateManifest
<1>3. /\ DOMAIN store' = DOMAIN store /\ store'.made
      /\ store.made => store'.enc = store.enc /\ store'.key = store.key
      /\ ~store.made => store'.enc = calls[p].enc
      /\ store'.key \in Pass \cup {NoPass}
      /\ \A f \in {"room", "whole", "next", "kind", "entries"} : store'[f] = store[f]
  BY <1>1 DEF CreateManifest, NewManifest, NewKey, StoreOk, CallOk
<1>4. UNCHANGED <<lock, written, acked>> /\ lock = p
  BY <1>1 DEF CreateManifest, CallOk, Locked
<1>5. StoreOk' /\ StoreKeeps
  BY <1>1, <1>3, <1>4 DEF StoreOk, StoreKeeps
<1>6. CallOk(p)'
  BY <1>1, <1>2, <1>3, <1>4 DEF CallOk, Locked, ReportOk
<1> QED
  BY <1>2, <1>4, <1>5, <1>6, CallWrites

LEMMA CreateFilesKeeps ==
    ASSUME AccessOk, NEW p \in Proc, CreateFiles(p)
    PROVE  Moves(p)
<1>1. CallOk(p) /\ calls[p].step = "files" /\ DOMAIN calls = Proc /\ StoreOk
  BY DEF AccessOk, CreateFiles, At
<1>2. /\ OnlyCall(p) /\ DOMAIN calls'[p] = DOMAIN calls[p] /\ calls'[p].step \in {"apply", "load"}
      /\ \A f \in {"name", "enc", "pass", "mem", "looked", "made", "report"} :
             calls'[p][f] = calls[p][f]
  BY <1>1 DEF OnlyCall, CallOk, CreateFiles, GoTo
<1>3. /\ DOMAIN store' = DOMAIN store /\ store'.whole
      /\ \A f \in {"room", "made", "enc", "key", "next", "kind", "entries"} : store'[f] = store[f]
  BY <1>1 DEF CreateFiles, StoreOk
<1>4. UNCHANGED <<lock, written, acked>> /\ lock = p
  BY <1>1 DEF CreateFiles, CallOk, Locked
<1>5. StoreOk' /\ StoreKeeps
  BY <1>1, <1>3, <1>4 DEF StoreOk, StoreKeeps
<1>6. CallOk(p)'
  BY <1>1, <1>2, <1>3, <1>4 DEF CallOk, Locked, ReportOk
<1> QED
  BY <1>2, <1>4, <1>5, <1>6, CallWrites

LEMMA LoadEngineKeeps ==
    ASSUME AccessOk, NEW p \in Proc, LoadEngine(p)
    PROVE  Moves(p)
<1>1. CallOk(p) /\ calls[p].step = "load" /\ DOMAIN calls = Proc
  BY DEF AccessOk, LoadEngine, At
<1>2. CASE Fail(p)
  BY <1>2, FailKeeps
<1>3. CASE ~Fail(p)
  <2>1. UNCHANGED <<store, lock, written, acked>>
    BY <1>3 DEF LoadEngine
  <2>2. /\ OnlyCall(p) /\ DOMAIN calls'[p] = DOMAIN calls[p] /\ calls'[p].step = "apply"
        /\ calls'[p].pass = NoPass /\ calls'[p].mem = Shown
        /\ \A f \in {"name", "enc", "looked", "made", "report"} : calls'[p][f] = calls[p][f]
    BY <1>1, <1>3 DEF OnlyCall, CallOk, LoadEngine, Shown
  <2>3. CallOk(p)' 
    <3>1. Shown' = Shown
      BY <2>1 DEF Shown
    <3> QED
      BY <1>1, <2>1, <2>2, <3>1 DEF CallOk, Locked, ReportOk
  <2> QED
    BY <2>1, <2>2, <2>3, CallGoesOn
<1> QED
  BY <1>2, <1>3

\* What `n` memories written by an engine that has read the store do to it:
\* the next id it knows is the next one, and the memories have ids of their own.
LEMMA SavedKeeps ==
    ASSUME AccessOk, NEW p \in Proc, calls[p].mem = Shown,
           NEW n \in Nat, NEW kind \in Kinds,
           written + n <= store.room, written' = written + n, store' = Saved(p, n, kind),
           acked' = acked \/ acked' = acked \cup written + 1 .. written + n, UNCHANGED lock
               \/ lock' = Released(p)
    PROVE  /\ StoreOk' /\ StoreKeeps /\ acked \subseteq acked'
           /\ n = 0 => store'.next = store.next
<1>1. StoreOk /\ written \in Nat /\ store.room \in Nat /\ store.next = written + 1
      /\ MaxWrites \in Nat
  BY AccessAssumption DEF AccessOk, StoreOk
<1>2. calls[p].mem.next = written + 1
  BY <1>1 DEF Shown
<1>3. /\ DOMAIN store' = DOMAIN store /\ store'.next = written + 1 + n /\ store'.kind = kind
      /\ store'.entries = store.entries
             \cup {<<written + 1 + i, written + i + 1>> : i \in 0 .. n - 1}
      /\ \A f \in {"room", "made", "enc", "key", "whole"} : store'[f] = store[f]
  BY <1>1, <1>2 DEF Saved, StoreOk
<1>4. store'.entries = {<<i, i>> : i \in 1 .. written + n}
  <2>1. {<<written + 1 + i, written + i + 1>> : i \in 0 .. n - 1}
            = {<<i, i>> : i \in written + 1 .. written + n}
    <3>1. ASSUME NEW i \in 0 .. n - 1
          PROVE  written + 1 + i \in written + 1 .. written + n
                 /\ written + 1 + i = written + i + 1
      BY <1>1
    <3>2. ASSUME NEW j \in written + 1 .. written + n
          PROVE  /\ j - (written + 1) \in 0 .. n - 1
                 /\ j = written + 1 + (j - (written + 1)) /\ j = written + (j - (written + 1)) + 1
      BY <1>1
    <3> QED
      BY <3>1, <3>2
  <2>2. 1 .. written + n = (1 .. written) \cup (written + 1 .. written + n)
    BY <1>1
  <2> QED
    BY <1>1, <1>3, <2>1, <2>2 DEF StoreOk
<1>5. lock' \in Proc \cup {Free}
  BY <1>1 DEF StoreOk, Released
<1>6. written' \in 0 .. store'.room /\ store'.next = written' + 1 /\ acked' \subseteq 1 .. written'
  <2>1. written + n \in Nat /\ store'.room = store.room /\ store'.next = (written + n) + 1
    BY <1>1, <1>3
  <2>2. 1 .. written \subseteq 1 .. written + n /\ written + 1 .. written + n \subseteq 1 .. written + n
    BY <1>1
  <2>3. acked \subseteq 1 .. written
    BY <1>1 DEF StoreOk
  <2>4. acked' \subseteq 1 .. written + n
    BY <2>2, <2>3
  <2> QED
    BY <1>1, <2>1, <2>4
<1>7. StoreOk'
  BY <1>1, <1>3, <1>4, <1>5, <1>6 DEF StoreOk
<1> QED
  BY <1>1, <1>3, <1>7 DEF StoreKeeps

\* A call that writes as it returns, or fails when it has written.
LEMMA WritesKeep ==
    ASSUME AccessOk, NEW p \in Proc, At(p, "apply"), ~Creates(calls[p].name),
           NEW n \in Nat, NEW kind \in Kinds,
           written + n <= store.room, written' = written + n, store' = Saved(p, n, kind),
           acked' = acked \/ acked' = acked \cup written + 1 .. written + n,
           lock' = Released(p), NEW c, c \in {Over(p, NoMem, NoReport), Failed(p)},
           calls' = [calls EXCEPT ![p] = c]
    PROVE  Moves(p)
<1>1. CallOk(p) /\ calls[p].step = "apply" /\ DOMAIN calls = Proc
  BY DEF AccessOk, At
<1>2. lock = p /\ calls[p].mem = Shown
  BY <1>1 DEF CallOk, Locked
<1>3. StoreOk' /\ StoreKeeps /\ acked \subseteq acked'
  BY <1>2, SavedKeeps
<1>4. OnlyCall(p) /\ calls'[p] = c
  BY <1>1 DEF OnlyCall
<1>5. /\ DOMAIN c = {"name", "enc", "pass", "step", "mem", "looked", "made", "report"}
      /\ c.name \in Names /\ c.pass = NoPass /\ c.step \in {"ok", "failed"}
      /\ ~c.looked /\ ~c.made /\ ~c.report.ok
  <2>1. calls[p].name \in Names
    BY <1>1 DEF CallOk
  <2>2. CASE c = Failed(p)
    BY <2>1, <2>2 DEF Failed, Idle, NoReport
  <2>3. CASE c = Over(p, NoMem, NoReport)
    BY <2>1, <2>3 DEF Over, Idle, NoReport
  <2> QED
    BY <2>2, <2>3
<1>6. CallOk(p)'
  BY <1>4, <1>5 DEF CallOk, Locked, ReportOk
<1> QED
  BY <1>2, <1>3, <1>4, <1>6, CallWrites

\* What the calls do that write.
LEMMA WritingKeeps ==
    ASSUME AccessOk, NEW p \in Proc, At(p, "apply"),
           Remember(p) \/ ImportMarkdown(p) \/ SetIndexKind(p)
    PROVE  /\ Moves(p) /\ calls'[p].step \in {"ok", "failed"} /\ calls'[p].name = calls[p].name
           /\ calls'[p].step = "ok" /\ written' > written => written' \in acked'
<1>1. CallOk(p) /\ DOMAIN calls = Proc /\ written \in Int /\ store.room \in Int
      /\ written <= store.room /\ store.kind \in Kinds
  BY AccessAssumption DEF AccessOk, StoreOk
<1>2. calls[p].name \in {"remember", "import"} \cup Kinds /\ ~Creates(calls[p].name)
  BY DEF Remember, ImportMarkdown, SetIndexKind, Creates, Kinds
<1>3. calls[p].mem = Shown /\ Shown.kind = store.kind
  BY <1>1, <1>2 DEF CallOk, At, Shown
<1>4. ASSUME NEW n \in {1, 2}, WritesAll(p, n)
      PROVE  /\ Moves(p) /\ calls'[p].step \in {"ok", "failed"} /\ calls'[p].name = calls[p].name
             /\ calls'[p].step = "ok" /\ written' > written => written' \in acked'
  <2>1. /\ written + n <= store.room /\ written' = written + n
        /\ store' = Saved(p, n, store.kind) /\ acked' = acked \cup written + 1 .. written + n
        /\ lock' = Released(p) /\ calls' = [calls EXCEPT ![p] = Over(p, NoMem, NoReport)]
    BY <1>3, <1>4 DEF WritesAll, Writes, Returns
  <2>2. Moves(p)
    BY <1>1, <1>2, <2>1, WritesKeep
  <2>3. written' \in acked'
    BY <1>1, <2>1
  <2>4. calls'[p] = Over(p, NoMem, NoReport)
    BY <1>1, <2>1
  <2> QED
    BY <2>2, <2>3, <2>4 DEF Over, Idle
<1>5. ASSUME Writes(p, 1), UNCHANGED acked, calls' = [calls EXCEPT ![p] = Failed(p)],
             lock' = Released(p)
      PROVE  Moves(p) /\ calls'[p].step = "failed" /\ calls'[p].name = calls[p].name
  <2>1. /\ written + 1 <= store.room /\ written' = written + 1
        /\ store' = Saved(p, 1, store.kind)
    BY <1>3, <1>5 DEF Writes
  <2>2. Moves(p)
    BY <1>1, <1>2, <1>5, <2>1, WritesKeep
  <2>3. calls'[p] = Failed(p)
    BY <1>1, <1>5
  <2> QED
    BY <2>2, <2>3 DEF Failed, Idle
<1>6. CASE SetIndexKind(p)
  <2>1. /\ written + 0 <= store.room /\ written' = written + 0
        /\ store' = Saved(p, 0, calls[p].name) /\ calls[p].name \in Kinds /\ acked' = acked
        /\ lock' = Released(p) /\ calls' = [calls EXCEPT ![p] = Over(p, NoMem, NoReport)]
    BY <1>1, <1>6 DEF SetIndexKind, Returns
  <2>2. Moves(p)
    BY <1>1, <1>2, <2>1, WritesKeep
  <2>3. calls'[p] = Over(p, NoMem, NoReport) /\ ~(written' > written)
    BY <1>1, <2>1
  <2> QED
    BY <2>2, <2>3 DEF Over, Idle
<1> QED
  BY <1>4, <1>5, <1>6 DEF Remember, ImportMarkdown

\* The operation that a call is for.
LEMMA ApplyKeeps ==
    ASSUME AccessOk, NEW p \in Proc, Apply(p)
    PROVE  Moves(p)
<1>1. CallOk(p) /\ calls[p].step = "apply" /\ DOMAIN calls = Proc /\ At(p, "apply")
  BY DEF AccessOk, Apply, At
<1>2. CASE Remember(p) \/ ImportMarkdown(p) \/ SetIndexKind(p)
  BY <1>1, <1>2, WritingKeeps
<1>3. CASE Fail(p)
  BY <1>3, FailKeeps
<1>4. CASE Maintain(p) \/ ReadStats(p)
  <2>1. ReportOk(NoReport)
    BY DEF ReportOk, NoReport
  <2> QED
    BY <1>4, <2>1, OverKeeps DEF Maintain, ReadStats
<1>5. CASE FinishSetup(p)
  <2> DEFINE r == [already |-> FALSE, enc |-> calls[p].enc, made |-> calls[p].made, ok |-> TRUE]
  <2>1. Creates(calls[p].name) /\ Returns(p, NoMem, r) /\ UNCHANGED <<store, written, acked>>
    BY <1>5 DEF FinishSetup, Creates, Reports
  <2>2. ReportOk(r)
    BY <1>1, <2>1 DEF ReportOk, CallOk
  <2> QED
    BY <2>1, <2>2, OverKeeps
<1>6. CASE FinishInit(p) /\ ~Fail(p)
  <2> DEFINE r == [already |-> calls[p].looked, enc |-> store.enc, made |-> calls[p].made, ok |-> TRUE]
  <2>1. Creates(calls[p].name) /\ Returns(p, NoMem, r) /\ UNCHANGED <<store, written, acked>>
    BY <1>6 DEF FinishInit, Creates, Reports
  <2>2. ReportOk(r)
    BY <1>1, <2>1 DEF ReportOk, CallOk
  <2> QED
    BY <2>1, <2>2, OverKeeps
<1> QED
  BY <1>2, <1>3, <1>4, <1>5, <1>6 DEF Apply, DiskFull

LEMMA StepKeeps ==
    ASSUME AccessOk, NEW p \in Proc, Step(p)
    PROVE  Moves(p)
BY LookKeeps, CheckKeeps, TakeLockKeeps, CreateManifestKeeps, CreateFilesKeeps, LoadEngineKeeps,
   ApplyKeeps DEF Step

\* What the programs see of a step of their call.
LEMMA StepSeen ==
    ASSUME AccessOk, NEW p \in Proc, Step(p)
    PROVE  /\ ~IsIdle(p) /\ ~Returned(p) /\ calls'[p].step # "idle"
           /\ calls'[p].name = calls[p].name
           /\ Shown' = Shown \/ (/\ calls[p].name \in {"remember", "import"} \cup Kinds
                                 /\ calls'[p].step \in {"ok", "failed"})
           /\ calls[p].name = "stats" /\ calls'[p].step = "ok" => calls'[p].mem = Shown
           /\ written' > written =>
                  calls'[p].step \in {"ok", "failed"} /\ (calls'[p].step = "ok" => written' \in acked')
<1>1. CallOk(p) /\ DOMAIN calls = Proc /\ written \in Int /\ ~(written > written)
  BY AccessAssumption DEF AccessOk, StoreOk
<1>2. CASE Apply(p) /\ (Remember(p) \/ ImportMarkdown(p) \/ SetIndexKind(p))
  <2>1. calls[p].name \in {"remember", "import"} \cup Kinds /\ calls[p].step = "apply"
    BY <1>2 DEF Remember, ImportMarkdown, SetIndexKind, Kinds, Apply, At
  <2>2. calls'[p].step \in {"ok", "failed"} /\ calls'[p].name = calls[p].name
        /\ (calls'[p].step = "ok" /\ written' > written => written' \in acked')
    BY <1>2, WritingKeeps DEF Apply
  <2> QED
    BY <2>1, <2>2 DEF IsIdle, Returned, At, Kinds
<1>3. CASE Fail(p) /\ Step(p)
  <2>1. calls'[p].step = "failed" /\ calls'[p].name = calls[p].name /\ Shown' = Shown
        /\ written' = written
    BY <1>1, <1>3 DEF Fail, Failed, Idle, Shown
  <2>2. ~IsIdle(p) /\ ~Returned(p)
    BY <1>3 DEF Step, Look, Check, TakeLock, CreateManifest, CreateFiles, LoadEngine, Apply, At,
                IsIdle, Returned
  <2> QED
    BY <1>1, <2>1, <2>2
<1>4. CASE Apply(p) /\ ReadStats(p)
  <2>1. calls'[p] = Over(p, calls[p].mem, NoReport) /\ Shown' = Shown /\ written' = written
        /\ calls[p].name = "stats" /\ calls[p].step = "apply"
    BY <1>1, <1>4 DEF ReadStats, Returns, Shown, Apply, At
  <2>2. calls[p].mem = Shown
    BY <1>1, <2>1 DEF CallOk, Creates
  <2> QED
    BY <1>1, <2>1, <2>2 DEF Over, Idle, IsIdle, Returned, At
<1>5. ASSUME NEW mem, NEW report, Returns(p, mem, report), UNCHANGED <<store, written>>, 
             calls[p].name # "stats", calls[p].step \in {"look", "apply"}
      PROVE  /\ ~IsIdle(p) /\ ~Returned(p) /\ calls'[p].step # "idle"
             /\ calls'[p].name = calls[p].name /\ Shown' = Shown /\ written' = written
  BY <1>1, <1>5 DEF Returns, Over, Idle, IsIdle, Returned, At, Shown
<1>6. CASE ~Fail(p) /\ Apply(p) /\ (Maintain(p) \/ FinishSetup(p) \/ FinishInit(p))
  <2>1. calls[p].step = "apply" /\ calls[p].name # "stats"
    BY <1>6 DEF Apply, At, Maintain, FinishSetup, FinishInit
  <2>2. \E mem, report : Returns(p, mem, report) /\ UNCHANGED <<store, written>>
    BY <1>6 DEF Maintain, FinishSetup, FinishInit, Reports
  <2> QED
    BY <1>1, <1>5, <2>1, <2>2
<1>7. CASE ~Fail(p) /\ Look(p)
  <2>1. calls[p].step = "look" /\ calls[p].name # "stats"
    BY <1>1, <1>7 DEF Look, At, LookForSetup, LookForInit
  <2>2. CASE \E mem, report : Returns(p, mem, report) /\ UNCHANGED <<store, written>>
    BY <1>1, <1>5, <2>1, <2>2
  <2>3. CASE /\ UNCHANGED <<store, written>>
             /\ calls'[p].step = "lock" /\ calls'[p].name = calls[p].name
    BY <1>1, <2>1, <2>3 DEF IsIdle, Returned, At, Shown
  <2>4. CASE LookForInit(p)
    BY <1>1, <2>3, <2>4 DEF LookForInit, CallOk
  <2>5. CASE LookForSetup(p)
    BY <1>1, <1>7, <2>2, <2>3, <2>5 DEF LookForSetup, CallOk, Reports
  <2> QED
    BY <1>7, <2>4, <2>5 DEF Look
<1>8. CASE ~Fail(p) /\ (Check(p) \/ TakeLock(p) \/ CreateFiles(p) \/ LoadEngine(p))
  <2>1. ~IsIdle(p) /\ ~Returned(p)
    BY <1>8 DEF Check, TakeLock, CreateFiles, LoadEngine, At, IsIdle, Returned
  <2>2. calls'[p].step \in {"lock", "create", "load", "apply"} /\ calls'[p].name = calls[p].name
    <3>1. ASSUME NEW to \in {"lock", "create", "load", "apply"}, GoTo(p, to)
          PROVE  calls'[p].step = to /\ calls'[p].name = calls[p].name
      BY <1>1, <3>1 DEF GoTo, CallOk
    <3>2. CASE Check(p)
      BY <1>8, <3>1, <3>2 DEF Check
    <3>3. CASE TakeLock(p)
      BY <1>8, <3>1, <3>3 DEF TakeLock
    <3>4. CASE CreateFiles(p)
      BY <3>1, <3>4 DEF CreateFiles
    <3>5. CASE LoadEngine(p)
      BY <1>1, <1>8, <3>5 DEF LoadEngine, CallOk
    <3> QED
      BY <1>8, <3>2, <3>3, <3>4, <3>5
  <2>3. Shown' = Shown /\ written' = written
    <3>1. CASE Check(p)
      BY <1>8, <3>1 DEF Check, Shown
    <3>2. CASE TakeLock(p)
      BY <1>8, <3>2 DEF TakeLock, Shown
    <3>3. CASE CreateFiles(p)
      BY <3>3 DEF CreateFiles, Shown
    <3>4. CASE LoadEngine(p)
      BY <1>8, <3>4 DEF LoadEngine, Shown
    <3> QED
      BY <1>8, <3>1, <3>2, <3>3, <3>4
  <2> QED
    BY <1>1, <2>1, <2>2, <2>3
<1>9. CASE CreateManifest(p)
  <2>1. ~IsIdle(p) /\ ~Returned(p) /\ written' = written
    BY <1>9 DEF CreateManifest, At, IsIdle, Returned
  <2>2. calls'[p].step = "files" /\ calls'[p].name = calls[p].name
    BY <1>1, <1>9 DEF CreateManifest, CallOk
  <2>3. Shown' = Shown
    BY <1>9 DEF CreateManifest, NewManifest, Shown
  <2> QED
    BY <1>1, <2>1, <2>2, <2>3
<1>10. CASE Apply(p) /\ DiskFull(p)
  BY <1>3, <1>10 DEF DiskFull
<1>11. CASE Apply(p)
  BY <1>2, <1>3, <1>4, <1>6, <1>10, <1>11 DEF Apply
<1> QED
  BY <1>3, <1>7, <1>8, <1>9, <1>11 DEF Step

-----------------------------------------------------------------------------
(* The terminal interface.                                                  *)

\* How deep below a screen its stack may be.
Rank(screen) ==
    CASE screen \in {"off", "setup"} -> 0
      [] screen = "dashboard"        -> 1
      [] screen = "help"             -> 3
      [] OTHER                       -> 2

\* Screens are opened in the order of their ranks.
StackOk(screen, stack) ==
    /\ stack \in Seq(Screens) /\ Len(stack) <= Rank(screen)
    /\ \A i \in 1 .. Len(stack) : i - 1 <= Rank(stack[i])

ScreensOk(u) ==
    /\ DOMAIN u = {"screen", "stack", "seal_confirm", "compact_confirm", "dash", "stale",
                   "index_kind", "handler"}
    /\ u.screen \in Screens \cup {"off"} /\ StackOk(u.screen, u.stack)
    /\ u.seal_confirm => u.screen = "seal"
    /\ u.compact_confirm => u.screen = "status"
    /\ u.index_kind \in Kinds

HandlerOk ==
    /\ ui.handler = "none" <=> IsIdle(Tui)
    /\ ui.screen = "off" => ui.handler = "none" /\ ui.dash = NoMem
    /\ ui.handler \in {"setup", "setup done"} => ui.screen = "setup"
    /\ Refreshes(ui.handler) \/ calls[Tui].name \in {"none", "use", "stats"}
    /\ Refreshes(ui.handler) => calls[Tui].name # "stats"

\* The dashboard is fresh, or a call runs that will refresh it; so are the
\* stats that the dashboard will show.
DashOk ==
    /\ (/\ ui.dash # NoMem /\ ~ui.stale /\ calls[Tui].name # "stats"
        /\ ~(Refreshes(ui.handler) /\ At(Tui, "ok"))) => ui.dash = Shown
    /\ calls[Tui].name = "stats" /\ At(Tui, "ok") =>
           /\ calls[Tui].mem.kind \in Kinds
           /\ ~ui.stale => calls[Tui].mem = Shown

UiOk == ScreensOk(ui) /\ HandlerOk /\ DashOk

\* The screens below one are left as they are when another is opened on it.
LEMMA StackOpened ==
    ASSUME NEW screen \in Screens, NEW stack, StackOk(screen, stack), NEW new \in Screens,
           Rank(screen) < Rank(new)
    PROVE  StackOk(new, Append(stack, screen))
<1>1. Rank(screen) \in Int /\ Rank(new) \in Int
  BY DEF Rank
<1>2. /\ Append(stack, screen) \in Seq(Screens) /\ Len(Append(stack, screen)) = Len(stack) + 1
      /\ Append(stack, screen)[Len(stack) + 1] = screen
      /\ \A i \in 1 .. Len(stack) : Append(stack, screen)[i] = stack[i]
  BY DEF StackOk
<1>3. Len(stack) \in Nat
  BY DEF StackOk
<1> QED
  BY <1>1, <1>2, <1>3 DEF StackOk

LEMMA StackPopped ==
    ASSUME NEW screen, NEW stack, StackOk(screen, stack), stack # <<>>
    PROVE  /\ stack[Len(stack)] \in Screens
           /\ StackOk(stack[Len(stack)], SubSeq(stack, 1, Len(stack) - 1))
<1> DEFINE n == Len(stack)
           rest == SubSeq(stack, 1, n - 1)
<1>1. n \in Nat /\ n # 0 /\ stack \in Seq(Screens)
  BY DEF StackOk
<1>2. rest \in Seq(Screens) /\ Len(rest) = n - 1 /\ \A i \in 1 .. n - 1 : rest[i] = stack[i]
  <2>1. 1 \in Int /\ n - 1 \in Int /\ \A i \in 1 .. n - 1 : stack[i] \in Screens
    BY <1>1
  <2>2. /\ rest \in Seq(Screens)
        /\ Len(rest) = IF 1 <= n - 1 THEN (n - 1) - 1 + 1 ELSE 0
        /\ \A i \in 1 .. (n - 1) - 1 + 1 : rest[i] = stack[1 + i - 1]
    <3> HIDE DEF n
    <3> QED
      BY <2>1, SubSeqProperties
  <2>3. n - 1 \in Nat /\ (n - 1) - 1 + 1 = n - 1 /\ (~(1 <= n - 1) => n - 1 = 0)
        /\ \A i \in 1 .. n - 1 : 1 + i - 1 = i
    <3>1. n \in Nat /\ n # 0
      BY <1>1
    <3> HIDE DEF n
    <3> QED
      BY <3>1
  <2>4. Len(rest) = n - 1
    BY <2>2, <2>3
  <2>5. \A i \in 1 .. n - 1 : rest[i] = stack[i]
    BY <2>2, <2>3
  <2> QED
    BY <2>2, <2>4, <2>5
<1>3. stack[n] \in Screens /\ n \in 1 .. n
  BY <1>1
<1>4. n - 1 <= Rank(stack[n])
  BY <1>1, <1>3 DEF StackOk
<1> HIDE DEF rest
<1>5. \A i \in 1 .. n - 1 : i - 1 <= Rank(rest[i])
  BY <1>1, <1>2 DEF StackOk
<1>6. StackOk(stack[n], rest)
  BY <1>1, <1>2, <1>4, <1>5 DEF StackOk
<1> QED
  BY <1>3, <1>6 DEF rest

\* Opening and going back touch nothing but the screen and what was confirmed.
LEMMA ScreenOpened ==
    ASSUME NEW u, ScreensOk(u), NEW new \in Screens, u.screen # "off",
           u.screen = new \/ Rank(u.screen) < Rank(new), NEW v, v = Opened(u, new)
    PROVE  /\ ScreensOk(v) /\ v.screen = new
           /\ \A f \in {"dash", "stale", "index_kind", "handler"} : v[f] = u[f]
<1>1. /\ DOMAIN v = DOMAIN u /\ v.screen = new
      /\ v.stack = IF u.screen = new THEN u.stack ELSE Append(u.stack, u.screen)
      /\ ~v.seal_confirm /\ ~v.compact_confirm
      /\ \A f \in {"dash", "stale", "index_kind", "handler"} : v[f] = u[f]
  BY DEF Opened, ForgetConfirms, ScreensOk
<1>2. StackOk(new, v.stack)
  BY <1>1, StackOpened DEF ScreensOk
<1> QED
  BY <1>1, <1>2 DEF ScreensOk

LEMMA ScreenLeft ==
    ASSUME NEW u, ScreensOk(u), NEW v, v = WentBack(u)
    PROVE  /\ ScreensOk(v) /\ v.screen \in Screens
           /\ \A f \in {"dash", "stale", "index_kind", "handler"} : v[f] = u[f]
<1>1. CASE u.stack # <<>>
  <2>1. /\ DOMAIN v = DOMAIN u /\ v.screen = u.stack[Len(u.stack)]
        /\ v.stack = SubSeq(u.stack, 1, Len(u.stack) - 1)
        /\ ~v.seal_confirm /\ ~v.compact_confirm
        /\ \A f \in {"dash", "stale", "index_kind", "handler"} : v[f] = u[f]
    BY <1>1 DEF WentBack, ForgetConfirms, ScreensOk
  <2>2. v.screen \in Screens /\ StackOk(v.screen, v.stack)
    BY <1>1, <2>1, StackPopped DEF ScreensOk
  <2> QED
    BY <2>1, <2>2 DEF ScreensOk
<1>2. CASE u.stack = <<>>
  <2>1. /\ DOMAIN v = DOMAIN u /\ v.screen = "dashboard" /\ v.stack = <<>>
        /\ ~v.seal_confirm /\ ~v.compact_confirm
        /\ \A f \in {"dash", "stale", "index_kind", "handler"} : v[f] = u[f]
    BY <1>2 DEF WentBack, ForgetConfirms, ScreensOk
  <2>2. StackOk("dashboard", <<>>) /\ "dashboard" \in Screens
    BY DEF StackOk, Rank, Screens
  <2> QED
    BY <2>1, <2>2 DEF ScreensOk
<1> QED
  BY <1>1, <1>2

\* What another process does is noticed as far as it concerns the dashboard.
LEMMA OthersSeen ==
    ASSUME UiOk, calls'[Tui] = calls[Tui], SeesChange
    PROVE  UiOk'
<1>1. CASE store' # store /\ ui.screen # "off"
  <2>1. ui' = [ui EXCEPT !.stale = TRUE]
    BY <1>1 DEF SeesChange
  <2>2. /\ DOMAIN ui' = DOMAIN ui /\ ui'.stale
        /\ \A f \in {"screen", "stack", "seal_confirm", "compact_confirm", "dash", "index_kind",
                     "handler"} : ui'[f] = ui[f]
    BY <2>1 DEF UiOk, ScreensOk
  <2> QED
    BY <2>2 DEF UiOk, ScreensOk, HandlerOk, DashOk, IsIdle, At
<1>2. CASE store' = store \/ ui.screen = "off"
  <2>1. ui' = ui /\ (store' = store => Shown' = Shown)
    BY <1>2 DEF SeesChange, Shown
  <2> QED
    BY <1>2, <2>1 DEF UiOk, ScreensOk, HandlerOk, DashOk, IsIdle, At
<1> QED
  BY <1>1, <1>2

LEMMA IdleCall ==
    ASSUME AccessOk, NEW p \in Proc, IsIdle(p)
    PROVE  calls[p] = Idle /\ calls[p].name = "none" /\ calls[p].step = "idle"
<1>1. calls[p] = Idle
  BY DEF AccessOk, CallOk, IsIdle, At
<1> QED
  BY <1>1 DEF Idle

\* A handler that is over at once.
LEMMA UiBecomes ==
    ASSUME AccessOk, UiOk, IsIdle(Tui), UNCHANGED access, ScreensOk(ui'),
           ui'.screen = "off" => ui'.dash = NoMem, ui'.handler = "none",
           ui'.dash = NoMem \/ (ui'.dash = ui.dash /\ ui'.stale = ui.stale)
    PROVE  UiOk'
<1>1. /\ calls' = calls /\ Shown' = Shown /\ IsIdle(Tui)' /\ calls[Tui].name = "none"
      /\ ui.handler = "none" /\ ~Refreshes("none") /\ calls[Tui].step = "idle"
  <2>1. calls' = calls /\ Shown' = Shown
    BY DEF access, Shown
  <2>2. calls[Tui].name = "none" /\ calls[Tui].step = "idle"
    BY TuiAssumption, IdleCall
  <2>3. ui.handler = "none" /\ ~Refreshes("none")
    BY DEF UiOk, HandlerOk, Refreshes
  <2> QED
    BY <2>1, <2>2, <2>3 DEF IsIdle, At
<1>2. HandlerOk'
  BY <1>1 DEF HandlerOk
<1>3. DashOk'
  BY <1>1 DEF UiOk, DashOk, Refreshes, At
<1> QED
  BY <1>2, <1>3 DEF UiOk

\* The handlers that make a call, with the name of the call.
Handler(h, name) ==
    /\ h \in {"new", "refresh", "setup", "save", "report", "recall", "doctor"}
    /\ name \in Names \ {"none"}
    /\ Refreshes(h) \/ name \in {"use", "stats"}
    /\ Refreshes(h) => name # "stats"

\* A handler that calls the service.
LEMMA UiCalls ==
    ASSUME AccessOk, UiOk, IsIdle(Tui), NEW h, NEW name, Handler(h, name), NEW enc \in BOOLEAN,
           NEW u, ScreensOk(u), u.screen # "off", h = "setup" => u.screen = "setup",
           u.dash = NoMem \/ (u.dash = ui.dash /\ u.stale = ui.stale),
           CallFor(h, name, enc, u)
    PROVE  UiOk' /\ Moves(Tui)
<1> DEFINE call == Call(name, enc, TuiPass)
<1>1. /\ calls' = [calls EXCEPT ![Tui] =
                      [call EXCEPT !.step = IF Creates(call.name) THEN "look" ELSE "check"]]
      /\ UNCHANGED <<store, lock, written, acked>> /\ Shown' = Shown
  BY DEF CallFor, Begin, Shown
<1>2. FreshCall(call)
  BY TuiAssumption DEF FreshCall, Handler
<1>3. Moves(Tui)
  BY <1>1, <1>2, TuiAssumption, BeginKeeps
<1>4. calls'[Tui].step \in {"look", "check"} /\ calls'[Tui].name = name
  BY <1>1, TuiAssumption DEF Call, Idle, AccessOk
<1>5. /\ DOMAIN ui' = DOMAIN u /\ ui'.handler = h
      /\ \A f \in {"screen", "stack", "seal_confirm", "compact_confirm", "dash", "stale",
                   "index_kind"} : ui'[f] = u[f]
  BY DEF CallFor, ScreensOk
<1>6. ScreensOk(ui')
  BY <1>5 DEF ScreensOk
<1>7. HandlerOk'
  BY <1>4, <1>5 DEF HandlerOk, Handler, IsIdle, At, Refreshes
<1>8. calls[Tui].step = "idle" /\ calls[Tui].name = "none"
  BY TuiAssumption, IdleCall
<1>9. DashOk'
  BY <1>1, <1>4, <1>5, <1>8 DEF UiOk, DashOk, At, Refreshes
<1> QED
  BY <1>3, <1>6, <1>7, <1>9 DEF UiOk

\* What the keys do: on its screen each, and none while a call runs.
LEMMA KeyKeeps ==
    ASSUME AccessOk, UiOk, Key
    PROVE  UiOk' /\ (Moves(Tui) \/ UNCHANGED access)
<1>1. ScreensOk(ui) /\ HandlerOk
  BY DEF UiOk
<1>2. ASSUME IsIdle(Tui), NEW u, Becomes(u), ScreensOk(u), u.screen \in Screens,
             \A f \in {"dash", "stale", "handler"} : u[f] = ui[f]
      PROVE  UiOk' /\ UNCHANGED access
  <2>1. ui' = u /\ UNCHANGED access /\ ui.handler = "none" /\ "off" \notin Screens
    BY <1>1, <1>2 DEF Becomes, HandlerOk, Screens
  <2> QED
    BY <1>2, <2>1, UiBecomes
<1>3. \A s \in Screens : s # "help" => Rank(s) < Rank("help")
  BY DEF Screens, Rank
<1>4. CASE Launch
  <2> DEFINE u == [NewUi EXCEPT !.screen = IF store.made THEN "dashboard" ELSE "setup"]
  <2>1. /\ DOMAIN u = {"screen", "stack", "seal_confirm", "compact_confirm", "dash", "stale",
                       "index_kind", "handler"}
        /\ u.screen \in {"dashboard", "setup"} /\ u.stack = <<>> /\ ~u.seal_confirm
        /\ ~u.compact_confirm /\ u.dash = NoMem /\ u.index_kind = "exact"
    BY DEF NewUi
  <2>2. IsIdle(Tui) /\ CallFor("new", "stats", FALSE, u)
    BY <1>4 DEF Launch, Refreshing, On
  <2> HIDE DEF u
  <2>3. ScreensOk(u) /\ u.screen # "off"
    BY <2>1 DEF ScreensOk, StackOk, Rank, Screens, Kinds
  <2> QED
    BY <2>1, <2>2, <2>3, UiCalls DEF Handler, Names, Refreshes
<1>5. CASE Quit
  <2>1. /\ ui' = NewUi /\ UNCHANGED access /\ IsIdle(Tui)
    BY <1>5 DEF Quit, On, Becomes
  <2>2. /\ DOMAIN ui' = {"screen", "stack", "seal_confirm", "compact_confirm", "dash", "stale",
                         "index_kind", "handler"}
        /\ ui'.screen = "off" /\ ui'.stack = <<>> /\ ~ui'.seal_confirm
        /\ ~ui'.compact_confirm /\ ui'.dash = NoMem /\ ui'.index_kind = "exact"
        /\ ui'.handler = "none"
    BY <2>1 DEF NewUi
  <2>3. ScreensOk(ui')
    BY <2>2 DEF ScreensOk, StackOk, Rank, Screens, Kinds
  <2> QED
    BY <2>1, <2>2, <2>3, UiBecomes
<1>6. CASE HelpKey
  <2>1. ui.screen \in Screens /\ IsIdle(Tui) /\ Becomes(Opened(ui, "help")) /\ "help" \in Screens
        /\ ui.screen # "off"
    BY <1>1, <1>6 DEF HelpKey, ScreensOk, Screens
  <2> QED
    BY <1>1, <1>2, <1>3, <2>1, ScreenOpened
<1>7. CASE EscKey
  <2>1. IsIdle(Tui) /\ Becomes(WentBack(ui))
    BY <1>7 DEF EscKey
  <2> QED
    BY <1>1, <1>2, <2>1, ScreenLeft
<1>8. ASSUME IsIdle(Tui), ui.screen # "off", NEW h, NEW name, Handler(h, name),
             h = "setup" => ui.screen = "setup", NEW enc \in BOOLEAN, CallFor(h, name, enc, ui)
      PROVE  UiOk' /\ Moves(Tui)
  BY <1>1, <1>8, UiCalls
<1>9. /\ \A h \in {"setup", "save", "report", "recall", "doctor"} : Handler(h, "use")
      /\ Handler("refresh", "stats")
  BY DEF Handler, Names, Refreshes
<1>10. CASE SetupKey
  <2>1. IsIdle(Tui) /\ ui.screen = "setup"
    BY <1>10 DEF SetupKey, On
  <2>2. CASE \E enc \in BOOLEAN : CallFor("setup", "setup", enc, ui)
    BY <1>8, <2>1, <2>2 DEF Handler, Names, Refreshes
  <2>3. CASE DeepDoctor
    BY <1>8, <1>9, <2>1, <2>3 DEF DeepDoctor
  <2>4. CASE Becomes(Opened(ui, "dashboard"))
    <3>1. "dashboard" \in Screens /\ Rank("setup") < Rank("dashboard")
      BY DEF Screens, Rank
    <3> QED
      BY <1>1, <1>2, <2>1, <2>4, <3>1, ScreenOpened
  <2> QED
    BY <1>10, <2>2, <2>3, <2>4 DEF SetupKey
<1>11. CASE DashboardKey
  <2>1. IsIdle(Tui) /\ ui.screen = "dashboard"
    BY <1>11 DEF DashboardKey, On
  <2>2. PICK s \in Screens \ {"setup", "dashboard"} : Becomes(Opened(ui, s))
    BY <1>11 DEF DashboardKey
  <2>3. Rank("dashboard") < Rank(s)
    BY <2>2 DEF Rank, Screens
  <2> QED
    BY <1>1, <1>2, <2>1, <2>2, <2>3, ScreenOpened
<1>12. CASE RecallKey
  BY <1>8, <1>9, <1>12 DEF RecallKey, On
<1>13. CASE AddMemoryKey
  BY <1>8, <1>13 DEF AddMemoryKey, On, Handler, Names, Refreshes
<1>14. ASSUME IsIdle(Tui), ui.screen \in {"seal", "status"},
              NEW confirm \in {"seal_confirm", "compact_confirm"}, NEW u,
              u = [ui EXCEPT ![confirm] = FALSE],
              CallFor("report", "use", FALSE, u)
       PROVE  UiOk' /\ Moves(Tui)
  <2>1. /\ DOMAIN u = DOMAIN ui /\ ~u[confirm]
        /\ \A f \in DOMAIN ui \ {confirm} : u[f] = ui[f]
    <3>1. confirm \in DOMAIN ui
      BY <1>1 DEF ScreensOk
    <3> QED
      BY <1>14, <3>1
  <2>2. ScreensOk(u) /\ u.screen = ui.screen /\ u.dash = ui.dash /\ u.stale = ui.stale
    BY <1>1, <1>14, <2>1 DEF ScreensOk
  <2> QED
    BY <1>9, <1>14, <2>2, UiCalls
<1>15. CASE SealKey
  <2>1. IsIdle(Tui) /\ ui.screen = "seal"
    BY <1>15 DEF SealKey, On
  <2>2. CASE CallFor("report", "use", FALSE, ui)
    BY <1>8, <1>9, <2>1, <2>2
  <2>3. CASE CallFor("report", "use", FALSE, [ui EXCEPT !.seal_confirm = FALSE])
    BY <1>14, <2>1, <2>3
  <2>4. CASE Becomes([ui EXCEPT !.seal_confirm = TRUE])
    <3> DEFINE u == [ui EXCEPT !.seal_confirm = TRUE]
    <3>1. /\ DOMAIN u = DOMAIN ui
          /\ \A f \in DOMAIN ui \ {"seal_confirm"} : u[f] = ui[f]
      OBVIOUS
    <3> HIDE DEF u
    <3>2. ScreensOk(u) /\ u.screen = ui.screen /\ u.screen \in Screens
          /\ u.dash = ui.dash /\ u.stale = ui.stale /\ u.handler = ui.handler
      BY <1>1, <2>1, <3>1 DEF ScreensOk, Screens
    <3>3. Becomes(u)
      BY <2>4 DEF u
    <3> QED
      BY <1>2, <2>1, <3>2, <3>3
  <2> QED
    BY <1>15, <2>2, <2>3, <2>4 DEF SealKey
<1>16. CASE StatusKey
  <2>1. IsIdle(Tui) /\ ui.screen = "status"
    BY <1>16 DEF StatusKey, On
  <2>2. CASE Refreshing(ui, "refresh")
    BY <1>8, <1>9, <2>1, <2>2 DEF Refreshing
  <2>3. CASE DeepDoctor
    BY <1>8, <1>9, <2>1, <2>3 DEF DeepDoctor
  <2>4. CASE \E h \in {"doctor", "report"} : CallFor(h, "use", FALSE, ui)
    BY <1>8, <1>9, <2>1, <2>4
  <2>5. CASE CallFor("report", "use", FALSE, [ui EXCEPT !.compact_confirm = FALSE])
    BY <1>14, <2>1, <2>5
  <2>6. CASE Becomes([ui EXCEPT !.compact_confirm = TRUE])
    <3> DEFINE u == [ui EXCEPT !.compact_confirm = TRUE]
    <3>1. /\ DOMAIN u = DOMAIN ui
          /\ \A f \in DOMAIN ui \ {"compact_confirm"} : u[f] = ui[f]
      OBVIOUS
    <3> HIDE DEF u
    <3>2. ScreensOk(u) /\ u.screen = ui.screen /\ u.screen \in Screens
          /\ u.dash = ui.dash /\ u.stale = ui.stale /\ u.handler = ui.handler
      BY <1>1, <2>1, <3>1 DEF ScreensOk, Screens
    <3>3. Becomes(u)
      BY <2>6 DEF u
    <3> QED
      BY <1>2, <2>1, <3>2, <3>3
  <2> QED
    BY <1>16, <2>2, <2>3, <2>4, <2>5, <2>6 DEF StatusKey
<1>17. CASE ExportKey
  <2>1. Handler("save", "import")
    BY DEF Handler, Names, Refreshes
  <2> QED
    BY <1>8, <1>9, <1>17, <2>1 DEF ExportKey, On
<1>18. CASE SettingsKey
  <2>1. IsIdle(Tui) /\ ui.screen = "settings" /\ ui.index_kind \in Kinds
    BY <1>1, <1>18 DEF SettingsKey, On, ScreensOk
  <2>2. CASE CallFor("report", ui.index_kind, FALSE, ui)
    BY <1>8, <2>1, <2>2 DEF Handler, Names, Refreshes, Kinds
  <2>3. ASSUME NEW k \in Kinds, Becomes([ui EXCEPT !.index_kind = k])
        PROVE  UiOk' /\ UNCHANGED access
    <3> DEFINE u == [ui EXCEPT !.index_kind = k]
    <3>1. /\ DOMAIN u = DOMAIN ui /\ u.index_kind \in Kinds
          /\ \A f \in DOMAIN ui \ {"index_kind"} : u[f] = ui[f]
      BY <1>1 DEF ScreensOk
    <3> HIDE DEF u
    <3>2. ScreensOk(u) /\ u.screen = ui.screen /\ u.screen \in Screens
          /\ u.dash = ui.dash /\ u.stale = ui.stale /\ u.handler = ui.handler
      BY <1>1, <2>1, <3>1 DEF ScreensOk, Screens
    <3>3. Becomes(u)
      BY <2>3 DEF u
    <3> QED
      BY <1>2, <2>1, <3>2, <3>3
  <2> QED
    BY <1>18, <2>2, <2>3 DEF SettingsKey
<1> QED
  BY <1>4, <1>5, <1>6, <1>7, <1>10, <1>11, <1>12, <1>13, <1>15, <1>16, <1>17, <1>18 DEF Key

\* A step of the call of a handler: a dashboard that was fresh is, unless the
\* call changed the store and failed, or is to be refreshed.
LEMMA TuiStepKeeps ==
    ASSUME AccessOk, UiOk, TuiStep
    PROVE  UiOk' /\ Moves(Tui)
<1>1. Moves(Tui) /\ Step(Tui)
  BY TuiAssumption, StepKeeps DEF TuiStep
<1>2. /\ ~IsIdle(Tui) /\ ~Returned(Tui) /\ calls'[Tui].step # "idle"
      /\ calls'[Tui].name = calls[Tui].name
      /\ Shown' = Shown \/ (/\ calls[Tui].name \in {"remember", "import"} \cup Kinds
                            /\ calls'[Tui].step \in {"ok", "failed"})
      /\ calls[Tui].name = "stats" /\ calls'[Tui].step = "ok" => calls'[Tui].mem = Shown
  BY <1>1, TuiAssumption, StepSeen
<1>3. /\ DOMAIN ui' = DOMAIN ui
      /\ \A f \in {"screen", "stack", "seal_confirm", "compact_confirm", "dash", "index_kind",
                   "handler"} : ui'[f] = ui[f]
      /\ ui'.stale <=> /\ ui.stale \/ (store' # store /\ calls'[Tui].step = "failed")
                       /\ ~(calls[Tui].name = "stats" /\ calls'[Tui].step = "ok")
  BY DEF TuiStep, UiOk, ScreensOk
<1>4. ScreensOk(ui')
  BY <1>3 DEF UiOk, ScreensOk
<1>5. HandlerOk'
  BY <1>2, <1>3 DEF UiOk, HandlerOk, IsIdle, At
<1>6. Shown'.kind \in Kinds /\ (store' = store => Shown' = Shown)
  BY <1>1 DEF Moves, AccessOk, StoreOk, Shown
<1>7. calls[Tui].name \in {"remember", "import"} \cup Kinds => Refreshes(ui.handler)
  BY DEF UiOk, HandlerOk, Kinds
<1>8. ASSUME ui'.dash # NoMem, ~ui'.stale, calls'[Tui].name # "stats",
             ~(Refreshes(ui'.handler) /\ calls'[Tui].step = "ok")
      PROVE  ui'.dash = Shown'
  <2>1. ui.dash # NoMem /\ ~ui.stale /\ calls[Tui].name # "stats"
        /\ ~(store' # store /\ calls'[Tui].step = "failed")
    BY <1>2, <1>3, <1>8
  <2>2. ui.dash = Shown
    BY <1>2, <2>1 DEF UiOk, DashOk, Returned
  <2>3. Shown' = Shown
    BY <1>2, <1>3, <1>6, <1>7, <1>8, <2>1
  <2> QED
    BY <1>3, <2>2, <2>3
<1>9. ASSUME calls'[Tui].name = "stats", calls'[Tui].step = "ok"
      PROVE  calls'[Tui].mem = Shown' /\ calls'[Tui].mem.kind \in Kinds
  BY <1>2, <1>6, <1>9 DEF Kinds
<1>10. DashOk'
  BY <1>8, <1>9 DEF DashOk, At, Refreshes
<1> QED
  BY <1>1, <1>4, <1>5, <1>10 DEF UiOk

LEMMA TuiFailKeeps ==
    ASSUME AccessOk, UiOk, StepFails(Tui), UNCHANGED ui
    PROVE  UiOk' /\ Moves(Tui)
<1>1. Moves(Tui) /\ UNCHANGED store
  BY TuiAssumption, FailKeeps DEF StepFails, Fail
<1>2. /\ calls[Tui].step \notin {"idle", "ok", "failed"}
      /\ calls'[Tui].step = "failed" /\ calls'[Tui].name = calls[Tui].name
  BY TuiAssumption DEF StepFails, Fail, Failed, Idle, IsIdle, Returned, At, AccessOk
<1>3. HandlerOk'
  BY <1>2 DEF UiOk, HandlerOk, IsIdle, At
<1>4. DashOk'
  BY <1>1, <1>2 DEF UiOk, DashOk, At, Shown
<1> QED
  BY <1>1, <1>3, <1>4 DEF UiOk, ScreensOk

\* A handler is over, and shows what its call has read, if anything.
LEMMA HandlerOverKeeps ==
    ASSUME AccessOk, Returned(Tui), NEW u, ScreensOk(u), HandlerOver(u),
           u.screen # "off", u.dash # NoMem /\ ~u.stale => u.dash = Shown
    PROVE  UiOk' /\ Moves(Tui)
<1>1. Moves(Tui) /\ UNCHANGED store
  BY TuiAssumption, DoneKeeps DEF HandlerOver, Done
<1>2. calls'[Tui].step = "idle" /\ calls'[Tui].name = "none"
  BY TuiAssumption DEF HandlerOver, Done, Idle, AccessOk
<1>3. /\ DOMAIN ui' = DOMAIN u /\ ui'.handler = "none"
      /\ \A f \in {"screen", "stack", "seal_confirm", "compact_confirm", "dash", "stale",
                   "index_kind"} : ui'[f] = u[f]
  BY DEF HandlerOver, ScreensOk
<1>4. ScreensOk(ui')
  BY <1>3 DEF ScreensOk
<1>5. HandlerOk'
  BY <1>2, <1>3 DEF HandlerOk, IsIdle, At
<1>6. DashOk'
  BY <1>1, <1>2, <1>3 DEF DashOk, At, Shown
<1> QED
  BY <1>1, <1>4, <1>5, <1>6 DEF UiOk

\* After its call a handler refreshes the dashboard, or is over.
LEMMA ReturnKeeps ==
    ASSUME AccessOk, UiOk, Return
    PROVE  UiOk' /\ Moves(Tui)
<1>1. ScreensOk(ui) /\ Returned(Tui) /\ Tui \in Proc /\ CallOk(Tui) /\ DOMAIN calls = Proc
  BY TuiAssumption DEF UiOk, Return, AccessOk
<1>2. ui.screen # "off" /\ ~IsIdle(Tui)
  BY <1>1 DEF UiOk, HandlerOk, Returned, IsIdle, At
<1>3. CASE calls[Tui].name = "stats"
  <2> DEFINE v == Refreshed(ui)
             u == AfterRefresh(v)
  <2>1. HandlerOver(u)
    BY <1>3 DEF Return, UiOk, HandlerOk
  <2>2. /\ ScreensOk(v) /\ v.screen = ui.screen /\ v.handler = ui.handler /\ v.stale = ui.stale
        /\ v.dash # NoMem /\ ~v.stale => v.dash = Shown
    <3>1. CASE At(Tui, "ok")
      <4>1. /\ DOMAIN v = DOMAIN ui /\ v.dash = calls[Tui].mem
            /\ v.index_kind = calls[Tui].mem.kind
            /\ \A f \in {"screen", "stack", "seal_confirm", "compact_confirm", "stale",
                         "handler"} : v[f] = ui[f]
        BY <1>1, <3>1 DEF Refreshed, ScreensOk
      <4>2. calls[Tui].mem.kind \in Kinds /\ (~ui.stale => calls[Tui].mem = Shown)
        BY <1>3, <3>1 DEF UiOk, DashOk
      <4> HIDE DEF v
      <4> QED
        BY <1>1, <4>1, <4>2 DEF ScreensOk
    <3>2. CASE ~At(Tui, "ok")
      <4>1. /\ DOMAIN v = DOMAIN ui /\ v.dash = NoMem
            /\ \A f \in {"screen", "stack", "seal_confirm", "compact_confirm", "stale",
                         "index_kind", "handler"} : v[f] = ui[f]
        BY <1>1, <3>2 DEF Refreshed, ScreensOk
      <4> HIDE DEF v
      <4> QED
        BY <1>1, <4>1 DEF ScreensOk
    <3> QED
      BY <3>1, <3>2
  <2> HIDE DEF v
  <2>3. ScreensOk(u) /\ u.screen # "off" /\ u.dash = v.dash /\ u.stale = v.stale
    <3>1. CASE v.handler = "setup done"
      <4>1. u = Opened(v, "dashboard") /\ v.screen = "setup"
        BY <2>2, <3>1 DEF AfterRefresh, UiOk, HandlerOk
      <4>2. "dashboard" \in Screens /\ Rank("setup") < Rank("dashboard") /\ "dashboard" # "off"
        BY DEF Screens, Rank
      <4> HIDE DEF u
      <4> QED
        BY <1>2, <2>2, <4>1, <4>2, ScreenOpened
    <3>2. CASE v.handler # "setup done"
      BY <1>2, <2>2, <3>2 DEF AfterRefresh
    <3> QED
      BY <3>1, <3>2
  <2> HIDE DEF u
  <2> QED
    BY <1>1, <2>1, <2>2, <2>3, HandlerOverKeeps
<1>4. CASE calls[Tui].name # "stats" /\ ~(Refreshes(ui.handler) /\ At(Tui, "ok"))
  <2>1. HandlerOver(ui)
    BY <1>4 DEF Return
  <2>2. ui.dash # NoMem /\ ~ui.stale => ui.dash = Shown
    BY <1>4 DEF UiOk, DashOk
  <2> QED
    BY <1>1, <1>2, <2>1, <2>2, HandlerOverKeeps
<1>5. CASE calls[Tui].name # "stats" /\ Refreshes(ui.handler) /\ At(Tui, "ok")
  <2> DEFINE call == Call("stats", FALSE, TuiPass)
  <2>1. /\ ui' = [ui EXCEPT !.handler = IF @ = "setup" THEN "setup done" ELSE "refresh"]
        /\ calls' = [calls EXCEPT ![Tui] = [call EXCEPT !.step = "check"]]
        /\ UNCHANGED <<store, lock, written, acked>>
    BY <1>5 DEF Return
  <2>2. FreshCall(call) /\ ~Creates(call.name)
    BY TuiAssumption DEF FreshCall, Names, Creates, Call, Idle
  <2>3. Moves(Tui)
    BY <1>1, <2>1, <2>2, BeginKeeps
  <2>4. calls'[Tui].step = "check" /\ calls'[Tui].name = "stats"
    BY <1>1, <2>1 DEF Call, Idle
  <2>5. /\ DOMAIN ui' = DOMAIN ui
        /\ ui'.handler = IF ui.handler = "setup" THEN "setup done" ELSE "refresh"
        /\ \A f \in {"screen", "stack", "seal_confirm", "compact_confirm", "dash", "stale",
                     "index_kind"} : ui'[f] = ui[f]
    BY <1>1, <2>1 DEF ScreensOk
  <2>6. ScreensOk(ui')
    BY <1>1, <2>5 DEF ScreensOk
  <2>7. HandlerOk'
    BY <1>2, <2>4, <2>5 DEF UiOk, HandlerOk, IsIdle, At, Refreshes
  <2>8. DashOk'
    BY <2>4 DEF DashOk, At
  <2> QED
    BY <2>3, <2>6, <2>7, <2>8 DEF UiOk
<1> QED
  BY <1>3, <1>4, <1>5

\* The interface before it is started, and after it has died.
LEMMA NewUiOk ==
    ASSUME AccessOk', ui' = NewUi, calls'[Tui] = Idle
    PROVE  UiOk'
<1>1. calls'[Tui].step = "idle" /\ calls'[Tui].name = "none"
  BY DEF Idle
<1>2. /\ DOMAIN ui' = {"screen", "stack", "seal_confirm", "compact_confirm", "dash", "stale",
                       "index_kind", "handler"}
      /\ ui'.screen = "off" /\ ui'.stack = <<>> /\ ~ui'.seal_confirm
      /\ ~ui'.compact_confirm /\ ui'.dash = NoMem /\ ui'.index_kind = "exact"
      /\ ui'.handler = "none"
  BY DEF NewUi
<1>3. ScreensOk(ui')
  BY <1>2 DEF ScreensOk, StackOk, Rank, Screens, Kinds
<1>4. HandlerOk' /\ DashOk'
  BY <1>1, <1>2 DEF HandlerOk, DashOk, IsIdle, At
<1> QED
  BY <1>3, <1>4 DEF UiOk

LEMMA TuiDiesKeeps ==
    ASSUME AccessOk, UiOk, TuiDies
    PROVE  UiOk' /\ Moves(Tui)
<1>1. Moves(Tui) /\ calls'[Tui] = Idle /\ ui' = NewUi
  BY TuiAssumption, DieKeeps DEF TuiDies, Die, AccessOk
<1> QED
  BY <1>1, NewUiOk DEF Moves

-----------------------------------------------------------------------------
(* The MCP server.                                                          *)

Replies == [id : Nat, ok : BOOLEAN, memory : Nat, invalid : BOOLEAN]

\* Answerable and AnswersInOrder, of a session given.
Asked(lines, n) == {i \in 1 .. n : lines[i].kind # "notification"}

IsAnswered(line, i, answer) ==
    /\ answer.id = IF line.kind = "garbage" THEN NullId ELSE i
    /\ answer.invalid => ~(RequiredFields(line.tool) \subseteq line.fields)

InOrder(lines, n, answers) ==
    /\ Len(answers) = Cardinality(Asked(lines, n))
    /\ \A i \in Asked(lines, n) :
          IsAnswered(lines[i], i, answers[Cardinality(Asked(lines, i))])

\* Memories are reported as they are acknowledged, and by the call that wrote
\* them.
SessionOk ==
    /\ DOMAIN session = {"lines", "handled", "answers", "memory"}
    /\ session.lines \in Seq(McpLines) /\ Len(session.lines) <= MaxLines
    /\ session.handled \in 0 .. Len(session.lines) /\ session.memory \in 0 .. MaxWrites
    /\ session.answers \in Seq(Replies)
    /\ InOrder(session.lines, session.handled, session.answers)
    /\ ~IsIdle(Mcp) => /\ session.handled < Len(session.lines)
                       /\ Line.kind \in {"tool", "notification"}
    /\ ~Returned(Mcp) => session.memory = 0
    /\ session.memory # 0 /\ At(Mcp, "ok") => session.memory \in acked
    /\ \A i \in DOMAIN session.answers :
          LET answer == session.answers[i] IN
          (answer.ok /\ answer.memory # 0) => answer.memory \in acked

\* The lines that ask for an answer, counted one by one.
LEMMA AskedCount ==
    ASSUME NEW lines, NEW n \in Nat
    PROVE  /\ IsFiniteSet(Asked(lines, n)) /\ Cardinality(Asked(lines, n)) \in Nat
           /\ lines[n + 1].kind = "notification" => Asked(lines, n + 1) = Asked(lines, n)
           /\ lines[n + 1].kind # "notification" =>
                  /\ Asked(lines, n + 1) = Asked(lines, n) \cup {n + 1}
                  /\ Cardinality(Asked(lines, n + 1)) = Cardinality(Asked(lines, n)) + 1
<1>1. IsFiniteSet(1 .. n) /\ Asked(lines, n) \subseteq 1 .. n
  BY FS_Interval DEF Asked
<1>2. IsFiniteSet(Asked(lines, n))
  BY <1>1, FS_Subset
<1>3. 1 .. n + 1 = (1 .. n) \cup {n + 1} /\ n + 1 \notin 1 .. n
  OBVIOUS
<1>4. /\ lines[n + 1].kind = "notification" => Asked(lines, n + 1) = Asked(lines, n)
      /\ lines[n + 1].kind # "notification" => Asked(lines, n + 1) = Asked(lines, n) \cup {n + 1}
  BY <1>3 DEF Asked
<1>5. Cardinality(Asked(lines, n) \cup {n + 1}) = Cardinality(Asked(lines, n)) + 1
  <2>1. n + 1 \notin Asked(lines, n)
    BY <1>1, <1>3
  <2> QED
    BY <1>2, <2>1, FS_AddElement
<1> QED
  BY <1>2, <1>4, <1>5, FS_CardinalityType

\* The answer to a line that asks for one is among those written.
LEMMA AskedPlace ==
    ASSUME NEW lines, NEW n \in Nat, NEW i \in Asked(lines, n)
    PROVE  Cardinality(Asked(lines, i)) \in 1 .. Cardinality(Asked(lines, n))
<1>1. i \in Nat /\ i \in 1 .. n /\ i \in Asked(lines, i) /\ Asked(lines, i) \subseteq Asked(lines, n)
  BY DEF Asked
<1>2. /\ IsFiniteSet(Asked(lines, n)) /\ IsFiniteSet(Asked(lines, i))
      /\ Cardinality(Asked(lines, n)) \in Nat /\ Cardinality(Asked(lines, i)) \in Nat
  BY <1>1, AskedCount
<1>3. Cardinality(Asked(lines, i)) <= Cardinality(Asked(lines, n))
  BY <1>1, <1>2, FS_Subset
<1>4. Cardinality(Asked(lines, i)) # 0
  BY <1>1, <1>2, FS_EmptySet
<1> QED
  BY <1>2, <1>3, <1>4

LEMMA InOrderAnswered ==
    ASSUME NEW lines, NEW n \in Nat, NEW answers \in Seq(Replies), InOrder(lines, n, answers),
           NEW answer \in Replies, lines[n + 1].kind # "notification",
           IsAnswered(lines[n + 1], n + 1, answer)
    PROVE  InOrder(lines, n + 1, Append(answers, answer))
<1> DEFINE c == Cardinality(Asked(lines, n))
           more == Append(answers, answer)
<1>1. c \in Nat /\ Len(answers) = c /\ Asked(lines, n + 1) = Asked(lines, n) \cup {n + 1}
      /\ Cardinality(Asked(lines, n + 1)) = c + 1
  BY AskedCount DEF InOrder
<1>2. Len(more) = c + 1 /\ more[c + 1] = answer /\ \A k \in 1 .. c : more[k] = answers[k]
  BY <1>1
<1>3. ASSUME NEW i \in Asked(lines, n)
      PROVE  IsAnswered(lines[i], i, more[Cardinality(Asked(lines, i))])
  <2>1. Cardinality(Asked(lines, i)) \in 1 .. c
    BY AskedPlace
  <2>2. more[Cardinality(Asked(lines, i))] = answers[Cardinality(Asked(lines, i))]
    BY <1>2, <2>1
  <2> QED
    BY <2>2 DEF InOrder
<1> HIDE DEF more
<1>4. IsAnswered(lines[n + 1], n + 1, more[Cardinality(Asked(lines, n + 1))])
  BY <1>1, <1>2
<1>5. InOrder(lines, n + 1, more)
  BY <1>1, <1>2, <1>3, <1>4 DEF InOrder
<1> QED
  BY <1>5 DEF more

LEMMA InOrderUnanswered ==
    ASSUME NEW lines, NEW n \in Nat, NEW answers, InOrder(lines, n, answers),
           lines[n + 1].kind = "notification"
    PROVE  InOrder(lines, n + 1, answers)
<1>1. Asked(lines, n + 1) = Asked(lines, n)
  BY AskedCount
<1> QED
  BY <1>1 DEF InOrder

LEMMA InOrderSent ==
    ASSUME NEW lines \in Seq(McpLines), NEW n \in 0 .. Len(lines), NEW answers,
           InOrder(lines, n, answers), NEW line \in McpLines
    PROVE  InOrder(Append(lines, line), n, answers)
<1> DEFINE more == Append(lines, line)
<1>1. Len(lines) \in Nat /\ \A i \in 1 .. Len(lines) : more[i] = lines[i]
  OBVIOUS
<1>2. \A i \in 1 .. n : i \in 1 .. Len(lines) /\ 1 .. i \subseteq 1 .. n
  BY <1>1
<1> HIDE DEF more
<1>3. ASSUME NEW i \in 0 .. n
      PROVE  Asked(more, i) = Asked(lines, i)
  <2>1. \A j \in 1 .. i : more[j] = lines[j]
    BY <1>1, <1>2
  <2> QED
    BY <2>1 DEF Asked
<1>4. n \in 0 .. n /\ Asked(more, n) = Asked(lines, n) /\ Asked(lines, n) \subseteq 1 .. n
  BY <1>1, <1>3 DEF Asked
<1>5. ASSUME NEW i \in Asked(lines, n)
      PROVE  more[i] = lines[i] /\ Asked(more, i) = Asked(lines, i)
  <2>1. i \in 1 .. n /\ i \in 0 .. n
    BY <1>1, <1>4
  <2> QED
    BY <1>1, <1>2, <1>3, <2>1
<1>6. InOrder(more, n, answers)
  BY <1>4, <1>5 DEF InOrder
<1> QED
  BY <1>6 DEF more

\* What another process does leaves the session, and what it speaks of.
LEMMA SessionStays ==
    ASSUME SessionOk, UNCHANGED session, calls'[Mcp] = calls[Mcp], acked \subseteq acked'
    PROVE  SessionOk'
<1>1. Line' = Line
  BY DEF Line
<1> QED
  BY <1>1 DEF SessionOk, IsIdle, Returned, At

\* A line is handled, and answered if it asks for it.
LEMMA LineHandled ==
    ASSUME SessionOk, session.handled < Len(session.lines), IsIdle(Mcp)', acked \subseteq acked',
           \/ session' = Unanswered /\ Line.kind = "notification"
           \/ \E answer \in Replies :
                 /\ session' = Answered(answer) /\ Line.kind # "notification"
                 /\ IsAnswered(Line, session.handled + 1, answer)
                 /\ answer.ok /\ answer.memory # 0 => answer.memory \in acked
    PROVE  SessionOk'
<1> DEFINE n == session.handled
<1>1. n \in Nat /\ n + 1 \in 0 .. Len(session.lines)
  BY DEF SessionOk
<1>2. InOrder(session.lines, n, session.answers) /\ session.answers \in Seq(Replies)
  BY DEF SessionOk
<1>3. /\ DOMAIN session' = DOMAIN session /\ session'.lines = session.lines
      /\ session'.handled = n + 1 /\ session'.memory = 0
  BY DEF Unanswered, Answered, SessionOk
<1> DEFINE Good(answers) ==
              /\ answers \in Seq(Replies) /\ InOrder(session.lines, n + 1, answers)
              /\ \A i \in DOMAIN answers :
                    LET answer == answers[i] IN
                    (answer.ok /\ answer.memory # 0) => answer.memory \in acked
<1>4. Good(session'.answers)
  <2>1. CASE session' = Unanswered /\ Line.kind = "notification"
    <3>1. session'.answers = session.answers
      BY <2>1 DEF Unanswered, SessionOk
    <3>2. InOrder(session.lines, n + 1, session.answers)
      BY <1>1, <1>2, <2>1, InOrderUnanswered DEF Line
    <3> QED
      BY <1>2, <3>1, <3>2 DEF SessionOk
  <2>2. ASSUME NEW answer \in Replies,
               session' = Answered(answer), Line.kind # "notification",
               IsAnswered(Line, n + 1, answer),
               answer.ok /\ answer.memory # 0 => answer.memory \in acked
        PROVE  Good(session'.answers)
    <3>1. session'.answers = Append(session.answers, answer)
      BY <2>2 DEF Answered, SessionOk
    <3>2. InOrder(session.lines, n + 1, Append(session.answers, answer))
      BY <1>1, <1>2, <2>2, InOrderAnswered DEF Line
    <3>3. /\ Append(session.answers, answer) \in Seq(Replies)
          /\ \A i \in DOMAIN Append(session.answers, answer) :
                \/ i \in DOMAIN session.answers
                   /\ Append(session.answers, answer)[i] = session.answers[i]
                \/ Append(session.answers, answer)[i] = answer
      BY <1>2, <2>2
    <3> QED
      BY <2>2, <3>1, <3>2, <3>3 DEF SessionOk
  <2> QED
    BY <2>1, <2>2
<1>5. ~Returned(Mcp)' /\ MaxWrites \in Nat
  BY AccessAssumption DEF IsIdle, Returned, At
<1> QED
  BY <1>1, <1>3, <1>4, <1>5 DEF SessionOk, IsIdle, At

LEMMA SendKeeps ==
    ASSUME SessionOk, Send
    PROVE  SessionOk'
<1>1. PICK line \in McpLines : session' = [session EXCEPT !.lines = Append(@, line)]
  BY DEF Send
<1> DEFINE lines == session.lines
<1>2. /\ DOMAIN session' = DOMAIN session /\ session'.lines = Append(lines, line)
      /\ \A f \in {"handled", "answers", "memory"} : session'[f] = session[f]
  BY <1>1 DEF SessionOk
<1>3. lines \in Seq(McpLines) /\ Len(lines) < MaxLines /\ MaxLines \in Nat
      /\ session.handled \in 0 .. Len(lines)
  BY McpAssumption DEF Send, SessionOk
<1>4. /\ session'.lines \in Seq(McpLines) /\ Len(session'.lines) = Len(lines) + 1
      /\ \A i \in 1 .. Len(lines) : session'.lines[i] = lines[i]
  BY <1>2, <1>3
<1>5. InOrder(session'.lines, session'.handled, session'.answers)
  BY <1>2, <1>3, InOrderSent DEF SessionOk
<1>6. Len(session'.lines) <= MaxLines /\ session'.handled \in 0 .. Len(session'.lines)
  BY <1>2, <1>3, <1>4
<1>7. session.handled < Len(lines) => Line' = Line /\ session'.handled < Len(session'.lines)
  BY <1>2, <1>3, <1>4 DEF Line
<1>8. UNCHANGED <<calls, acked>>
  BY DEF Send, access
<1> QED
  BY <1>2, <1>4, <1>5, <1>6, <1>7, <1>8 DEF SessionOk, IsIdle, Returned, At

LEMMA AnswerFields ==
    ASSUME NEW id \in Nat, NEW ok \in BOOLEAN, NEW memory \in Nat, NEW answer,
           answer \in {Answer(id, ok, memory), InvalidParams(id)}
    PROVE  /\ answer \in Replies /\ answer.id = id
           /\ answer.ok => ok /\ answer.memory = memory
           /\ answer = Answer(id, ok, memory) => ~answer.invalid
<1>1. CASE answer = Answer(id, ok, memory)
  BY <1>1 DEF Answer, Replies
<1>2. CASE answer = InvalidParams(id)
  <2>1. /\ DOMAIN answer = {"id", "ok", "memory", "invalid"}
        /\ answer.id = id /\ answer.ok = FALSE /\ answer.memory = 0 /\ answer.invalid = TRUE
    BY <1>2 DEF InvalidParams, Answer
  <2>2. answer = [id |-> id, ok |-> FALSE, memory |-> 0, invalid |-> TRUE]
    BY <1>2 DEF InvalidParams, Answer
  <2> QED
    BY <2>1, <2>2 DEF Replies, Answer
<1> QED
  BY <1>1, <1>2

LEMMA ServeKeeps ==
    ASSUME AccessOk, SessionOk, ServeNext
    PROVE  SessionOk' /\ (Moves(Mcp) \/ UNCHANGED access)
<1> DEFINE n == session.handled
<1>1. n < Len(session.lines) /\ n \in Nat /\ Line \in Lines
  <2>1. n < Len(session.lines)
    BY DEF ServeNext, HandleLocally, RefuseCall, CallTool, ToolReturns, IsCall, Waiting, SessionOk,
           Returned, IsIdle, At
  <2>2. session.lines[n + 1] \in McpLines
    BY <2>1 DEF SessionOk
  <2> QED
    BY <2>1, <2>2, McpAssumption DEF Line, SessionOk
<1>2. Mcp \in Proc /\ DOMAIN calls = Proc
  BY McpAssumption DEF AccessOk
<1>3. CASE HandleLocally
  <2> DEFINE answer == Answer(IF Line.kind = "garbage" THEN NullId ELSE n + 1,
                              Line.kind = "local", 0)
  <2>1. session' = Answered(answer) /\ Line.kind \in {"local", "garbage"}
        /\ UNCHANGED access /\ IsIdle(Mcp)
    BY <1>3 DEF HandleLocally, Waiting
  <2>2. answer \in Replies /\ answer.memory = 0
        /\ IsAnswered(Line, n + 1, answer)
    BY <1>1, <2>1 DEF Answer, Replies, IsAnswered, NullId
  <2> HIDE DEF answer
  <2>3. IsIdle(Mcp)' /\ acked \subseteq acked'
    BY <2>1 DEF IsIdle, At, access
  <2> QED
    BY <1>1, <2>1, <2>2, <2>3, LineHandled
<1>4. CASE RefuseCall
  <2>1. /\ session' = IF Line.kind = "tool" THEN Answered(InvalidParams(n + 1)) ELSE Unanswered
        /\ UNCHANGED access /\ IsIdle(Mcp) /\ Line.kind \in {"tool", "notification"}
        /\ ~(Params[Line.tool] \subseteq WithDefaults(Line.fields))
    BY <1>4 DEF RefuseCall, IsCall, Waiting, Parses
  <2>2. IsIdle(Mcp)' /\ acked \subseteq acked'
    BY <2>1 DEF IsIdle, At, access
  <2>3. Line.tool \in {"remember", "use"}
    BY <1>1, <2>1 DEF Lines, Tools, WritingTools, OtherTools
  <2>4. ~(RequiredFields(Line.tool) \subseteq Line.fields)
    BY <2>1, <2>3, McpAssumption DEF Params, WithDefaults, RequiredFields
  <2>5. /\ InvalidParams(n + 1) \in Replies /\ ~InvalidParams(n + 1).ok
        /\ InvalidParams(n + 1).id = n + 1
    <3>1. n + 1 \in Nat /\ 0 \in Nat
      BY <1>1
    <3> QED
      BY <3>1, AnswerFields
  <2>6. IsAnswered(Line, n + 1, InvalidParams(n + 1)) \/ Line.kind = "notification"
    BY <2>1, <2>4, <2>5 DEF IsAnswered
  <2> QED
    BY <1>1, <2>1, <2>2, <2>5, <2>6, LineHandled
<1>5. CASE CallTool
  <2> DEFINE call == Call(Line.tool, FALSE, McpPass)
  <2>1. Line.kind \in {"tool", "notification"} /\ UNCHANGED session /\ Begin(Mcp, call)
        /\ IsIdle(Mcp)
    BY <1>5 DEF CallTool, IsCall, Waiting
  <2>2. Line.tool \in {"remember", "use"}
    BY <1>1, <2>1 DEF Lines, Tools, WritingTools, OtherTools
  <2>3. FreshCall(call)
    BY <2>2, McpAssumption DEF FreshCall, Names
  <2>4. Moves(Mcp)
    BY <1>2, <2>1, <2>3, BeginKeeps DEF Begin
  <2>5. calls'[Mcp].step \in {"look", "check"}
    BY <1>2, <2>1 DEF Begin, Call, Idle
  <2>6. session.memory = 0 /\ Line' = Line
    BY <2>1 DEF SessionOk, IsIdle, Returned, At, Line
  <2>7. SessionOk'
    BY <1>1, <2>1, <2>4, <2>5, <2>6 DEF SessionOk, Moves, IsIdle, Returned, At
  <2> QED
    BY <2>4, <2>7
<1>6. CASE ToolReturns
  <2> DEFINE answer == Answer(n + 1, At(Mcp, "ok"), session.memory)
  <2>1. /\ session' = IF Line.kind = "tool" THEN Answered(answer) ELSE Unanswered
        /\ Returned(Mcp) /\ Done(Mcp)
    BY <1>6 DEF ToolReturns
  <2>2. Line.kind \in {"tool", "notification"}
    BY <2>1 DEF SessionOk, Returned, IsIdle, At
  <2>3. Moves(Mcp)
    BY <1>2, <2>1, DoneKeeps
  <2>4. IsIdle(Mcp)' /\ acked \subseteq acked'
    BY <1>2, <2>1 DEF Done, Idle, IsIdle, At
  <2>5. answer \in Replies /\ (answer.ok => At(Mcp, "ok")) /\ answer.memory = session.memory
        /\ answer.id = n + 1 /\ ~answer.invalid
    <3>1. session.memory \in Nat
      BY AccessAssumption DEF SessionOk
    <3>2. n + 1 \in Nat /\ At(Mcp, "ok") \in BOOLEAN
      BY <1>1 DEF At
    <3>3. answer.memory = session.memory
      BY DEF Answer
    <3> HIDE DEF n
    <3> QED
      BY <3>1, <3>2, <3>3, AnswerFields
  <2> HIDE DEF answer
  <2>6. IsAnswered(Line, n + 1, answer)
    BY <2>2, <2>5 DEF IsAnswered
  <2>7. answer.ok /\ answer.memory # 0 => answer.memory \in acked
    BY <2>5 DEF SessionOk
  <2>8. SessionOk'
    BY <1>1, <2>1, <2>2, <2>4, <2>5, <2>6, <2>7, LineHandled
  <2> QED
    BY <2>3, <2>8
<1> QED
  BY <1>3, <1>4, <1>5, <1>6 DEF ServeNext

LEMMA McpStepKeeps ==
    ASSUME AccessOk, SessionOk, McpStep
    PROVE  SessionOk' /\ Moves(Mcp)
<1>1. Moves(Mcp)
  BY McpAssumption, StepKeeps DEF McpStep
<1>2. /\ ~IsIdle(Mcp) /\ ~Returned(Mcp) /\ calls'[Mcp].step # "idle"
      /\ written' > written =>
            calls'[Mcp].step \in {"ok", "failed"} /\ (calls'[Mcp].step = "ok" => written' \in acked')
  BY AccessAssumption, McpAssumption, StepSeen DEF McpStep
<1>3. session.memory = 0
  BY <1>2 DEF SessionOk
<1>4. /\ DOMAIN session' = DOMAIN session
      /\ \A f \in {"lines", "handled", "answers"} : session'[f] = session[f]
      /\ session'.memory = IF written' > written THEN written' ELSE 0
  BY <1>3 DEF McpStep, SessionOk
<1>5. written' \in 0 .. MaxWrites /\ 0 \in 0 .. MaxWrites
  BY <1>1, AccessAssumption DEF Moves, AccessOk, StoreOk
<1>6. Line' = Line
  BY <1>4 DEF Line
<1>7. ~Returned(Mcp)' => session'.memory = 0
  BY <1>2, <1>4 DEF Returned, At
<1>8. session'.memory # 0 /\ At(Mcp, "ok")' => session'.memory \in acked'
  BY <1>2, <1>4 DEF At
<1>9. acked \subseteq acked' /\ session.handled < Len(session.lines)
      /\ Line.kind \in {"tool", "notification"}
  BY <1>1, <1>2 DEF Moves, SessionOk
<1>10. SessionOk'
  BY <1>4, <1>5, <1>6, <1>7, <1>8, <1>9 DEF SessionOk
<1> QED
  BY <1>1, <1>10

LEMMA McpFailKeeps ==
    ASSUME AccessOk, SessionOk, StepFails(Mcp), UNCHANGED session
    PROVE  SessionOk' /\ Moves(Mcp)
<1>1. Moves(Mcp)
  BY McpAssumption, FailKeeps DEF StepFails
<1>2. ~IsIdle(Mcp) /\ ~Returned(Mcp) /\ calls'[Mcp].step = "failed"
  BY McpAssumption DEF StepFails, Fail, Failed, Idle, AccessOk
<1>3. session.memory = 0 /\ Line' = Line /\ acked \subseteq acked'
  BY <1>1, <1>2 DEF SessionOk, Line, Moves
<1>4. SessionOk'
  BY <1>2, <1>3 DEF SessionOk, IsIdle, Returned, At
<1> QED
  BY <1>1, <1>4

\* A session before it is begun, and after the server has died.
LEMMA NewSessionOk ==
    ASSUME session' = NewSession, calls'[Mcp] = Idle
    PROVE  SessionOk'
<1>1. /\ DOMAIN session' = {"lines", "handled", "answers", "memory"}
      /\ session'.lines = <<>> /\ session'.handled = 0 /\ session'.answers = <<>>
      /\ session'.memory = 0
  BY DEF NewSession
<1>2. calls'[Mcp].step = "idle"
  BY DEF Idle
<1>3. InOrder(<<>>, 0, <<>>)
  <2>1. Asked(<<>>, 0) = {}
    BY DEF Asked
  <2> QED
    BY <2>1, FS_EmptySet DEF InOrder
<1>4. <<>> \in Seq(McpLines) /\ <<>> \in Seq(Replies) /\ Len(<<>>) = 0
  OBVIOUS
<1>5. MaxLines \in Nat /\ MaxWrites \in Nat
  BY McpAssumption, AccessAssumption
<1> QED
  BY <1>1, <1>2, <1>3, <1>4, <1>5 DEF SessionOk, IsIdle, Returned, At

LEMMA McpDiesKeeps ==
    ASSUME AccessOk, McpDies
    PROVE  SessionOk' /\ Moves(Mcp)
<1>1. Moves(Mcp) /\ calls'[Mcp] = Idle /\ session' = NewSession
  BY McpAssumption, DieKeeps DEF McpDies, Die, AccessOk
<1> QED
  BY <1>1, NewSessionOk

-----------------------------------------------------------------------------
(* The setup of a host.                                                     *)

Registers == {"add", "replace", "verify", "rollback"}
Rewrites  == {"backup", "write", "unlink", "rename"}

\* What a command has found stays so until it changes it, and it changes what
\* it was allowed to; a file is removed when it is in a backup and the new one
\* is written.
JobOk ==
    /\ DOMAIN job = {"remove", "force", "dry", "step", "doc", "before"}
    /\ job.step \in {"setup", "smoke", "inspect"} => EntryOf(host.file) = job.before
    /\ job.step = "drop" => job.remove /\ host.kind \in CliHosts
    /\ job.step \in Registers =>
           host.kind \in CliHosts /\ ~job.remove /\ (job.force \/ job.before = "absent")
    /\ job.step \in Rewrites =>
           host.kind = "cursor" /\ (job.remove \/ job.force \/ job.before = "absent")
    /\ job.step \in {"backup", "write"} => job.doc \in Doc
    /\ job.step \in {"write", "unlink"} => host.file = NoFile \/ host.file \in host.backups
    /\ job.step \in {"unlink", "rename"} =>
           host.temp \in Doc /\ host.temp.entry = IF job.remove THEN "absent" ELSE "ours"
    /\ job.step = "rename" => host.file = NoFile

HostOk ==
    /\ DOMAIN host = {"kind", "file", "backups", "temp", "had"}
    /\ HostTypeOK /\ JobOk /\ RegistrationTruthful /\ OthersKept

LEMMA HostStays ==
    ASSUME HostOk, UNCHANGED setup
    PROVE  HostOk'
<1>1. host' = host /\ job' = job
  BY DEF setup
<1> QED
  BY <1>1 DEF HostOk, HostTypeOK, JobOk, RegistrationTruthful, OthersKept

\* A command of its own choice at the step `step`.
SameJob(step) ==
    /\ DOMAIN job' = DOMAIN job /\ job'.step = step /\ job'.doc = job.doc
    /\ job'.before = job.before /\ (job'.remove <=> job.remove)
    /\ (job'.force <=> job.force) /\ (job'.dry <=> job.dry)

LEMMA JobTo ==
    ASSUME JobOk, NEW step, To(step)
    PROVE  SameJob(step)
BY DEF JobOk, To, SameJob

\* A command that was told no, or is over: what it found was not touched.
LEMMA JobStops ==
    ASSUME HostOk, job.step # "off", UNCHANGED host, To("failed")
    PROVE  HostOk'
<1>1. SameJob("failed")
  BY JobTo DEF HostOk
<1> QED
  BY <1>1 DEF HostOk, HostTypeOK, JobOk, SameJob, RegistrationTruthful, OthersKept, Registers,
              Rewrites

\* Before a command and after it.
LEMMA NoJobOk ==
    ASSUME HostOk, UNCHANGED host, job' = NewJob
    PROVE  HostOk'
<1>1. /\ DOMAIN job' = {"remove", "force", "dry", "step", "doc", "before"}
      /\ job'.step = "off"
  BY DEF NewJob
<1> QED
  BY <1>1 DEF HostOk, HostTypeOK, JobOk, RegistrationTruthful, OthersKept, Registers, Rewrites

LEMMA StartKeeps ==
    ASSUME AccessOk, HostOk, StartJob
    PROVE  HostOk' /\ (Moves(Host) \/ UNCHANGED access)
<1>1. PICK remove, force, dry, enc \in BOOLEAN :
          LET new == [NewJob EXCEPT !.remove = remove, !.force = force, !.dry = dry,
                                    !.before = EntryOf(host.file)]
          IN IF remove
             THEN job' = [new EXCEPT !.step = "inspect"] /\ UNCHANGED access
             ELSE /\ job' = [new EXCEPT !.step = "setup"]
                  /\ Begin(Host, Call("setup", enc, HostPass))
  BY DEF StartJob
<1>2. /\ DOMAIN job' = {"remove", "force", "dry", "step", "doc", "before"}
      /\ job'.step \in {"inspect", "setup"} /\ job'.before = EntryOf(host.file)
  BY <1>1 DEF NewJob
<1>3. UNCHANGED host
  BY DEF StartJob
<1>4. HostOk'
  BY <1>2, <1>3 DEF HostOk, HostTypeOK, JobOk, RegistrationTruthful, OthersKept, Registers,
                    Rewrites
<1>5. FreshCall(Call("setup", enc, HostPass))
  BY HostAssumption DEF FreshCall, Names
<1>6. Moves(Host) \/ UNCHANGED access
  BY <1>1, <1>5, HostAssumption, BeginKeeps DEF Begin
<1> QED
  BY <1>4, <1>6

LEMMA SetupReturnKeeps ==
    ASSUME AccessOk, HostOk, SetupReturns
    PROVE  HostOk' /\ Moves(Host)
<1>1. Returned(Host) /\ job.step \in {"setup", "smoke"} /\ UNCHANGED host /\ Host \in Proc
  BY HostAssumption DEF SetupReturns
<1>2. CASE To("failed") /\ Done(Host)
  BY <1>1, <1>2, DoneKeeps, JobStops
<1>3. ASSUME NEW step \in {"smoke", "inspect"}, To(step)
      PROVE  HostOk'
  <2>1. SameJob(step)
    BY <1>3, JobTo DEF HostOk
  <2> QED
    BY <1>1, <1>3, <2>1 DEF HostOk, HostTypeOK, JobOk, SameJob, RegistrationTruthful, OthersKept,
                            Registers, Rewrites
<1>4. CASE To("inspect") /\ Done(Host)
  BY <1>1, <1>3, <1>4, DoneKeeps
<1>5. CASE /\ To("smoke")
           /\ calls' = [calls EXCEPT ![Host] = [Call("stats", FALSE, HostPass) EXCEPT !.step = "check"]]
           /\ UNCHANGED <<store, lock, written, acked>>
  <2> DEFINE call == Call("stats", FALSE, HostPass)
  <2>1. FreshCall(call) /\ ~Creates(call.name)
    BY HostAssumption DEF FreshCall, Names, Creates, Call, Idle
  <2>2. Moves(Host)
    BY <1>1, <1>5, <2>1, BeginKeeps
  <2> QED
    BY <1>3, <1>5, <2>2
<1> QED
  BY <1>2, <1>4, <1>5 DEF SetupReturns, Returned, At

\* What is decided about an entry is right for what there is.
LEMMA InspectKeeps ==
    ASSUME HostOk, Inspect
    PROVE  HostOk' /\ UNCHANGED access
<1> DEFINE doc   == IF host.file = NoFile THEN EmptyDoc ELSE host.file
           found == IF host.kind \in CliHosts /\ job.dry THEN "absent" ELSE doc.entry
           next  == Configure(host.kind, found)
<1>1. /\ job.step = "inspect" /\ job' = [job EXCEPT !.doc = doc, !.step = next]
      /\ UNCHANGED <<access, host>>
  BY DEF Inspect, In
<1>2. /\ DOMAIN job' = {"remove", "force", "dry", "step", "doc", "before"}
      /\ job'.step = next /\ job'.doc = doc /\ job'.before = job.before
      /\ (job'.remove <=> job.remove) /\ (job'.force <=> job.force) /\ (job'.dry <=> job.dry)
  BY <1>1 DEF HostOk, JobOk
<1>3. doc \in Doc /\ doc.entry = EntryOf(host.file) /\ doc.entry \in Entries
      /\ EntryOf(host.file) = job.before
  <2>1. EmptyDoc \in Doc /\ EmptyDoc.entry = "absent"
    BY DEF EmptyDoc, Doc, Entries
  <2>2. host.file \in Doc \cup {NoFile} /\ EntryOf(host.file) = job.before
    BY <1>1 DEF HostOk, HostTypeOK, JobOk
  <2>3. \A d \in Doc : d.entry \in Entries
    BY DEF Doc
  <2> QED
    BY <2>1, <2>2, <2>3 DEF EntryOf
<1> HIDE DEF doc
<1>4. /\ next \in {"ok", "failed", "drop", "add", "replace", "backup"}
      /\ next = "drop" => job.remove /\ host.kind \in CliHosts
      /\ next \in {"add", "replace"} =>
             host.kind \in CliHosts /\ ~job.remove /\ (job.force \/ doc.entry = "absent")
      /\ next = "backup" => host.kind = "cursor"
                            /\ (job.remove \/ job.force \/ doc.entry = "absent")
      /\ next = "ok" /\ host.kind # "generic" /\ ~job.dry =>
             IF job.remove THEN doc.entry = "absent" ELSE Matches(host.kind, doc.entry)
  <2>1. host.kind \in Hosts
    BY DEF HostOk, HostTypeOK
  <2>2. CASE host.kind = "generic"
    BY <2>2 DEF Configure, GenericDecision, CliHosts
  <2>3. CASE host.kind = "cursor"
    <3>1. found = doc.entry /\ next = CursorDecision(job, doc.entry)
      BY <2>3 DEF Configure, CliHosts
    <3> HIDE DEF found, next
    <3> QED
      BY <2>3, <3>1 DEF CursorDecision, Decision, CliHosts
  <2>4. CASE host.kind \in CliHosts
    <3>1. next = CliDecision(job, host.kind, found) /\ (job.dry => found = "absent")
          /\ (~job.dry => found = doc.entry)
      BY <2>4 DEF Configure, CliHosts
    <3> HIDE DEF found, next
    <3>2. host.kind \notin {"generic", "cursor"} /\ ~Matches(host.kind, "absent")
      BY <2>4 DEF CliHosts, Matches
    <3> QED
      BY <2>4, <3>1, <3>2 DEF CliDecision, Decision
  <2> QED
    BY <2>1, <2>2, <2>3, <2>4 DEF Hosts
<1> HIDE DEF next
<1>5. host' = host /\ JobOk'
  BY <1>1, <1>2, <1>3, <1>4 DEF JobOk, Registers, Rewrites
<1>6. RegistrationTruthful'
  BY <1>1, <1>2, <1>3, <1>4 DEF RegistrationTruthful
<1> QED
  BY <1>1, <1>5, <1>6 DEF HostOk, HostTypeOK, OthersKept

LEMMA NoFileIsNone == NoFile \notin Doc /\ NoFile.entry = "no file" /\ "no file" \notin Entries
<1>1. NoFile.entry = "no file" /\ "no file" \notin Entries
  BY DEF NoFile, Entries
<1>2. \A d \in Doc : d.entry \in Entries
  BY DEF Doc
<1> QED
  BY <1>1, <1>2

\* The host's own command leaves its other servers.
LEMMA EntryRegistered ==
    ASSUME HostOk, host.kind \in CliHosts, NEW entry \in Entries, host' = Registered(entry)
    PROVE  /\ DOMAIN host' = DOMAIN host /\ HostTypeOK' /\ OthersKept' /\ host'.kind = host.kind
           /\ EntryOf(host'.file) = entry /\ host'.file.entry = entry /\ host'.file # NoFile
<1>1. host.file \in Doc /\ host.file # NoFile
  BY DEF HostOk, HostTypeOK, CliHosts
<1>2. /\ DOMAIN host' = {"kind", "file", "backups", "temp", "had"}
      /\ host'.file = [host.file EXCEPT !.entry = entry]
      /\ \A f \in {"kind", "backups", "temp", "had"} : host'[f] = host[f]
  BY DEF Registered, HostOk
<1>3. /\ host'.file \in Doc /\ host'.file.entry = entry
      /\ host'.file.others <=> host.file.others
  BY <1>1, <1>2 DEF Doc
<1>4. host'.file # NoFile
  BY <1>3, NoFileIsNone
<1>5. OthersKept'
  BY <1>2, <1>3 DEF HostOk, OthersKept
<1> QED
  BY <1>2, <1>3, <1>4, <1>5 DEF HostOk, HostTypeOK, EntryOf

\* The hosts that keep their registrations themselves.
LEMMA RegisterKeeps ==
    ASSUME HostOk, DropEntry \/ AddEntry \/ Verify \/ RollBack
    PROVE  HostOk' /\ UNCHANGED access
<1>1. JobOk /\ HostTypeOK /\ RegistrationTruthful /\ {"absent", "ours", "other"} \subseteq Entries
  BY DEF HostOk, Entries
<1>2. ASSUME NEW entry \in Entries, host' = Registered(entry), NEW step, SameJob(step),
             \/ job.step = "drop" /\ step = "ok" /\ entry = "absent"
             \/ job.step = "replace" /\ step = "add"
             \/ job.step = "add" /\ step = "verify"
             \/ job.step = "rollback" /\ step = "failed"
      PROVE  HostOk'
  <2>1. host.kind \in CliHosts
    BY <1>1, <1>2 DEF JobOk, Registers
  <2>2. /\ DOMAIN host' = DOMAIN host /\ HostTypeOK' /\ OthersKept' /\ host'.kind = host.kind
        /\ EntryOf(host'.file) = entry
    BY <1>2, <2>1, EntryRegistered
  <2>3. /\ job.step = "drop" => job.remove
        /\ job.step # "drop" => ~job.remove /\ (job.force \/ job.before = "absent")
    BY <1>1, <1>2 DEF JobOk, Registers
  <2>4. JobOk'
    BY <1>1, <1>2, <2>1, <2>2, <2>3 DEF JobOk, SameJob, Registers, Rewrites
  <2>5. RegistrationTruthful'
    BY <1>2, <2>2, <2>3 DEF RegistrationTruthful, SameJob
  <2> QED
    BY <2>2, <2>4, <2>5 DEF HostOk
<1>3. CASE DropEntry
  <2>1. /\ host' = Registered("absent") /\ UNCHANGED access
        /\ \/ job.step = "drop" /\ To("ok")
           \/ job.step = "replace" /\ To("add")
    BY <1>3 DEF DropEntry, Touches, In
  <2> QED
    BY <1>1, <1>2, <2>1, JobTo
<1>4. CASE AddEntry
  <2>1. PICK entry \in {"ours", "other"} : host' = Registered(entry) /\ UNCHANGED access
                                           /\ job.step = "add" /\ To("verify")
    BY <1>4 DEF AddEntry, Touches, In
  <2> QED
    BY <1>1, <1>2, <2>1, JobTo
<1>5. CASE Verify
  <2> DEFINE next == IF Matches(host.kind, host.file.entry) THEN "ok" ELSE "rollback"
  <2>1. job.step = "verify" /\ To(next) /\ UNCHANGED <<access, host>>
    BY <1>5 DEF Verify, Only, In
  <2>2. SameJob(next)
    BY <1>1, <2>1, JobTo
  <2>3. /\ host.kind \in CliHosts /\ ~job.remove /\ (job.force \/ job.before = "absent")
        /\ EntryOf(host.file) = host.file.entry
    BY <1>1, <2>1 DEF JobOk, Registers, HostTypeOK, CliHosts, EntryOf
  <2>4. JobOk'
    BY <1>1, <2>1, <2>2, <2>3 DEF JobOk, SameJob, Registers, Rewrites
  <2>5. RegistrationTruthful'
    BY <2>1, <2>2, <2>3 DEF RegistrationTruthful, SameJob
  <2> QED
    BY <2>1, <2>4, <2>5 DEF HostOk, HostTypeOK, OthersKept
<1>6. CASE RollBack
  <2>1. /\ host' = host \/ host' = Registered("absent")
        /\ UNCHANGED access /\ job.step = "rollback" /\ To("failed")
    BY <1>6 DEF RollBack, Touches, In
  <2>2. CASE host' = host
    BY <2>1, <2>2, JobStops
  <2>3. CASE host' = Registered("absent")
    BY <1>1, <1>2, <2>1, <2>3, JobTo
  <2> QED
    BY <2>1, <2>2, <2>3
<1> QED
  BY <1>3, <1>4, <1>5, <1>6

\* Cursor's file: it is in a backup when it is removed, and the new one gets
\* its name.
LEMMA RewriteKeeps ==
    ASSUME HostOk, BackUp \/ WriteTemp \/ Unlink \/ Rename
    PROVE  HostOk' /\ UNCHANGED access
<1>1. /\ JobOk /\ HostTypeOK /\ RegistrationTruthful /\ OthersKept
      /\ DOMAIN host = {"kind", "file", "backups", "temp", "had"}
  BY DEF HostOk
<1>2. /\ UNCHANGED access /\ job.step \in Rewrites
  BY DEF BackUp, WriteTemp, Unlink, Rename, Touches, In, Rewrites
<1>3. host.kind = "cursor" /\ (job.remove \/ job.force \/ job.before = "absent")
  BY <1>1, <1>2 DEF JobOk
<1>4. ASSUME NEW step \in Rewrites \ {"backup"}, SameJob(step), JobOk'
      PROVE  RegistrationTruthful'
  BY <1>3, <1>4 DEF RegistrationTruthful, SameJob, Rewrites
<1>5. CASE BackUp
  <2>1. /\ host' = [host EXCEPT !.backups = IF host.file = NoFile THEN @ ELSE @ \cup {host.file}]
        /\ job.step = "backup" /\ SameJob("write")
    BY <1>1, <1>5, JobTo DEF BackUp, Touches, In
  <2>2. /\ DOMAIN host' = DOMAIN host /\ \A f \in {"kind", "file", "temp", "had"} : host'[f] = host[f]
        /\ host'.backups = IF host.file = NoFile THEN host.backups
                                                 ELSE host.backups \cup {host.file}
    BY <1>1, <2>1
  <2>3. HostTypeOK' /\ OthersKept'
    BY <1>1, <2>2 DEF HostTypeOK, OthersKept
  <2>4. JobOk'
    BY <1>1, <1>3, <2>1, <2>2 DEF JobOk, SameJob, Registers, Rewrites
  <2> QED
    BY <1>1, <1>2, <1>4, <2>1, <2>2, <2>3, <2>4 DEF HostOk, Rewrites
<1>6. CASE WriteTemp
  <2>1. host' = [host EXCEPT !.temp = NewDoc] /\ job.step = "write" /\ SameJob("unlink")
    BY <1>1, <1>6, JobTo DEF WriteTemp, Touches, In
  <2>2. /\ DOMAIN host' = DOMAIN host /\ host'.temp = NewDoc
        /\ \A f \in {"kind", "file", "backups", "had"} : host'[f] = host[f]
    BY <1>1, <2>1
  <2>3. NewDoc \in Doc /\ NewDoc.entry = IF job.remove THEN "absent" ELSE "ours"
    BY <1>1, <2>1 DEF NewDoc, JobOk, Doc, Entries
  <2>4. HostTypeOK' /\ OthersKept'
    BY <1>1, <2>2, <2>3 DEF HostTypeOK, OthersKept
  <2>5. JobOk'
    BY <1>1, <1>3, <2>1, <2>2, <2>3 DEF JobOk, SameJob, Registers, Rewrites
  <2> QED
    BY <1>1, <1>2, <1>4, <2>1, <2>2, <2>4, <2>5 DEF HostOk, Rewrites
<1>7. CASE Unlink
  <2>1. host' = [host EXCEPT !.file = NoFile] /\ job.step = "unlink" /\ SameJob("rename")
    BY <1>1, <1>7, JobTo DEF Unlink, Touches, In
  <2>2. /\ DOMAIN host' = DOMAIN host /\ host'.file = NoFile
        /\ \A f \in {"kind", "temp", "backups", "had"} : host'[f] = host[f]
    BY <1>1, <2>1
  <2>3. host.file = NoFile \/ host.file \in host.backups
    BY <1>1, <2>1 DEF JobOk
  <2>4. HostTypeOK' /\ OthersKept'
    BY <1>1, <1>3, <2>2, <2>3 DEF HostTypeOK, OthersKept
  <2>5. JobOk'
    BY <1>1, <1>3, <2>1, <2>2 DEF JobOk, SameJob, Registers, Rewrites
  <2> QED
    BY <1>1, <1>2, <1>4, <2>1, <2>2, <2>4, <2>5 DEF HostOk, Rewrites
<1>8. CASE Rename
  <2>1. host' = [host EXCEPT !.file = host.temp, !.temp = NoFile] /\ job.step = "rename"
        /\ SameJob("ok")
    BY <1>1, <1>8, JobTo DEF Rename, Touches, In
  <2>2. /\ DOMAIN host' = DOMAIN host /\ host'.file = host.temp /\ host'.temp = NoFile
        /\ \A f \in {"kind", "backups", "had"} : host'[f] = host[f]
    BY <1>1, <2>1
  <2>3. /\ host.temp \in Doc /\ host.temp.entry = (IF job.remove THEN "absent" ELSE "ours")
        /\ host.file = NoFile
    BY <1>1, <2>1 DEF JobOk
  <2>4. EntryOf(host'.file) = host.temp.entry
    BY <2>2, <2>3, NoFileIsNone DEF EntryOf
  <2>5. HostTypeOK' /\ OthersKept'
    <3>1. ~NoFile.others
      BY DEF NoFile
    <3> QED
      BY <1>1, <1>3, <2>2, <2>3, <3>1 DEF HostTypeOK, OthersKept
  <2>6. JobOk'
    BY <1>1, <1>3, <2>1, <2>2 DEF JobOk, SameJob, Registers, Rewrites
  <2>7. RegistrationTruthful'
    BY <1>3, <2>1, <2>2, <2>3, <2>4 DEF RegistrationTruthful, SameJob, Matches
  <2> QED
    BY <1>1, <1>2, <2>2, <2>5, <2>6, <2>7 DEF HostOk
<1> QED
  BY <1>2, <1>5, <1>6, <1>7, <1>8

-----------------------------------------------------------------------------
(* All of them together.                                                    *)

\* The inductive invariant.
IInv == scene \in Scenes /\ AccessOk /\ UiOk /\ SessionOk /\ HostOk

LEMMA AccessStays ==
    ASSUME AccessOk, UNCHANGED access, NEW p \in Proc
    PROVE  Moves(p)
<1>1. UNCHANGED <<store, lock, calls, written, acked>>
  BY DEF access
<1>2. \A q \in Proc : CallOk(q)'
  <2>1. ASSUME NEW q \in Proc
        PROVE  CallOk(q)'
    <3>1. CallOk(q) /\ Shown' = Shown
      BY <1>1 DEF AccessOk, Shown
    <3> QED
      BY <1>1, <3>1 DEF CallOk, ReportOk
  <2> QED
    BY <2>1
<1>3. StoreOk' /\ StoreKeeps
  BY <1>1 DEF AccessOk, StoreOk, StoreKeeps
<1> QED
  BY <1>1, <1>2, <1>3 DEF Moves, AccessOk

\* What a program does with its own call, and the others see.
LEMMA OthersStay ==
    ASSUME IInv, NEW p \in Proc, Moves(p), UnchangedBut(p)
    PROVE  /\ AccessOk' /\ StoreKeeps
           /\ p # Tui => UiOk'
           /\ p # Mcp => SessionOk'
           /\ p # Host => HostOk'
<1>1. AccessOk' /\ StoreKeeps /\ acked \subseteq acked'
      /\ \A q \in Proc \ {p} : calls'[q] = calls[q]
  BY DEF Moves
<1>2. p # Tui => UiOk'
  BY <1>1, TuiAssumption, OthersSeen DEF IInv, UnchangedBut
<1>3. p # Mcp => SessionOk'
  BY <1>1, McpAssumption, SessionStays DEF IInv, UnchangedBut
<1>4. p # Host => HostOk'
  BY HostStays DEF IInv, UnchangedBut
<1> QED
  BY <1>1, <1>2, <1>3, <1>4

LEMMA InitHolds == Init => IInv
<1> SUFFICES ASSUME Init
             PROVE  IInv
  OBVIOUS
<1>1. scene.room \in 0 .. MaxWrites /\ MaxWrites \in Nat /\ scene \in Scenes
  BY AccessAssumption, FrontendsAssumption DEF Init
<1>2. /\ store = NoStore(scene.room) /\ lock = Free /\ calls = [p \in Proc |-> Idle]
      /\ written = 0 /\ acked = {}
  BY DEF Init, AccessInit
<1>3. StoreOk
  <2>1. {<<i, i>> : i \in 1 .. 0} = {}
    OBVIOUS
  <2> QED
    BY <1>1, <1>2, <2>1 DEF StoreOk, NoStore, Kinds
<1>4. \A p \in Proc : CallOk(p)
  BY <1>2 DEF CallOk, Idle, Names, Locked, Creates, NoReport, ReportOk
<1>5. AccessOk
  BY <1>2, <1>3, <1>4 DEF AccessOk
<1>6. UiOk
  <2>1. calls[Tui].step = "idle" /\ calls[Tui].name = "none"
    BY <1>2, TuiAssumption DEF Idle
  <2>2. /\ DOMAIN ui = {"screen", "stack", "seal_confirm", "compact_confirm", "dash", "stale",
                        "index_kind", "handler"}
        /\ ui.screen = "off" /\ ui.stack = <<>> /\ ~ui.seal_confirm /\ ~ui.compact_confirm
        /\ ui.dash = NoMem /\ ui.index_kind = "exact" /\ ui.handler = "none"
    BY DEF Init, NewUi
  <2>3. ScreensOk(ui)
    BY <2>2 DEF ScreensOk, StackOk, Rank, Screens, Kinds
  <2>4. HandlerOk /\ DashOk
    BY <2>1, <2>2 DEF HandlerOk, DashOk, IsIdle, At
  <2> QED
    BY <2>3, <2>4 DEF UiOk
<1>7. SessionOk
  <2>1. calls[Mcp].step = "idle"
    BY <1>2, McpAssumption DEF Idle
  <2>2. /\ DOMAIN session = {"lines", "handled", "answers", "memory"}
        /\ session.lines = <<>> /\ session.handled = 0 /\ session.answers = <<>>
        /\ session.memory = 0
    BY DEF Init, NewSession
  <2>3. InOrder(<<>>, 0, <<>>)
    <3>1. Asked(<<>>, 0) = {}
      BY DEF Asked
    <3> QED
      BY <3>1, FS_EmptySet DEF InOrder
  <2> QED
    BY <1>1, <2>1, <2>2, <2>3, McpAssumption DEF SessionOk, IsIdle, Returned, At
<1>8. HostOk
  <2>1. /\ DOMAIN job = {"remove", "force", "dry", "step", "doc", "before"} /\ job.step = "off"
    BY DEF Init, NewJob
  <2>2. PICK s \in Settings : host = NewHost(s[1], s[2])
    BY DEF Init
  <2>3. s[1] \in Hosts /\ s[2] \in Doc \cup {NoFile} /\ (s[1] # "cursor" => s[2] # NoFile)
    BY FrontendsAssumption
  <2>4. /\ DOMAIN host = {"kind", "file", "backups", "temp", "had"}
        /\ host.kind = s[1] /\ host.file = s[2] /\ host.backups = {} /\ host.temp = NoFile
        /\ host.had = s[2].others
    BY <2>2 DEF NewHost
  <2>5. HostTypeOK /\ OthersKept
    BY <2>3, <2>4 DEF HostTypeOK, OthersKept
  <2>6. JobOk /\ RegistrationTruthful
    BY <2>1 DEF JobOk, RegistrationTruthful, Registers, Rewrites
  <2> QED
    BY <2>4, <2>5, <2>6 DEF HostOk
<1> QED
  BY <1>1, <1>5, <1>6, <1>7, <1>8 DEF IInv

LEMMA CommandsAreFresh ==
    ASSUME NEW call \in Commands
    PROVE  FreshCall(call)
<1>1. \A name \in Names \ {"none"}, enc \in BOOLEAN, pass \in Given : FreshCall(Call(name, enc, pass))
  BY DEF FreshCall, Given
<1>2. {"setup", "init", "remember", "import", "use"} \cup Kinds \subseteq Names \ {"none"}
  BY DEF Names, Kinds
<1>3. call \in InitCalls \/ call \in SetupCalls \/ call \in RememberCalls \/ call \in ImportCalls
      \/ call \in ConfigCalls \/ call \in RecallCalls \/ call \in UpkeepCalls
  BY DEF Commands
<1>4. /\ call \in InitCalls \cup SetupCalls =>
             \E name \in {"setup", "init"}, enc \in BOOLEAN, pass \in Given : call = Call(name, enc, pass)
      /\ call \in RememberCalls \cup ImportCalls \cup ConfigCalls =>
             \E name \in {"remember", "import"} \cup Kinds, pass \in Given :
                 call = Call(name, FALSE, pass)
      /\ call \in RecallCalls \cup UpkeepCalls =>
             \E pass \in Given : call = Call("use", FALSE, pass)
  <2>1. call \in InitCalls => \E enc \in BOOLEAN, pass \in Given : call = Call("init", enc, pass)
    BY DEF InitCalls
  <2>2. call \in SetupCalls => \E enc \in BOOLEAN, pass \in Given : call = Call("setup", enc, pass)
    BY DEF SetupCalls
  <2>3. call \in RememberCalls => \E pass \in Given : call = Call("remember", FALSE, pass)
    BY DEF RememberCalls
  <2>4. call \in ImportCalls => \E pass \in Given : call = Call("import", FALSE, pass)
    BY DEF ImportCalls
  <2>5. call \in ConfigCalls => \E kind \in Kinds, pass \in Given : call = Call(kind, FALSE, pass)
    BY DEF ConfigCalls
  <2>6. call \in RecallCalls \cup UpkeepCalls => \E pass \in Given : call = Call("use", FALSE, pass)
    BY DEF RecallCalls, UpkeepCalls
  <2> QED
    BY <2>1, <2>2, <2>3, <2>4, <2>5, <2>6
<1> QED
  BY <1>1, <1>2, <1>3, <1>4

LEMMA CliKeeps ==
    ASSUME AccessOk, scene \in Scenes, NEW p \in Proc, CliNext(p)
    PROVE  Moves(p)
<1>1. CASE Command(p)
  <2>1. PICK call \in scene.commands : Begin(p, call)
    BY <1>1 DEF Command
  <2>2. FreshCall(call)
    BY FrontendsAssumption, CommandsAreFresh
  <2> QED
    BY <2>1, <2>2, BeginKeeps DEF Begin
<1>2. CASE Step(p)
  BY <1>2, StepKeeps
<1>3. CASE StepFails(p)
  BY <1>3, FailKeeps DEF StepFails
<1>4. CASE CliReturns(p)
  BY <1>4, DoneKeeps DEF CliReturns
<1> QED
  BY <1>1, <1>2, <1>3, <1>4 DEF CliNext

LEMMA TuiKeeps ==
    ASSUME AccessOk, UiOk, TuiNext
    PROVE  UiOk' /\ Moves(Tui)
<1>1. CASE Key
  BY <1>1, TuiAssumption, KeyKeeps, AccessStays
<1> QED
  BY <1>1, TuiStepKeeps, ReturnKeeps, TuiFailKeeps DEF TuiNext

LEMMA McpKeeps ==
    ASSUME AccessOk, SessionOk, McpNext
    PROVE  SessionOk' /\ Moves(Mcp)
<1>1. CASE Send
  <2>1. UNCHANGED access
    BY <1>1 DEF Send
  <2> QED
    BY <1>1, <2>1, McpAssumption, SendKeeps, AccessStays
<1>2. CASE ServeNext
  BY <1>2, McpAssumption, ServeKeeps, AccessStays
<1> QED
  BY <1>1, <1>2, McpStepKeeps, McpFailKeeps DEF McpNext

LEMMA HostKeeps ==
    ASSUME AccessOk, HostOk, HostNext
    PROVE  HostOk' /\ Moves(Host)
<1>1. Host \in Proc
  BY HostAssumption
<1>2. CASE StartJob
  BY <1>1, <1>2, StartKeeps, AccessStays
<1>3. CASE JobNext
  BY <1>1, <1>3, SetupReturnKeeps, InspectKeeps, RegisterKeeps, RewriteKeeps, AccessStays
     DEF JobNext
<1>4. CASE JobFails
  <2>1. job.step # "off" /\ UNCHANGED host /\ UNCHANGED access /\ To("failed")
    BY <1>4 DEF JobFails, Only
  <2> QED
    BY <1>1, <2>1, JobStops, AccessStays
<1>5. CASE JobEnds
  BY <1>1, <1>5, NoJobOk, AccessStays DEF JobEnds
<1>6. CASE HostStep
  BY <1>1, <1>6, StepKeeps, HostStays DEF HostStep
<1>7. CASE StepFails(Host) /\ UNCHANGED setup
  BY <1>1, <1>7, FailKeeps, HostStays DEF StepFails
<1> QED
  BY <1>2, <1>3, <1>4, <1>5, <1>6, <1>7 DEF HostNext

LEMMA DiesKeeps ==
    ASSUME IInv, NEW p \in Proc, Dies(p)
    PROVE  /\ Moves(p)
           /\ p = Tui => UiOk'
           /\ p = Mcp => SessionOk'
           /\ p = Host => HostOk'
<1>1. AccessOk /\ UiOk /\ SessionOk /\ HostOk /\ Tui \notin {Mcp, Host} /\ Mcp # Host
  BY FrontendsAssumption DEF IInv
<1>2. CASE p = Tui
  BY <1>1, <1>2, TuiDiesKeeps DEF Dies
<1>3. CASE p = Mcp
  BY <1>1, <1>3, McpDiesKeeps DEF Dies
<1>4. CASE p = Host
  <2>1. HostDies
    BY <1>1, <1>4 DEF Dies
  <2> QED
    BY <1>1, <1>4, <2>1, DieKeeps, NoJobOk DEF HostDies
<1>5. CASE p \notin {Tui, Mcp, Host}
  BY <1>1, <1>5, DieKeeps DEF Dies
<1> QED
  BY <1>2, <1>3, <1>4, <1>5

\* A store keeps its mode and key in every step, and the programs what they
\* say.
LEMMA NextKeeps ==
    ASSUME IInv, [Next]_vars
    PROVE  IInv' /\ StoreKeeps
<1>1. running \subseteq Proc /\ Cli \in Proc /\ Cli \notin {Tui, Mcp, Host}
      /\ Tui \notin {Mcp, Host} /\ Mcp # Host
  BY FrontendsAssumption DEF running, IInv
<1>2. ASSUME NEW p \in Proc, Moves(p), UnchangedBut(p), UNCHANGED scene,
             p = Tui => UiOk', p = Mcp => SessionOk', p = Host => HostOk'
      PROVE  IInv' /\ StoreKeeps
  BY <1>2, OthersStay DEF IInv
<1>3. CASE UNCHANGED vars
  <2>1. UNCHANGED access /\ UNCHANGED ui /\ UNCHANGED session /\ UNCHANGED setup
        /\ UNCHANGED scene
    BY <1>3 DEF vars
  <2>2. UnchangedBut(Cli)
    BY <2>1 DEF UnchangedBut, SeesChange, access
  <2>3. Moves(Cli)
    BY <1>1, <2>1, AccessStays DEF IInv
  <2> QED
    BY <1>1, <1>2, <2>1, <2>2, <2>3
<1>4. ASSUME NEW p \in running \ {Tui, Mcp, Host}, CliNext(p), UNCHANGED scene
      PROVE  IInv' /\ StoreKeeps
  BY <1>1, <1>2, <1>4, CliKeeps DEF IInv, CliNext
<1>5. CASE TuiNext /\ UNCHANGED scene
  BY <1>1, <1>2, <1>5, TuiAssumption, TuiKeeps DEF IInv, TuiNext
<1>6. CASE McpNext /\ UNCHANGED scene
  BY <1>1, <1>2, <1>6, McpAssumption, McpKeeps DEF IInv, McpNext
<1>7. CASE HostNext /\ UNCHANGED scene
  BY <1>1, <1>2, <1>7, HostAssumption, HostKeeps DEF IInv, HostNext
<1>8. ASSUME NEW p \in running, Dies(p)
      PROVE  IInv' /\ StoreKeeps
  BY <1>1, <1>2, <1>8, DiesKeeps DEF Dies
<1> QED
  BY <1>3, <1>4, <1>5, <1>6, <1>7, <1>8 DEF Next

-----------------------------------------------------------------------------
(* What holds in every run.                                                 *)

\* The invariant that all of it rests on: the lock is with the call that uses
\* the store, and what each program has in hand is what there is.
THEOREM Invariance == Spec => []IInv
<1>1. Init => IInv
  BY InitHolds
<1>2. IInv /\ [Next]_vars => IInv'
  BY NextKeeps
<1> QED
  BY <1>1, <1>2, PTL DEF Spec

\* The variables of all programs have their types in every run.
THEOREM TypeCorrect == Spec => []TypeOK
<1>1. IInv => TypeOK
  <2> SUFFICES ASSUME IInv
               PROVE  TypeOK
    OBVIOUS
  <2>1. StoreOk /\ MaxWrites \in Nat
    BY AccessAssumption DEF IInv, AccessOk
  <2>2. written \in 0 .. MaxWrites /\ store.next \in 1 .. MaxWrites + 1
        /\ 1 .. written \subseteq 1 .. MaxWrites
    BY <2>1 DEF StoreOk
  <2>3. AccessTypeOK
    BY <2>1, <2>2 DEF AccessTypeOK, StoreOk
  <2>4. UiTypeOK
    BY DEF IInv, UiOk, ScreensOk, StackOk, Rank, UiTypeOK
  <2>5. SessionTypeOK /\ HostTypeOK
    BY DEF IInv, SessionOk, SessionTypeOK, HostOk
  <2> QED
    BY <2>3, <2>4, <2>5 DEF TypeOK
<1> QED
  BY <1>1, Invariance, PTL

\* Ids are given to memories one to one.
LEMMA EntriesCounted ==
    ASSUME NEW w \in Nat, NEW entries, entries = {<<i, i>> : i \in 1 .. w}
    PROVE  /\ Cardinality({e[1] : e \in entries}) = Cardinality(entries)
           /\ \A m \in 1 .. w : Cardinality({e \in entries : e[2] = m}) = 1
<1>1. {e[1] : e \in entries} = 1 .. w
  <2>1. \A e \in entries : e[1] \in 1 .. w
    OBVIOUS
  <2>2. \A i \in 1 .. w : <<i, i>> \in entries /\ <<i, i>>[1] = i
    OBVIOUS
  <2> QED
    BY <2>1, <2>2
<1>2. Cardinality(entries) = Cardinality(1 .. w)
  <2> DEFINE f == [i \in 1 .. w |-> <<i, i>>]
  <2>1. /\ f \in [1 .. w -> entries]
        /\ \A a, b \in 1 .. w : f[a] = f[b] => a = b
        /\ \A e \in entries : \E i \in 1 .. w : f[i] = e
    <3>1. \A i \in 1 .. w : f[i] = <<i, i>> /\ f[i] \in entries /\ f[i][1] = i
      OBVIOUS
    <3>2. f \in [1 .. w -> entries]
      BY <3>1
    <3>3. \A e \in entries : \E i \in 1 .. w : e = <<i, i>>
      OBVIOUS
    <3> HIDE DEF f
    <3> QED
      BY <3>1, <3>2, <3>3
  <2> HIDE DEF f
  <2>2. f \in Bijection(1 .. w, entries)
    BY <2>1, Fun_IsBij
  <2>3. ExistsBijection(1 .. w, entries)
    BY <2>2 DEF ExistsBijection
  <2> QED
    BY <2>3, FS_Interval, FS_Bijection
<1>3. ASSUME NEW m \in 1 .. w
      PROVE  Cardinality({e \in entries : e[2] = m}) = 1
  <2>1. {e \in entries : e[2] = m} = {<<m, m>>}
    OBVIOUS
  <2> QED
    BY <2>1, FS_Singleton
<1> QED
  BY <1>1, <1>2, <1>3

\* Whoever was told that a memory is remembered finds it in the store, once,
\* under an id of its own, and the MCP server answers in order, in every run.
THEOREM AckedAlwaysPresent == Spec => []AckedPresent
<1>1. IInv => AckedPresent
  <2> SUFFICES ASSUME IInv
               PROVE  AckedPresent
    OBVIOUS
  <2>1. written \in Nat /\ acked \subseteq 1 .. written
        /\ store.entries = {<<i, i>> : i \in 1 .. written}
    BY AccessAssumption DEF IInv, AccessOk, StoreOk
  <2>2. /\ Cardinality({e[1] : e \in store.entries}) = Cardinality(store.entries)
        /\ \A m \in acked : Cardinality({e \in store.entries : e[2] = m}) = 1
    <3> DEFINE entries == store.entries
    <3>1. /\ Cardinality({e[1] : e \in entries}) = Cardinality(entries)
          /\ \A m \in 1 .. written : Cardinality({e \in entries : e[2] = m}) = 1
      <4> HIDE DEF entries
      <4> QED
        BY <2>1, EntriesCounted DEF entries
    <3> QED
      BY <2>1, <3>1
  <2>3. AnswersInOrder
    <3>1. \A n : Asked(session.lines, n) = Answerable(n)
      BY DEF Asked, Answerable
    <3>2. InOrder(session.lines, session.handled, session.answers)
      BY DEF IInv, SessionOk
    <3> QED
      BY <3>1, <3>2 DEF AnswersInOrder, InOrder, IsAnswered
  <2> QED
    BY <2>2, <2>3 DEF AckedPresent, IInv, SessionOk
<1> QED
  BY <1>1, Invariance, PTL

\* A dashboard that is not stale shows the store as it is, and only the screen
\* that asked takes a confirmation, in every run.
THEOREM ScreenIsHonest == Spec => []ScreenHonest
<1>1. IInv => ScreenHonest
  <2> SUFFICES ASSUME IInv
               PROVE  ScreenHonest
    OBVIOUS
  <2>1. ScreensOk(ui) /\ HandlerOk /\ DashOk
    BY DEF IInv, UiOk
  <2>2. ui.handler = "none" => calls[Tui].name = "none"
    BY TuiAssumption, IdleCall DEF IInv, UiOk, HandlerOk
  <2>3. ui.handler = "none" /\ ui.dash # NoMem /\ ~ui.stale => ui.dash = Shown
    BY <2>1, <2>2 DEF DashOk, Refreshes
  <2> QED
    BY <2>1, <2>3 DEF ScreenHonest, ScreensOk, Shown
<1> QED
  BY <1>1, Invariance, PTL

\* What setup and init report is so and stays so, a store keeps its mode and
\* key, and what the setup of a host reports is so, in every run.
THEOREM ReportsAreTruthful == Spec => SetupTruthful
<1>1. IInv => \A p \in Proc : LET report == calls[p].report IN
                 report.ok => /\ store.made
                              /\ (report.already \/ report.made) => report.enc = store.enc
                              /\ report.made => store.whole
  BY DEF IInv, AccessOk, CallOk, ReportOk
<1>2. IInv => RegistrationTruthful /\ OthersKept
  BY DEF IInv, HostOk
<1>3. IInv /\ [Next]_vars =>
          [store.made => store'.made /\ store'.enc = store.enc /\ store'.key = store.key]_store
  BY NextKeeps DEF StoreKeeps
<1> QED
  BY <1>1, <1>2, <1>3, Invariance, PTL DEF Spec, SetupTruthful
==============================================================================
