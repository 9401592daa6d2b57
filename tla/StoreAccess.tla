----------------------------- MODULE StoreAccess -----------------------------
(***************************************************************************)
(* How the programs over one store get at it: StoreFileLock, init, open    *)
(* (crates/mge-core/src/store.rs), setup_fast and the one engine per call  *)
(* of AppService (crates/mge-cli/src/app_service.rs), main.rs and          *)
(* mge-mcp-server.rs.                                                      *)
(*                                                                         *)
(* What an engine does to memory while it has the lock is in the other     *)
(* modules; here it is one step, on what the engine read when it opened.   *)
(***************************************************************************)
EXTENDS Integers, FiniteSets, Sequences

CONSTANTS
    Proc,       \* processes
    Pass,       \* passphrases
    MaxWrites   \* bound: memories a disk has room for

Free   == "free"    \* no process has the lock
NoPass == "no pass"
Kinds  == {"exact", "fuse"}

ASSUME AccessAssumption == MaxWrites \in Nat /\ Free \notin Proc

VARIABLES
    store,   \* the store directory
    lock,    \* the process that has the store lock
    calls,   \* what each process is doing
    written, \* memories given to remember so far
    acked    \* those reported as remembered

access == <<store, lock, calls, written, acked>>

NoStore(room) == [room |-> room, made |-> FALSE, enc |-> FALSE, key |-> NoPass, whole |-> FALSE,
            next |-> 1, kind |-> "exact", entries |-> {}]

NoMem == [next |-> 0, kind |-> "none"]

\* What setup or init reports of the store, and whether it made it.
NoReport == [already |-> FALSE, enc |-> FALSE, made |-> FALSE, ok |-> FALSE]

Idle == [name |-> "none", enc |-> FALSE, pass |-> NoPass, step |-> "idle",
         mem |-> NoMem, looked |-> FALSE, made |-> FALSE, report |-> NoReport]

\* A call: what is asked for, an encrypted store or not, and the passphrase
\* that the environment variable holds.
Call(name, enc, pass) == [Idle EXCEPT !.name = name, !.enc = enc, !.pass = pass]

Creates(name) == name \in {"setup", "init"}

AccessInit(room) ==
    /\ store = NoStore(room) /\ lock = Free
    /\ calls = [p \in Proc |-> Idle]
    /\ written = 0 /\ acked = {}

At(p, step) == calls[p].step = step

IsIdle(p) == At(p, "idle")

Begin(p, call) ==
    /\ IsIdle(p)
    /\ calls' = [calls EXCEPT ![p] = [call EXCEPT !.step = IF Creates(call.name) THEN "look" ELSE "check"]]
    /\ UNCHANGED <<store, lock, written, acked>>

GoTo(p, step) == calls' = [calls EXCEPT ![p].step = step]

\* An error returns with `?` out of the call, and the engine is dropped.
Released(p) == IF lock = p THEN Free ELSE lock

Failed(p) == [Idle EXCEPT !.name = calls[p].name, !.step = "failed"]

Fail(p) ==
    /\ calls' = [calls EXCEPT ![p] = Failed(p)]
    /\ lock' = Released(p)
    /\ UNCHANGED <<store, written, acked>>

-----------------------------------------------------------------------------
(* Steps of a call.                                                        *)

\* The call returns, and the engine is dropped; what it read is kept for the
\* dashboard that asked for stats.
Over(p, mem, report) ==
    [Idle EXCEPT !.name = calls[p].name, !.step = "ok", !.mem = mem, !.report = report]

Returns(p, mem, report) ==
    /\ calls' = [calls EXCEPT ![p] = Over(p, mem, report)]
    /\ lock' = Released(p)

Reports(p, already, enc) ==
    Returns(p, NoMem, [already |-> already, enc |-> enc, made |-> calls[p].made, ok |-> TRUE])

\* setup_fast before it calls init; it reads the manifest without the lock.
LookForSetup(p) ==
    /\ calls[p].name = "setup"
    /\ CASE store.made /\ calls[p].enc /\ ~store.enc -> Fail(p)
         [] store.made /\ ~(calls[p].enc /\ ~store.enc) ->
               Reports(p, TRUE, store.enc) /\ UNCHANGED <<store, written, acked>>
         [] ~store.made /\ calls[p].enc /\ calls[p].pass = NoPass -> Fail(p)
         [] OTHER -> /\ calls' = [calls EXCEPT ![p].step = "lock",
                                               ![p].pass = IF calls[p].enc THEN @ ELSE NoPass]
                     /\ UNCHANGED <<store, lock, written, acked>>

\* The command init asks whether the manifest is there, and goes on.
LookForInit(p) ==
    /\ calls[p].name = "init"
    /\ calls' = [calls EXCEPT ![p].looked = store.made, ![p].step = "lock"]
    /\ UNCHANGED <<store, lock, written, acked>>

Look(p) == At(p, "look") /\ (LookForSetup(p) \/ LookForInit(p))

\* open: NotInitialized is found out before the lock is taken.
Check(p) ==
    /\ At(p, "check")
    /\ IF store.made
       THEN GoTo(p, "lock") /\ UNCHANGED <<store, lock, written, acked>>
       ELSE Fail(p)

\* A mutant of TakeLock: it waits for the lock.
TakeLock_Waits(p) ==
    /\ At(p, "lock") /\ lock = Free
    /\ lock' = p
    /\ GoTo(p, IF Creates(calls[p].name) THEN "create" ELSE "load")
    /\ UNCHANGED <<store, written, acked>>

\* StoreFileLock::acquire does not wait: a store in use is StoreBusy.
TakeLock(p) ==
    /\ At(p, "lock")
    /\ IF lock = Free
       THEN /\ lock' = p
            /\ GoTo(p, IF Creates(calls[p].name) THEN "create" ELSE "load")
            /\ UNCHANGED <<store, written, acked>>
       ELSE Fail(p)

\* create_security_metadata: the key is derived from the passphrase; without
\* a passphrase an encrypted store gets no key, then or later.
NewKey(call) == IF call.enc THEN call.pass ELSE NoPass

NewManifest(p) ==
    [store EXCEPT !.made = TRUE, !.enc = calls[p].enc, !.key = NewKey(calls[p])]

\* A mutant of CreateManifest: a manifest that is there is written again.
CreateManifest_Again(p) ==
    /\ At(p, "create")
    /\ store' = NewManifest(p)
    /\ calls' = [calls EXCEPT ![p].step = "files", ![p].made = TRUE]
    /\ UNCHANGED <<lock, written, acked>>

\* init writes a manifest only if there is none.
CreateManifest(p) ==
    /\ At(p, "create")
    /\ store' = IF store.made THEN store ELSE NewManifest(p)
    /\ calls' = [calls EXCEPT ![p].step = "files", ![p].made = ~store.made]
    /\ UNCHANGED <<lock, written, acked>>

\* locked_empty_engine, for an encrypted store made without a passphrase: an
\* engine that has read nothing.
StaysLocked(call) == call.made /\ call.enc /\ call.pass = NoPass

\* The dictionary, the hot log, the catalog and the indexes, each if it is not
\* there; then the store is opened.
CreateFiles(p) ==
    /\ At(p, "files")
    /\ store' = [store EXCEPT !.whole = TRUE]
    /\ GoTo(p, IF StaysLocked(calls[p]) THEN "apply" ELSE "load")
    /\ UNCHANGED <<lock, written, acked>>

\* A plain store needs no passphrase and ignores one; unlock_security_metadata
\* checks it against the key.
Unlocks(pass) == ~store.enc \/ (store.key # NoPass /\ store.key = pass)

\* A mutant of LoadEngine: the lock is dropped once the store is open.
LoadEngine_DropsLock(p) ==
    /\ At(p, "load")
    /\ IF Unlocks(calls[p].pass)
       THEN /\ calls' = [calls EXCEPT ![p].step = "apply", ![p].pass = NoPass,
                                      ![p].mem = [next |-> store.next, kind |-> store.kind]]
            /\ lock' = Free
            /\ UNCHANGED <<store, written, acked>>
       ELSE Fail(p)

\* open: the manifest and the log are read under the lock.
LoadEngine(p) ==
    /\ At(p, "load")
    /\ IF Unlocks(calls[p].pass)
       THEN /\ calls' = [calls EXCEPT ![p].step = "apply", ![p].pass = NoPass,
                                      ![p].mem = [next |-> store.next, kind |-> store.kind]]
            /\ UNCHANGED <<store, lock, written, acked>>
       ELSE Fail(p)

\* Records are appended; the manifest is written as the engine has it.
Saved(p, n, kind) ==
    [store EXCEPT !.next = calls[p].mem.next + n, !.kind = kind,
                  !.entries = @ \cup {<<calls[p].mem.next + i, written + i + 1>> : i \in 0 .. n - 1}]

\* remember of n memories; the one after them may fail.
Writes(p, n) ==
    /\ written + n <= store.room
    /\ store' = Saved(p, n, calls[p].mem.kind)
    /\ written' = written + n

WritesAll(p, n) ==
    /\ Writes(p, n) /\ acked' = acked \cup written + 1 .. written + n
    /\ Returns(p, NoMem, NoReport)

Remember(p) == calls[p].name = "remember" /\ WritesAll(p, 1)

\* import_markdown_into_engine: one remember per section, and no way back.
ImportMarkdown(p) ==
    /\ calls[p].name = "import"
    /\ \/ WritesAll(p, 2)
       \/ /\ Writes(p, 1) /\ UNCHANGED acked
          /\ calls' = [calls EXCEPT ![p] = Failed(p)] /\ lock' = Released(p)

DiskFull(p) ==
    /\ written = store.room /\ calls[p].name \in {"remember", "import"}
    /\ Fail(p)

\* update_storage_config; the call has the name of the index kind.
SetIndexKind(p) ==
    /\ calls[p].name \in Kinds
    /\ store' = Saved(p, 0, calls[p].name)
    /\ Returns(p, NoMem, NoReport)
    /\ UNCHANGED <<written, acked>>

\* Calls that leave what is remembered as it is: seal, checkpoint, compact,
\* validate, rebuild-indexes, recall, export.
Maintain(p) ==
    /\ calls[p].name = "use" /\ Returns(p, NoMem, NoReport)
    /\ UNCHANGED <<store, written, acked>>

\* The stats a dashboard shows.
ReadStats(p) ==
    /\ calls[p].name = "stats" /\ Returns(p, calls[p].mem, NoReport)
    /\ UNCHANGED <<store, written, acked>>

\* setup_fast reports the mode it was asked for, init the one the engine has.
FinishSetup(p) ==
    /\ calls[p].name = "setup" /\ Reports(p, FALSE, calls[p].enc)
    /\ UNCHANGED <<store, written, acked>>

FinishInit(p) ==
    /\ calls[p].name = "init"
    /\ IF calls[p].looked /\ calls[p].enc /\ ~store.enc THEN Fail(p)
       ELSE Reports(p, calls[p].looked, store.enc) /\ UNCHANGED <<store, written, acked>>

Apply(p) ==
    /\ At(p, "apply")
    /\ \/ Remember(p) \/ ImportMarkdown(p) \/ DiskFull(p) \/ SetIndexKind(p)
       \/ Maintain(p) \/ ReadStats(p) \/ FinishSetup(p) \/ FinishInit(p)

Returned(p) == At(p, "ok") \/ At(p, "failed")

\* An I/O error; it may meet a call at any step.
StepFails(p) == ~IsIdle(p) /\ ~Returned(p) /\ Fail(p)

Step(p) ==
    Look(p) \/ Check(p) \/ TakeLock(p) \/ CreateManifest(p) \/ CreateFiles(p)
    \/ LoadEngine(p) \/ Apply(p)

\* The operating system drops the lock of a process that dies.
Die(p) ==
    /\ calls' = [calls EXCEPT ![p] = Idle]
    /\ lock' = Released(p)
    /\ UNCHANGED <<store, written, acked>>

\* The caller goes on after a call.
Done(p) ==
    /\ calls' = [calls EXCEPT ![p] = Idle]
    /\ UNCHANGED <<store, lock, written, acked>>

-----------------------------------------------------------------------------

AccessTypeOK ==
    /\ store.key \in Pass \cup {NoPass} /\ store.kind \in Kinds
    /\ store.next \in 1 .. MaxWrites + 1
    /\ store.entries \subseteq (1 .. MaxWrites) \X (1 .. MaxWrites)
    /\ lock \in Proc \cup {Free}
    /\ written \in 0 .. MaxWrites /\ acked \subseteq 1 .. MaxWrites

=============================================================================
