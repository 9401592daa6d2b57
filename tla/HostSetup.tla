------------------------------ MODULE HostSetup ------------------------------
(***************************************************************************)
(* `mge setup <host>`: the Setup command of crates/mge-cli/src/main.rs and *)
(* crates/mge-cli/src/host_integration.rs.                                 *)
(*                                                                         *)
(* Codex and Claude Code keep their registrations themselves and are told  *)
(* by their own commands; Cursor has a file that is rewritten.  The server *)
(* that the smoke test spawns runs while its parent waits for it, and has  *)
(* the parent's name here.  Nobody else edits the host's settings while    *)
(* the command runs.                                                       *)
(***************************************************************************)
EXTENDS StoreAccess

CONSTANTS
    Host,      \* the process
    HostPass   \* the passphrase that --passphrase-env names

ASSUME HostAssumption == Host \in Proc /\ HostPass \in Pass \cup {NoPass}

CliHosts == {"codex", "claude"}
Hosts    == CliHosts \cup {"cursor", "generic"}

\* What a host has registered as memory-genome: nothing, this very server,
\* this server with more arguments, or another command.
Entries == {"absent", "ours", "more", "other"}

\* Settings of a host: that entry, and whether the servers it had besides are
\* all there.
Doc      == [entry : Entries, others : BOOLEAN]
EmptyDoc == [entry |-> "absent", others |-> FALSE]
NoFile   == [entry |-> "no file", others |-> FALSE]

VARIABLES
    host,  \* the host, its settings, the backups of them, the temporary file,
           \* and whether it had other servers
    job    \* the command that runs

setup == <<host, job>>

NewHost(kind, file) == [kind |-> kind, file |-> file, backups |-> {}, temp |-> NoFile,
                        had |-> file.others]

NewJob == [remove |-> FALSE, force |-> FALSE, dry |-> FALSE, step |-> "off",
           doc |-> EmptyDoc, before |-> "absent"]

EntryOf(file) == IF file = NoFile THEN "absent" ELSE file.entry

In(step) == job.step = step /\ IsIdle(Host)

To(step) == job' = [job EXCEPT !.step = step]

Touches(step, new) == In(step) /\ host' = new /\ UNCHANGED access

Only(step) == UNCHANGED <<access, host>> /\ To(step)

-----------------------------------------------------------------------------

\* setup_fast comes first, unless the registration is to be removed.
StartJob ==
    /\ In("off")
    /\ \E remove, force, dry, enc \in BOOLEAN :
          /\ remove => ~force /\ ~enc   \* they change nothing then
          /\ LET new == [NewJob EXCEPT !.remove = remove, !.force = force, !.dry = dry,
                                       !.before = EntryOf(host.file)]
             IN IF remove
                THEN job' = [new EXCEPT !.step = "inspect"] /\ UNCHANGED access
                ELSE /\ job' = [new EXCEPT !.step = "setup"]
                     /\ Begin(Host, Call("setup", enc, HostPass))
    /\ UNCHANGED host

\* The call of setup_fast or of the smoke test returns; after setup_fast
\* comes the smoke test, a stats call by a server of its own.
SetupReturns ==
    /\ Returned(Host) /\ job.step \in {"setup", "smoke"}
    /\ CASE At(Host, "failed")                -> To("failed") /\ Done(Host)
         [] job.step = "setup" /\ At(Host, "ok") /\ ~job.dry ->
               /\ To("smoke")
               /\ calls' = [calls EXCEPT ![Host] = [Call("stats", FALSE, HostPass) EXCEPT !.step = "check"]]
               /\ UNCHANGED <<store, lock, written, acked>>
         [] OTHER                             -> To("inspect") /\ Done(Host)
    /\ UNCHANGED host

\* cli_server_state: for Claude Code the text of the registration must
\* contain the command and the arguments.  Cursor's entry must be the same.
Matches(kind, entry) == entry = "ours" \/ (kind = "claude" /\ entry = "more")

\* What the command does about an entry it finds: whether it removes it, goes
\* on with what is there, refuses to overwrite it, or registers its own.
Decision(cmd, matches, entry, remove, add) ==
    CASE cmd.remove                            ->
            IF entry = "absent" \/ cmd.dry THEN "ok" ELSE remove
      [] ~cmd.remove /\ matches               -> "ok"
      [] ~cmd.remove /\ ~matches /\ entry # "absent" /\ ~cmd.force -> "failed"
      [] OTHER                                 -> IF cmd.dry THEN "ok" ELSE add

\* configure_cli_host: with --force a registration that matches is made anew.
CliDecision(cmd, kind, entry) ==
    Decision(cmd, Matches(kind, entry) /\ ~cmd.force, entry, "drop",
             IF entry = "absent" THEN "add" ELSE "replace")

\* configure_cursor
CursorDecision(cmd, entry) == Decision(cmd, Matches("cursor", entry), entry, "backup", "backup")

\* configure_generic prints what the user may put anywhere.
GenericDecision(cmd) == IF cmd.remove THEN "failed" ELSE "ok"

Configure(kind, entry) ==
    CASE kind = "generic" -> GenericDecision(job)
      [] kind = "cursor"  -> CursorDecision(job, entry)
      [] OTHER            -> CliDecision(job, kind, entry)

\* A dry run asks Codex and Claude Code nothing.
Inspect ==
    /\ In("inspect")
    /\ LET doc   == IF host.file = NoFile THEN EmptyDoc ELSE host.file
           found == IF host.kind \in CliHosts /\ job.dry THEN "absent" ELSE doc.entry
       IN job' = [job EXCEPT !.doc = doc,
                             !.step = Configure(host.kind, found)]
    /\ UNCHANGED <<access, host>>

-----------------------------------------------------------------------------
(* Codex and Claude Code: `mcp remove` and `mcp add`, which are trusted to  *)
(* do nothing else.                                                         *)

Registered(entry) == [host EXCEPT !.file.entry = entry]

DropEntry ==
    \/ Touches("drop", Registered("absent")) /\ To("ok")
    \/ Touches("replace", Registered("absent")) /\ To("add")

\* What the host makes of it is seen when it is asked again.
AddEntry == \E entry \in {"ours", "other"} : Touches("add", Registered(entry)) /\ To("verify")

Verify ==
    /\ In("verify")
    /\ Only(IF Matches(host.kind, host.file.entry) THEN "ok" ELSE "rollback")

\* The outcome of this `mcp remove` is not looked at.
RollBack ==
    \E new \in {host, Registered("absent")} : Touches("rollback", new) /\ To("failed")

-----------------------------------------------------------------------------
(* Cursor: backup_if_exists and write_json_atomic.                          *)

NewDoc == [job.doc EXCEPT !.entry = IF job.remove THEN "absent" ELSE "ours"]

\* No two backups are made within a second.
BackUp ==
    /\ Touches("backup", [host EXCEPT !.backups = IF host.file = NoFile THEN @ ELSE @ \cup {host.file}])
    /\ To("write")

WriteTemp == Touches("write", [host EXCEPT !.temp = NewDoc]) /\ To("unlink")

\* The file is removed before the new one gets its name.
Unlink == Touches("unlink", [host EXCEPT !.file = NoFile]) /\ To("rename")

Rename == Touches("rename", [host EXCEPT !.file = host.temp, !.temp = NoFile]) /\ To("ok")

-----------------------------------------------------------------------------

JobOver == job.step \in {"ok", "failed"}

\* A command of the host, or a file operation, fails.
JobFails == IsIdle(Host) /\ ~JobOver /\ job.step # "off" /\ Only("failed")

HostStep == Step(Host) /\ UNCHANGED setup

JobNext ==
    SetupReturns \/ Inspect \/ DropEntry \/ AddEntry \/ Verify \/ RollBack
    \/ BackUp \/ WriteTemp \/ Unlink \/ Rename

JobEnds == JobOver /\ job' = NewJob /\ UNCHANGED <<access, host>>

HostDies == job.step # "off" /\ job' = NewJob /\ Die(Host) /\ UNCHANGED host

-----------------------------------------------------------------------------

HostTypeOK ==
    /\ host.kind \in Hosts
    /\ host.file \in Doc \cup {NoFile} /\ host.temp \in Doc \cup {NoFile}
    /\ host.backups \subseteq Doc
    /\ host.kind # "cursor" => host.file # NoFile

\* A command that reports success has done what it was asked for, and without
\* --force none changes a registration that was there.
RegistrationTruthful ==
    /\ (job.step = "ok" /\ host.kind # "generic" /\ ~job.dry) =>
          IF job.remove THEN EntryOf(host.file) = "absent"
                        ELSE Matches(host.kind, EntryOf(host.file))
    /\ (job.step # "off" /\ ~job.force /\ ~job.remove /\ job.before # "absent") =>
          EntryOf(host.file) = job.before

\* The other servers of the host are in its settings, or, after a command that
\* died between removing the file and renaming the new one, in a backup.
OthersKept == host.had => \E doc \in {host.file} \cup host.backups : doc.others

=============================================================================
