------------------------------ MODULE Frontends ------------------------------
(***************************************************************************)
(* The programs over one store: commands of the CLI, the terminal          *)
(* interface, the MCP server, and the setup of a host, with their crashes. *)
(***************************************************************************)
EXTENDS Tui, McpServer, HostSetup

CONSTANTS
    Cli,       \* the process of a command of the CLI
    Scenes,    \* another program, the calls of the commands given beside it, and
               \* the room on the disk
    Settings   \* what a host may have registered before

-----------------------------------------------------------------------------
(* The commands of the CLI as calls.  supersede and remember-session write  *)
(* as remember does, and the other commands leave all as it is.             *)

Given == Pass \cup {NoPass}

InitCalls     == {Call("init", enc, pass) : enc \in BOOLEAN, pass \in Given}
SetupCalls    == {Call("setup", enc, pass) : enc \in BOOLEAN, pass \in Given}
RememberCalls == {Call("remember", FALSE, pass) : pass \in Given}
ImportCalls   == {Call("import", FALSE, pass) : pass \in Given}
ConfigCalls   == UNION {{Call(kind, FALSE, pass) : pass \in Given} : kind \in Kinds}
RecallCalls   == {Call("use", FALSE, pass) : pass \in Given} \* and seal, checkpoint, mark
UpkeepCalls   == {Call("use", FALSE, pass) : pass \in Given} \* validate to doctor

Commands ==
    UNION {InitCalls, SetupCalls, RememberCalls, ImportCalls, ConfigCalls, RecallCalls, UpkeepCalls}

ASSUME FrontendsAssumption ==
    /\ Cli \in Proc \ {Tui, Mcp, Host} /\ Tui \notin {Mcp, Host} /\ Mcp # Host
    /\ \A s \in Scenes :
          s.program \in Proc \ {Cli} /\ s.room \in 0 .. MaxWrites /\ s.commands \subseteq Commands
    /\ Settings \subseteq Hosts \X (Doc \cup {NoFile})
    /\ \A s \in Settings : s[1] # "cursor" => s[2] # NoFile

-----------------------------------------------------------------------------

VARIABLE scene   \* who runs beside the commands, and the commands given

vars == <<access, ui, session, setup, scene>>

running == {Cli, scene.program}

UnchangedBut(p) ==
    /\ p # Tui => SeesChange
    /\ p # Mcp => UNCHANGED session
    /\ p # Host => UNCHANGED setup

Init ==
    /\ scene \in Scenes /\ AccessInit(scene.room)
    /\ ui = NewUi /\ session = NewSession /\ job = NewJob
    /\ \E s \in Settings : host = NewHost(s[1], s[2])
    /\ Host \notin running => host = NewHost("generic", EmptyDoc)

-----------------------------------------------------------------------------
(* A command of the CLI is one call.                                       *)

Command(p) == \E call \in scene.commands : Begin(p, call)

CliReturns(p) == Returned(p) /\ Done(p)

CliNext(p) == (Command(p) \/ Step(p) \/ StepFails(p) \/ CliReturns(p)) /\ UnchangedBut(p)

TuiNext ==
    /\ Key \/ TuiStep \/ Return \/ (StepFails(Tui) /\ UNCHANGED ui)
    /\ UnchangedBut(Tui)

McpNext ==
    /\ Send \/ ServeNext \/ McpStep \/ (StepFails(Mcp) /\ UNCHANGED session)
    /\ UnchangedBut(Mcp)

HostNext ==
    /\ \/ StartJob \/ JobNext \/ JobFails \/ JobEnds \/ HostStep
       \/ StepFails(Host) /\ UNCHANGED setup
    /\ UnchangedBut(Host)

Dies(p) ==
    /\ CASE p = Tui  -> TuiDies
         [] p = Mcp  -> McpDies
         [] p = Host -> HostDies
         [] OTHER    -> ~IsIdle(p) /\ Die(p)
    /\ UnchangedBut(p) /\ UNCHANGED scene

Next ==
    \/ /\ \/ \E p \in running \ {Tui, Mcp, Host} : CliNext(p)
          \/ Tui \in running /\ TuiNext
          \/ Mcp \in running /\ McpNext
          \/ Host \in running /\ HostNext
       /\ UNCHANGED scene
    \/ \E p \in running : Dies(p)

\* A program goes on with the call it has begun, and with what it does next by
\* itself; that a user types, a client writes or a command is started is up to
\* them.  The command beside it may stop anywhere, with the lock in its hand.
GoesOn(p) ==
    /\ CASE p = Tui  -> TuiStep \/ Return
         [] p = Mcp  -> McpStep \/ ServeNext
         [] p = Host -> HostStep \/ JobNext
         [] OTHER    -> Step(p) \/ CliReturns(p)
    /\ UnchangedBut(p) /\ UNCHANGED scene

Spec == Init /\ [][Next]_vars /\ WF_vars(GoesOn(scene.program))

-----------------------------------------------------------------------------
(* Properties.                                                             *)

\* The variables have their types.
TypeOK == AccessTypeOK /\ UiTypeOK /\ SessionTypeOK /\ HostTypeOK

\* A memory is in the store once, under an id no other has, when the caller
\* was told that it is remembered: StoreFileLock is held from the read of the
\* next id to the write.  So is the one an MCP answer speaks of, and the
\* answers are in the order of their requests.
AckedPresent ==
    /\ \A m \in acked : Cardinality({e \in store.entries : e[2] = m}) = 1
    /\ Cardinality({e[1] : e \in store.entries}) = Cardinality(store.entries)
    /\ \A i \in DOMAIN session.answers :
          LET answer == session.answers[i] IN
          (answer.ok /\ answer.memory # 0) => answer.memory \in acked
    /\ AnswersInOrder

\* What setup_fast and init report of the store is so and stays so, and a
\* store keeps its mode and key; only a setup overtaken by another process,
\* between its look at the manifest and its lock, reports the mode it asked
\* for.  What the setup of a host reports is so too, and it keeps the rest of
\* the host's settings.
SetupTruthful ==
    /\ [](\A p \in Proc : LET report == calls[p].report IN
             report.ok => /\ store.made
                          /\ (report.already \/ report.made) => report.enc = store.enc
                          /\ report.made => store.whole)
    /\ [](RegistrationTruthful /\ OthersKept)
    /\ [][store.made => store'.made /\ store'.enc = store.enc /\ store'.key = store.key]_store

Busy(p) ==
    CASE p = Tui  -> ui.handler # "none"
      [] p = Mcp  -> session.handled < Len(session.lines)
      [] p = Host -> job.step \notin {"off", "ok", "failed"}
      [] OTHER    -> ~IsIdle(p)

\* What was begun comes to its end, whatever the others do with the store, or
\* the process dies: a command, a key handler with its refresh, every line
\* written to the MCP server, the setup of a host.  A store in use is reported
\* and not waited for.
EveryCallReturns == Busy(scene.program) ~> ~Busy(scene.program)

=============================================================================
