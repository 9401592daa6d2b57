----------------------------- MODULE MCFrontends -----------------------------
(* Two commands at once, and each of the other programs beside a command.   *)
EXTENDS Frontends

MCProc   == {"cli", "cli2", "tui", "mcp", "host"}

Scene(program, room, commands) ==
    [program |-> program, room |-> room, commands |-> commands]

Under(pass, given) == {c \in given : c.pass = pass}

\* A store is made plain without a passphrase, or encrypted.
Makes(given) == {c \in given : c.enc \/ c.pass = NoPass}

MCScenes ==
    {Scene("cli2", 2, Makes(InitCalls \cup SetupCalls) \cup Under("key", RememberCalls \cup ConfigCalls)),
     Scene("tui", 1, Under(NoPass, RememberCalls)),
     Scene("mcp", 2, Under("key", RememberCalls \cup SetupCalls)),
     Scene("host", 0, Under(NoPass, UpkeepCalls))}

\* The terminal interface and the setup of a host are started without one.
MCNoPass == NoPass

\* The store is the one the server is configured with; a call may leave out
\* the content, a notification does not.
MCLines ==
    {line \in Lines : /\ "store_path" \notin line.fields
                      /\ line.kind = "notification" => line.fields = RequiredFields(line.tool)}

Has(entry) == [entry |-> entry, others |-> TRUE]

MCSettings ==
    {<<"generic", EmptyDoc>>, <<"cursor", NoFile>>, <<"cursor", Has("other")>>,
     <<"claude", Has("more")>>, <<"codex", Has("more")>>}

=============================================================================
