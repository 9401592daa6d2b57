------------------------------ MODULE McpServer ------------------------------
(***************************************************************************)
(* The MCP server: main, handle_line, handle_request and the tools of      *)
(* crates/mge-cli/src/bin/mge-mcp-server.rs.                               *)
(*                                                                         *)
(* The client may write lines ahead of the answers; the server handles one *)
(* line at a time, and a tool call opens an engine of its own.             *)
(***************************************************************************)
EXTENDS StoreAccess

CONSTANTS
    Mcp,       \* the process
    McpPass,   \* the passphrase its configuration names
    McpStore,  \* whether its configuration names the store
    McpLines,  \* the lines clients write
    MaxLines   \* bound: lines of a session

VARIABLE session

\* What the client wrote, how many lines are handled, what the server wrote,
\* and the memory the tool call in progress has written.
NewSession == [lines |-> <<>>, handled |-> 0, answers |-> <<>>, memory |-> 0]

WritingTools == {"remember"}  \* mge_supersede and mge_remember_session too
OtherTools   == {"use"}       \* they leave what is remembered as it is

Tools == WritingTools \cup OtherTools

\* The fields without a default in the params structure of a tool; those of
\* mge_supersede and mge_remember_session have other names than the content.
Params == [remember |-> {"store_path", "content"}, use |-> {"store_path"}]

Fields == {"store_path", "content"}

\* A line holds a tool call, a notification of one, a request that needs no
\* store or is refused, or no request at all.
Lines == {line \in [kind : {"tool", "notification"}, tool : Tools, fields : SUBSET Fields] :
              line.fields \subseteq Params[line.tool]}
             \cup [kind : {"local", "garbage"}, tool : {"none"}, fields : {{}}]

ASSUME McpAssumption ==
    /\ Mcp \in Proc /\ McpPass \in Pass \cup {NoPass} /\ McpStore \in BOOLEAN
    /\ McpLines \subseteq Lines /\ MaxLines \in Nat

\* What mge_schema and tools/list say a call must name.
RequiredFields(tool) ==
    (IF tool = "remember" THEN {"content"} ELSE {})
        \cup (IF McpStore THEN {} ELSE {"store_path"})

\* params_with_defaults
WithDefaults(fields) == fields \cup (IF McpStore THEN {"store_path"} ELSE {})

NullId == 0

\* The id of a request is its place in the session.
Answer(id, ok, memory) == [id |-> id, ok |-> ok, memory |-> memory, invalid |-> FALSE]

InvalidParams(id) == [Answer(id, FALSE, 0) EXCEPT !.invalid = TRUE]

-----------------------------------------------------------------------------

Send ==
    /\ Len(session.lines) < MaxLines
    /\ \E line \in McpLines : session' = [session EXCEPT !.lines = Append(@, line)]
    /\ UNCHANGED access

Waiting == IsIdle(Mcp) /\ session.handled < Len(session.lines)

Line == session.lines[session.handled + 1]

Answered(answer) ==
    [session EXCEPT !.handled = @ + 1, !.answers = Append(@, answer), !.memory = 0]

\* A line without an id is handled and not answered.
Unanswered == [session EXCEPT !.handled = @ + 1, !.memory = 0]

\* handle_line for what needs no store: schema, ping, initialize and the
\* list of tools; an unknown method or a wrong version; an unreadable line,
\* which is answered under the null id.
HandleLocally ==
    /\ Waiting /\ Line.kind \in {"local", "garbage"}
    /\ session' = Answered(Answer(IF Line.kind = "garbage" THEN NullId ELSE session.handled + 1,
                                  Line.kind = "local", 0))
    /\ UNCHANGED access

IsCall == Waiting /\ Line.kind \in {"tool", "notification"}

Parses(line) == Params[line.tool] \subseteq WithDefaults(line.fields)

\* parse_params comes before the store is opened.
RefuseCall ==
    /\ IsCall /\ ~Parses(Line)
    /\ session' = IF Line.kind = "tool" THEN Answered(InvalidParams(session.handled + 1))
                                       ELSE Unanswered
    /\ UNCHANGED access

\* call_named_tool; a notification runs its tool all the same.
CallTool ==
    /\ IsCall /\ Parses(Line)
    /\ Begin(Mcp, Call(Line.tool, FALSE, McpPass))
    /\ UNCHANGED session

McpStep ==
    /\ Step(Mcp)
    /\ session' = [session EXCEPT !.memory = IF written' > written THEN written' ELSE @]

ToolReturns ==
    /\ Returned(Mcp)
    /\ session' = IF Line.kind = "tool"
                  THEN Answered(Answer(session.handled + 1, At(Mcp, "ok"), session.memory))
                  ELSE Unanswered
    /\ Done(Mcp)

\* The client starts another server, and has no answer to its open requests.
McpDies == session' = NewSession /\ Die(Mcp)

ServeNext == HandleLocally \/ RefuseCall \/ CallTool \/ ToolReturns

-----------------------------------------------------------------------------

SessionTypeOK ==
    /\ session.lines \in Seq(McpLines) /\ Len(session.lines) <= MaxLines
    /\ session.handled \in 0 .. Len(session.lines)
    /\ session.memory \in 0 .. MaxWrites

\* The lines among the first `n` that ask for an answer.
Answerable(n) == {i \in 1 .. n : session.lines[i].kind # "notification"}

\* Every line handled is answered once and in order, a notification never, and
\* a call that names what the schema says it must is not found invalid.
AnswersInOrder ==
    /\ Len(session.answers) = Cardinality(Answerable(session.handled))
    /\ \A i \in Answerable(session.handled) :
          LET line   == session.lines[i]
              answer == session.answers[Cardinality(Answerable(i))]
          IN /\ answer.id = IF line.kind = "garbage" THEN NullId ELSE i
             /\ answer.invalid => ~(RequiredFields(line.tool) \subseteq line.fields)

=============================================================================
