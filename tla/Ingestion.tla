------------------------------ MODULE Ingestion ------------------------------
(***************************************************************************)
(* What becomes one cell when a long text is remembered:                    *)
(* chunk_session_turns (crates/mge-core/src/ingestion.rs) for sessions, and *)
(* parse_markdown_sections (crates/mge-cli/src/app_service.rs) for files.   *)
(***************************************************************************)
EXTENDS Integers, Sequences, SequencesExt

-----------------------------------------------------------------------------
(* A session, given as the byte lengths of its "role: content" lines, is    *)
(* cut into chunks of consecutive turns.  A chunk is the pair               *)
(* <<start_turn, end_turn>> of the source, whose range excludes end_turn.   *)

\* A turn whose role or content is blank is the length 0.
Rejected(turns, options) ==
    \/ options.max_turns = 0 \/ options.max_bytes = 0
    \/ turns = <<>> \/ \E i \in DOMAIN turns : turns[i] = 0

NoChunks == [closed |-> <<>>, start |-> 0, seen |-> 0, bytes |-> 0]

Lines(acc) == acc.seen - acc.start

\* Lines of a chunk are joined by a newline.
Separator(acc) == IF Lines(acc) = 0 THEN 0 ELSE 1

ExceedsLimit(acc, len, options) ==
    \/ Lines(acc) >= options.max_turns
    \/ acc.bytes + Separator(acc) + len > options.max_bytes

CloseChunk(acc) ==
    [closed |-> Append(acc.closed, <<acc.start, acc.seen>>),
     start |-> acc.seen, seen |-> acc.seen, bytes |-> 0]

AddLine(acc, len) ==
    [closed |-> acc.closed, start |-> acc.start,
     seen |-> acc.seen + 1, bytes |-> acc.bytes + Separator(acc) + len]

\* Mutant of AddTurn: the turn that does not fit goes with the closed chunk.
AddTurn_Late(acc, len, options) ==
    IF Lines(acc) > 0 /\ ExceedsLimit(acc, len, options)
    THEN CloseChunk(AddLine(acc, len))
    ELSE AddLine(acc, len)

AddTurn(acc, len, options) ==
    AddLine(IF Lines(acc) > 0 /\ ExceedsLimit(acc, len, options)
            THEN CloseChunk(acc) ELSE acc, len)

\* The last chunk is closed after the last turn.
Chunks(turns, options) ==
    LET all == FoldLeft(LAMBDA acc, len : AddTurn(acc, len, options), NoChunks, turns)
    IN (IF Lines(all) = 0 THEN all ELSE CloseChunk(all)).closed

-----------------------------------------------------------------------------
(* A Markdown file, given as its lines: headings with a text, other lines   *)
(* with a text, and blank ones.  A section is the line of its heading, 0 if *)
(* it has the name of the file for a subject, and the lines of its content. *)

LineKinds == {"head", "text", "blank"}

NoSections == [closed |-> <<>>, head |-> 0, body |-> <<>>]

\* push_markdown_section: a heading alone is its own content.
CloseSection(acc) ==
    LET content == IF acc.body = <<>> /\ acc.head # 0 THEN <<acc.head>> ELSE acc.body
    IN [closed |-> IF content = <<>> THEN acc.closed
                   ELSE Append(acc.closed, [head |-> acc.head, lines |-> content]),
        head |-> 0, body |-> <<>>]

AddMarkdownLine(acc, line, kind) ==
    CASE kind = "head"  -> [closed |-> CloseSection(acc).closed, head |-> line, body |-> <<>>]
      [] kind = "text"  -> [closed |-> acc.closed, head |-> acc.head, body |-> Append(acc.body, line)]
      [] kind = "blank" -> acc

Sections(file) ==
    CloseSection(FoldLeft(LAMBDA acc, i : AddMarkdownLine(acc, i, file[i]), NoSections,
                          [i \in DOMAIN file |-> i])).closed

\* collect_markdown_files, of the entries below a path in the order of their
\* paths: symbolic links and other files are skipped.
MarkdownFiles(entries) ==
    FlattenSeq([e \in DOMAIN entries |->
        IF entries[e].type = "markdown" THEN <<entries[e].lines>> ELSE <<>>])

=============================================================================
