------------------------------- MODULE Lineage -------------------------------
(***************************************************************************)
(* What successive calls build up in one store: cells with their links and *)
(* markers, the marker dictionary, typed supersessions, status overrides,  *)
(* chunked sessions, imported files, and the compactions that prune all of *)
(* them (crates/mge-core/src/store.rs, markers.rs).                        *)
(*                                                                         *)
(* A call is one step: the modules HotStore, Supersession, SealedStore and *)
(* Compaction show what a crash or an error inside of it leaves.  Ids are  *)
(* given in the order of time, so updated_at is abstracted to the id.      *)
(***************************************************************************)
EXTENDS Integers, FiniteSets, Ingestion

CONSTANTS
    Scope,       \* scopes, as the positive numbers of their markers
    Requests,    \* what remember and supersede are called with
    Sessions,    \* what remember_session is called with
    Imports,     \* what import markdown is called with
    MaxMarker,   \* the largest number a MarkerId can be
    Overrides,   \* the statuses given to set_status_override
    MaxId,       \* bound: cell ids are 1 .. MaxId
    MaxMarks     \* bound: overrides in force besides those of supersessions

ASSUME ScopeAssumption == Scope \subseteq Nat \ {0}
ASSUME BoundAssumption == MaxId \in Nat /\ MaxMarks \in Nat /\ MaxMarker \in Nat \ {0}

Id == 1 .. MaxId

\* The marker relation:supersedes, which follows those of the fields.
Supersedes == 0

MarkerName == Scope \cup {Supersedes}

Retiring == {"superseded", "deprecated", "rejected"}
Status   == Retiring \cup {"active", "temporary", "unverified", "verified"}

\* What remember is given.  Of the markers a caller may name, the model has
\* the one of a supersession.
Request ==
    [scope : Scope, status : Status, links : SUBSET Nat, explicit : SUBSET {Supersedes}]

ASSUME OverridesAssumption == Overrides \subseteq Retiring \cup {"active"}

ASSUME RequestsAssumption ==
    Requests \cup {x.request : x \in Sessions \cup Imports} \subseteq Request

ASSUME SessionsAssumption ==
    \A s \in Sessions : s.turns \in Seq(Nat) /\ s.options \in [max_turns : Nat, max_bytes : Nat]

ASSUME ImportsAssumption ==
    \A i \in Imports :
        i.entries \in Seq([type : {"markdown", "symlink", "other"}, lines : Seq(LineKinds)])

VARIABLES
    cells,    \* id -> [scope, status, links, marks], hot and sealed alike
    next,     \* next_cell_id
    over,     \* status_overrides
    by,       \* superseded_by
    dict,     \* the MarkerDictionary
    session   \* the last call, if it was remember_session or an import, with
              \* the texts of the cells it remembered

vars == <<cells, next, over, by, dict, session>>

NoSession == [of |-> "nothing"]

\* A map with one more entry, or another value for it.
With(map, key, value) ==
    [k \in DOMAIN map \cup {key} |-> IF k = key THEN value ELSE map[k]]

-----------------------------------------------------------------------------
(* The marker dictionary.                                                  *)

EmptyDict == [toId |-> <<>>, toName |-> <<>>, next |-> 1]

\* Mutant of GetOrInsert: the last number is given away too.
GetOrInsert_Last(d, name) ==
    IF name \in DOMAIN d.toId \/ d.next > MaxMarker THEN d
    ELSE [d EXCEPT !.toId = With(@, name, d.next), !.toName = With(@, d.next, name), !.next = @ + 1]

\* get_or_insert: the next id has to be a number too, or the call fails and
\* the marker stays unknown.
GetOrInsert(d, name) ==
    IF name \in DOMAIN d.toId \/ d.next + 1 > MaxMarker THEN d
    ELSE [d EXCEPT !.toId = With(@, name, d.next), !.toName = With(@, d.next, name), !.next = @ + 1]

\* The markers of a cell, inserted in their order up to the first failure:
\* where one does not fit, no later one does.
WithMarkers(request) ==
    LET d == GetOrInsert(dict, request.scope)
    IN  IF Supersedes \in request.explicit THEN GetOrInsert(d, Supersedes) ELSE d

\* Mutant of RetainMarkers: the map from names to ids is forgotten.
RetainMarkers_OneMap(retained) ==
    [dict EXCEPT !.toName = [i \in DOMAIN @ \cap retained |-> @[i]]]

RetainMarkers(retained) ==
    [dict EXCEPT !.toName = [i \in DOMAIN @ \cap retained |-> @[i]],
                 !.toId = [n \in {m \in DOMAIN @ : @[m] \in retained} |-> @[n]]]

-----------------------------------------------------------------------------
(* remember, remember_session, supersede, set_status_override.             *)

Known == DOMAIN cells

Effective(c) == IF c \in DOMAIN over THEN over[c] ELSE cells[c].status

NamesOf(request) == {request.scope} \cup request.explicit

Overflow(request, d) == ~(NamesOf(request) \subseteq DOMAIN d.toId)

NewCell(request, d) ==
    [scope |-> request.scope, status |-> request.status, links |-> request.links,
     marks |-> {d.toId[n] : n \in NamesOf(request)}]

\* `n` calls of remember with one request.
Insert(request, d, n) ==
    /\ next + n - 1 <= MaxId
    /\ cells' = [i \in Known \cup next .. next + n - 1 |->
                    IF i \in Known THEN cells[i] ELSE NewCell(request, d)]
    /\ next' = next + n
    /\ dict' = d

\* The markers inserted before the one that does not fit stay in an engine
\* that is kept, and are lost with one that is dropped: the call saves nothing.
Overflows(d) ==
    /\ dict' \in {dict, d}
    /\ UNCHANGED <<cells, next>>

\* remember: links are taken as they are given.
Remember(request) ==
    LET d == WithMarkers(request)
    IN /\ next \in Id
       /\ IF Overflow(request, d) THEN Overflows(d) ELSE Insert(request, d, 1)
       /\ session' = NoSession
       /\ UNCHANGED <<over, by>>

\* The chunks of the sessions that are not rejected as invalid.
ChunksOf ==
    [s \in {t \in Sessions : ~Rejected(t.turns, t.options)} |-> Chunks(s.turns, s.options)]

\* remember_session: one remember for each chunk; when one fails, the cells
\* of those before it stay.
RememberSession(s) ==
    /\ s \in DOMAIN ChunksOf
    /\ LET d      == WithMarkers(s.request)
           chunks == ChunksOf[s]
       IN /\ next + Len(chunks) - 1 \in Id
          /\ \E kept \in 0 .. Len(chunks) :
                /\ IF Overflow(s.request, d) THEN kept = 0 /\ Overflows(d)
                   ELSE Insert(s.request, d, kept)
                /\ session' = [of |-> "turns", turns |-> s.turns, options |-> s.options,
                               ok |-> kept = Len(chunks), texts |-> SubSeq(chunks, 1, kept)]
    /\ UNCHANGED <<over, by>>

\* The sections of the Markdown files of an import, with the number of the file.
SectionsOf ==
    [i \in Imports |->
        LET files == MarkdownFiles(i.entries)
        IN  FlattenSeq([f \in DOMAIN files |->
                [k \in DOMAIN Sections(files[f]) |-> <<f, Sections(files[f])[k]>>]])]

\* import_markdown_into_engine: one remember for each section, file by file.
\* Of the markers it adds, as of those of other fields, none is modelled.
ImportMarkdown(i) ==
    LET d     == WithMarkers(i.request)
        files == MarkdownFiles(i.entries)
        texts == SectionsOf[i]
    IN /\ files # <<>>
       /\ next + Len(texts) - 1 \in Id
       /\ \E kept \in 0 .. Len(texts) :
             /\ CASE texts = <<>> -> UNCHANGED <<cells, next, dict>>
                  [] texts # <<>> /\ Overflow(i.request, d)  -> kept = 0 /\ Overflows(d)
                  [] texts # <<>> /\ ~Overflow(i.request, d) -> Insert(i.request, d, kept)
             /\ session' = [of |-> "files", files |-> files,
                            ok |-> kept = Len(texts), texts |-> SubSeq(texts, 1, kept)]
       /\ UNCHANGED <<over, by>>

MaySupersede(old, request) ==
    /\ old \notin DOMAIN by /\ Effective(old) \notin Retiring
    /\ request.status \notin Retiring
    /\ request.scope = cells[old].scope

\* supersede, done as a whole: Supersession has what else can become of it.
Supersede(old, request) ==
    LET r == [request EXCEPT !.links = @ \cup {old}, !.explicit = @ \cup {Supersedes}]
        d == WithMarkers(r)
    IN /\ next \in Id
       /\ MaySupersede(old, request)
       /\ ~Overflow(r, d) /\ Insert(r, d, 1)
       /\ over' = With(over, old, "superseded")
       /\ by' = With(by, old, next)
       /\ session' = NoSession

\* A cell with a typed successor stays superseded.
SetStatus(c, status) ==
    /\ c \in DOMAIN by => status = "superseded"
    /\ over' = IF status = "active" THEN [x \in DOMAIN over \ {c} |-> over[x]]
               ELSE With(over, c, status)
    /\ Cardinality(DOMAIN over' \ DOMAIN by) <= MaxMarks
    /\ session' = NoSession
    /\ UNCHANGED <<cells, next, by, dict>>

-----------------------------------------------------------------------------
(* validate, as far as it is about these data.                             *)

DictionaryOk ==
    /\ \A n \in DOMAIN dict.toId : /\ dict.toId[n] \in DOMAIN dict.toName
                                   /\ dict.toName[dict.toId[n]] = n
    /\ \A i \in DOMAIN dict.toName : /\ dict.toName[i] \in DOMAIN dict.toId
                                     /\ dict.toId[dict.toName[i]] = i
                                     /\ 0 < i /\ i < dict.next

MarkersKnown == \A c \in Known : cells[c].marks \subseteq DOMAIN dict.toName

LinksOk == \A c \in Known : c \notin cells[c].links /\ cells[c].links \subseteq Known

SupersessionsOk ==
    /\ DOMAIN over \subseteq Known
    /\ \A old \in DOMAIN by :
          /\ old < by[old] /\ {old, by[old]} \subseteq Known
          /\ old \in DOMAIN over /\ over[old] = "superseded"
          /\ old \in cells[by[old]].links

Valid == DictionaryOk /\ MarkersKnown /\ LinksOk /\ SupersessionsOk

-----------------------------------------------------------------------------
(* compact with apply.                                                     *)

\* Temporary cells are pruned up to the cutoff.
Prunable(c, cutoff) ==
    CASE Effective(c) = "superseded" -> c \in DOMAIN by /\ by[c] \in Known
      [] Effective(c) \in {"deprecated", "rejected"} -> TRUE
      [] Effective(c) = "temporary" -> c <= cutoff
      [] OTHER -> FALSE

\* Mutant of ResolvedLink: only one replacement is followed.
ResolvedLink_Once(link, owner, pruned) ==
    IF link \notin pruned THEN {link} \ {owner}
    ELSE IF link \in DOMAIN by THEN {by[link]} \ (pruned \cup {owner})
    ELSE {}

\* resolve_compacted_link: replacements are followed to the first that is
\* kept.  A set of at most one cell.
ResolvedLink(link, owner, pruned) ==
    LET follow[p \in Known \X SUBSET Known] ==
            IF p[1] \notin pruned THEN {p[1]}
            ELSE IF p[1] \in p[2] \/ p[1] \notin DOMAIN by THEN {}
            ELSE follow[<<by[p[1]], p[2] \cup {p[1]}>>]
    IN follow[<<link, {}>>] \ {owner}

RewrittenLinks(c, pruned) ==
    UNION {ResolvedLink(link, c, pruned) : link \in cells[c].links}

KeptCells(pruned) ==
    [c \in Known \ pruned |-> [cells[c] EXCEPT !.links = RewrittenLinks(c, pruned)]]

\* apply_compaction_manifest and prune_unused_markers.
Compact(cutoff) ==
    LET pruned == {c \in Known : Prunable(c, cutoff)}
    IN /\ Valid
       /\ cells' = KeptCells(pruned)
       /\ over' = [c \in DOMAIN over \ pruned |-> over[c]]
       /\ by' = [old \in {o \in DOMAIN by : {o, by[o]} \cap pruned = {}} |-> by[old]]
       /\ dict' = RetainMarkers(UNION {cells'[c].marks : c \in Known \ pruned})
       /\ session' = NoSession
       /\ UNCHANGED next

-----------------------------------------------------------------------------

Init ==
    /\ cells = <<>> /\ next = 1 /\ over = <<>> /\ by = <<>>
    /\ dict = EmptyDict /\ session = NoSession

Next ==
    \/ \E r \in Requests : Remember(r)
    \/ \E s \in Sessions : RememberSession(s)
    \/ \E i \in Imports : ImportMarkdown(i)
    \/ \E old \in Known, r \in Requests : Supersede(old, r)
    \/ \E c \in Known, status \in Overrides : SetStatus(c, status)
    \/ \E cutoff \in 0 .. MaxId : Compact(cutoff)

Spec == Init /\ [][Next]_vars

-----------------------------------------------------------------------------
(* Properties.                                                             *)

TypeOK ==
    /\ next \in 1 .. MaxId + 1 /\ Known \subseteq 1 .. next - 1
    /\ \A c \in Known : /\ cells[c].scope \in Scope
                        /\ cells[c].marks \subseteq 1 .. MaxMarker - 1
    /\ DOMAIN over \subseteq Id /\ DOMAIN by \subseteq Id
    /\ DOMAIN dict.toId \subseteq MarkerName
    /\ dict.next \in 1 .. MaxMarker

\* Whatever the calls were, failed ones and compactions included, validate
\* finds nothing wrong but links a caller gave: the two maps of the dictionary
\* agree and give no id twice, all supersessions run forward between cells
\* that exist, and every cell still has the scope its marker ids name.
StoreConsistent ==
    /\ TypeOK /\ DictionaryOk /\ MarkersKnown /\ SupersessionsOk
    /\ \A c \in Known : {dict.toName[i] : i \in cells[c].marks} \ {Supersedes}
                            = {cells[c].scope}

\* The cell and all that replaced it, one after the other: the least set with
\* the cell that is closed under superseded_by.
VersionsOf(c) ==
    {v \in Id : \A S \in SUBSET Id :
                    (c \in S /\ \A x \in S \cap DOMAIN by : by[x] \in S) => v \in S}

Current(c) == VersionsOf(c) \ DOMAIN by

\* When a compaction removes cells, however long the chains of versions were
\* and whichever of them it removes, each cell that stays links to the current
\* versions of what it linked to that are still there, to nothing else and
\* never to itself, and the current version of every removed cell stays unless
\* it was deprecated, rejected or temporary itself (docs/ARCHITECTURE.md on
\* compaction).  Between compactions no link changes.
RedirectsToCurrent ==
    [][LET kept == DOMAIN cells'
       IN IF Known \subseteq kept
          THEN \A c \in Known : cells'[c] = cells[c]
          ELSE /\ \A c \in kept : cells'[c].links =
                    ((UNION {Current(l) : l \in cells[c].links}) \cap kept) \ {c}
               /\ \A c \in Known \ kept : \A v \in Current(c) \ kept :
                    Effective(v) \in {"deprecated", "rejected", "temporary"}]_vars

\* The turns that a list of chunks holds, in the order of the list.
TurnsIn(chunks) == FlattenSeq([k \in DOMAIN chunks |->
                                  [j \in 1 .. chunks[k][2] - chunks[k][1] |-> chunks[k][1] + j]])

\* The bytes of a chunk of the turns a + 1 .. b, and whether it is in the limits.
ChunkBytes(turns, a, b) == FoldLeft(LAMBDA x, y : x + y, b - a - 1, SubSeq(turns, a + 1, b))

Fits(turns, options, a, b) ==
    b - a <= options.max_turns /\ ChunkBytes(turns, a, b) <= options.max_bytes

\* A session reported as remembered is stored whole and in order, each turn in
\* one cell, the cells in order of their ids; no cell but one of a single turn
\* exceeds a limit, and no two neighbours would fit in one.  A failed
\* call leaves a beginning of the session and no turn twice.
SessionIsWhole ==
    session.of = "turns" =>
        LET t          == session.turns
            chunks     == session.texts
            fits(a, b) == Fits(t, session.options, a, b)
        IN /\ IsPrefix(TurnsIn(chunks), [j \in DOMAIN t |-> j])
           /\ session.ok <=> Len(TurnsIn(chunks)) = Len(t)
           /\ \A k \in DOMAIN chunks : \/ fits(chunks[k][1], chunks[k][2])
                                       \/ chunks[k][2] = chunks[k][1] + 1
           /\ \A k \in DOMAIN chunks : k > 1 => ~fits(chunks[k - 1][1], chunks[k][1] + 1)

\* The lines of one kind, as pairs of the number of the file and of the line;
\* the lines and the heading of a section <<f, s>> of file f, and their order.
LinesOf(files, kind) ==
    {p \in UNION {{f} \X DOMAIN files[f] : f \in DOMAIN files} : files[p[1]][p[2]] = kind}

Said(text)    == {text[1]} \X ToSet(text[2].lines)
Heading(text) == <<text[1], text[2].head>>

AllSaid(texts)  == UNION {Said(texts[k]) : k \in DOMAIN texts}
Headings(texts) == {Heading(texts[k]) : k \in DOMAIN texts}

Earlier(p, q) == p[1] < q[1] \/ (p[1] = q[1] /\ p[2] < q[2])

\* Of the places `all` those in `some` are a beginning.
Beginning(some, all) == \A p \in all, q \in some \cap all : Earlier(p, q) => p \in some

InOrder(texts) ==
    \A k, l \in DOMAIN texts : k < l =>
        /\ Earlier(Heading(texts[k]), Heading(texts[l]))
        /\ \A p \in Said(texts[k]), q \in Said(texts[l]) : Earlier(p, q)

\* The lines of text below a heading, or above the first of the file, in their
\* order, or the heading alone.
IsSection(files, text) ==
    LET f == text[1]
        s == text[2]
    IN /\ s.lines # <<>> /\ \A i, j \in DOMAIN s.lines : i < j => s.lines[i] < s.lines[j]
       /\ s.head = 0 \/ Heading(text) \in LinesOf(files, "head")
       /\ \A i \in ToSet(s.lines) :
             /\ <<f, i>> \in LinesOf(files, "text") \/ (i = s.head /\ s.lines = <<i>>)
             /\ s.head <= i /\ \A h \in s.head + 1 .. i : files[f][h] # "head"

\* An import reported as done has every line of text of every file in exactly
\* one cell, in order and under the last heading before it, and every heading
\* as the subject of exactly one cell, whose only line it is if no other is
\* there.  A failed one leaves a beginning.
ImportIsWhole ==
    session.of = "files" =>
        LET files == session.files
            texts == session.texts
        IN /\ Beginning(AllSaid(texts), LinesOf(files, "text"))
           /\ Beginning(Headings(texts), LinesOf(files, "head"))
           /\ session.ok => /\ LinesOf(files, "text") \subseteq AllSaid(texts)
                            /\ LinesOf(files, "head") \subseteq Headings(texts)
           /\ InOrder(texts)
           /\ \A k \in DOMAIN texts : IsSection(files, texts[k])

\* What is remembered of a long text is all of it, each part once.
IngestedWhole == SessionIsWhole /\ ImportIsWhole

=============================================================================
