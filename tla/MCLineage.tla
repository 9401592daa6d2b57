----------------------------- MODULE MCLineage -----------------------------
EXTENDS Lineage

\* In scope 1 cells without a link, with one that another cell may have or
\* get, and with one that none gets; in scope 2 temporary cells.
MCRequests ==
    {[scope |-> 1, status |-> "active", links |-> ls, explicit |-> {}] :
        ls \in {{}, {1}, {2}, {MaxId + 1}}}
    \cup {[scope |-> 2, status |-> "temporary", links |-> {}, explicit |-> {}]}

\* 4 is longer than a chunk may be, and 0 has no content.
Turns == {<<1, 1, 1>>, <<2, 1, 1>>, <<1, 2>>, <<1, 4, 1>>, <<4, 2>>, <<1, 0>>}

MCSessions ==
    {[turns |-> t, options |-> [max_turns |-> n, max_bytes |-> 3],
      request |-> [scope |-> 2, status |-> "active", links |-> {}, explicit |-> {}]] :
        t \in Turns, n \in {0, 1, 2}}

Entry(type, lines) == [type |-> type, lines |-> lines]

\* Text before the first heading, headings with and without text, and a file
\* without either among other entries.
MCImports ==
    {[entries |-> e, request |-> [scope |-> 2, status |-> "active", links |-> {}, explicit |-> {}]] :
        e \in {<<Entry("other", <<>>)>>, <<Entry("markdown", <<"blank">>)>>,
               <<Entry("markdown", <<"text", "head", "blank", "text", "text">>)>>,
               <<Entry("markdown", <<"head", "head", "text">>), Entry("markdown", <<"blank">>),
                 Entry("symlink", <<>>), Entry("markdown", <<"text">>)>>}}
=============================================================================
