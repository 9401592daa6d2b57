----------------------------- MODULE Clusterers -----------------------------
(***************************************************************************)
(* The page builder and its two clusterers (crates/mge-core/src/pages.rs): *)
(* which cells end up in which sealed page, as functions of the cells.     *)
(* A page is a sequence of cells.  Module Pages keeps the part of this     *)
(* that the crash models need: Builds.                                     *)
(***************************************************************************)
EXTENDS Integers, SequencesExt

CONSTANTS
    Attr,           \* cell id -> [scope, kind, status, secret, tags, words, size]
    MaxCells,       \* PageBuildOptions.max_cells_per_page
    TargetBytes,    \* PageBuildOptions.target_page_bytes
    MinOverlap      \* MarkerOverlapClusterer.min_overlap

ASSUME BuilderAssumption ==
    /\ IsFiniteSet(DOMAIN Attr) /\ DOMAIN Attr = 1 .. Cardinality(DOMAIN Attr)
    /\ MaxCells \in Nat \ {0} /\ TargetBytes \in Nat \ {0} /\ MinOverlap \in Nat
    /\ \A c \in DOMAIN Attr :
          /\ Attr[c].scope \in Nat \ {0} /\ Attr[c].kind \in Nat \ {0}
          /\ IsFiniteSet(Attr[c].tags) /\ Attr[c].size \in Nat \ {0}

Clusterer == {"scope_kind", "marker_overlap"}     \* PageClustererKind

\* The markers a cell is indexed under, as far as recall asks for them.
MarkersOf ==
    [c \in DOMAIN Attr |->
        {<<"scope", Attr[c].scope>>, <<"kind", Attr[c].kind>>}
            \cup {<<"tag", t>> : t \in Attr[c].tags}]

Markers(cells) == UNION {MarkersOf[c] : c \in cells}

\* The members of a set in the order of the pairs R, a strict total order: the
\* i-th has i - 1 before it.
Sorted(S, R) ==
    [i \in 1 .. Cardinality(S) |->
        CHOOSE x \in S : Cardinality({y \in S : <<y, x>> \in R}) = i - 1]

Ascending(S) == Sorted(S, {p \in S \X S : p[1] < p[2]})

\* The elements of a sequence that are in a set.
Keep(seq, S) ==
    LET at == Ascending({i \in DOMAIN seq : seq[i] \in S})
    IN  [k \in DOMAIN at |-> seq[at[k]]]

\* f, and g where f says nothing.
Merge(f, g) == [x \in DOMAIN f \cup DOMAIN g |-> IF x \in DOMAIN f THEN f[x] ELSE g[x]]

-----------------------------------------------------------------------------
(* The groups.                                                             *)

\* (scope, kind) pairs, in the order of the BTreeMap.
Group(c) == <<Attr[c].scope, Attr[c].kind>>

Before(g, h) == g[1] < h[1] \/ (g[1] = h[1] /\ g[2] < h[2])

\* ScopeKindClusterer: one group per scope and kind, in the order given.
ByScopeKind(cells) ==
    LET groups == {Group(c) : c \in ToSet(cells)}
        keys   == Sorted(groups, {p \in groups \X groups : Before(p[1], p[2])})
    IN  [i \in DOMAIN keys |-> Keep(cells, {c \in ToSet(cells) : Group(c) = keys[i]})]

\* The cluster with the largest overlap; of equal ones the last (max_by_key).
BestCluster(clusters, c) ==
    LET Overlap(i) == Cardinality(MarkersOf[c] \cap Markers(ToSet(clusters[i])))
    IN  CHOOSE i \in DOMAIN clusters :
            \A j \in DOMAIN clusters :
                Overlap(j) < Overlap(i) \/ (Overlap(j) = Overlap(i) /\ j <= i)

Joins(clusters, c) ==
    clusters # <<>> /\
        Cardinality(MarkersOf[c] \cap Markers(ToSet(clusters[BestCluster(clusters, c)])))
            >= MinOverlap

\* MarkerOverlapClusterer: inside a group, a cell joins the cluster it shares
\* most markers with, or founds one.
AddToCluster(clusters, c) ==
    IF Joins(clusters, c)
    THEN [clusters EXCEPT ![BestCluster(clusters, c)] = Append(@, c)]
    ELSE Append(clusters, <<c>>)

ByMarkerOverlap(cells) ==
    FlattenSeq([i \in DOMAIN ByScopeKind(cells) |->
            FoldLeft(AddToCluster, <<>>, Ascending(ToSet(ByScopeKind(cells)[i])))])

-----------------------------------------------------------------------------
(* Pages of limited size.                                                  *)

Bytes(page) == FoldLeft(LAMBDA n, c : n + Attr[c].size, 0, page)

\* The page being filled is closed before a cell that does not fit.
IsFull(page, c) ==
    \/ Len(page) >= MaxCells
    \/ page # <<>> /\ Bytes(page) + Attr[c].size > TargetBytes

\* A mutant of AddToPage: the cell that does not fit is left out.
AddToPage_Loses(pages, c) ==
    IF IsFull(Last(pages), c) THEN Append(pages, <<>>)
                              ELSE Front(pages) \o <<Append(Last(pages), c)>>

AddToPage(pages, c) ==
    IF IsFull(Last(pages), c) THEN Append(pages, <<c>>)
                              ELSE Front(pages) \o <<Append(Last(pages), c)>>

\* split_group_by_limits.
SplitByLimits(group) == FoldLeft(AddToPage, <<<<>>>>, group)

\* build_pages_with_kind: the pages `first`, first + 1, ... of the sequence `cells`.
BuildPages(cells, clusterer, first) ==
    LET groups == IF clusterer = "scope_kind" THEN ByScopeKind(cells)
                                              ELSE ByMarkerOverlap(cells)
        pages  == FlattenSeq([i \in DOMAIN groups |-> SplitByLimits(groups[i])])
    IN  [p \in first .. first + Len(pages) - 1 |-> pages[p - first + 1]]
=============================================================================
