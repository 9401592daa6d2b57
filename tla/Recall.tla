------------------------------- MODULE Recall -------------------------------
(***************************************************************************)
(* MemoryEngine::recall (crates/mge-core/src/store.rs) over hot and sealed *)
(* memory: the runtime indexes of the hot layer (hot.rs), the candidate    *)
(* page index (indexes.rs), page pruning by catalog summaries, the policy  *)
(* filters (retrieval.rs, security.rs), the ranking (module Ranking) and   *)
(* the decoded page cache, beside the calls that change what recall reads. *)
(***************************************************************************)
EXTENDS Ranking

CONSTANTS
    Requests,       \* the recall requests that can be made
    IndexKinds,     \* the index kinds a store may be created with
    Ghosts,         \* markers a binary fuse filter may report falsely
    CacheCapacity,  \* DECODED_PAGE_CACHE_CAPACITY
    MaxPage,        \* bound: page ids are 1 .. MaxPage
    Overrides,      \* the statuses cells are marked with
    MaxOver         \* bound: cells with a status override

Cell   == DOMAIN Attr
PageId == 1 .. MaxPage
Status == {"active", "temporary", "unverified", "verified",
           "deprecated", "superseded", "rejected"}
Marker == {"scope", "kind"} \X Nat \cup {<<"tag", t>> : t \in Ghosts}
              \cup Markers(Cell)

ASSUME RecallAssumption ==
    /\ IndexKinds \subseteq {"exact", "fuse"}
    /\ Overrides \subseteq {"deprecated", "rejected", "superseded"}
    /\ CacheCapacity \in Nat /\ MaxPage \in Nat /\ MaxOver \in Nat
    /\ \A c \in Cell :
          /\ Attr[c].status \in Status /\ Attr[c].trust \in DOMAIN TrustBonus
          /\ Attr[c].secret \in BOOLEAN /\ Attr[c].time \in Nat
          /\ IsFiniteSet(ToSet(Attr[c].text)) /\ IsFiniteSet(Attr[c].subject)
    /\ \A r \in Requests : r.max \in Nat

VARIABLES
    born,       \* the cells remembered so far: 1 .. born
    hot,        \* HotMemoryLayer
    page,       \* the sealed pages of the catalog: page id -> its cells
    index,      \* page id -> the markers its filter answers yes for
    next,       \* next_page_id
    dict,       \* markers in the dictionary
    over,       \* status_overrides
    kind,       \* index_kind
    clusterer,  \* page_clusterer
    cache,      \* DecodedPageCache.pages
    order       \* DecodedPageCache.order, oldest first

store == <<born, hot, page, index, next, dict, over, kind, clusterer>>
vars  == <<store, cache, order>>

CellsOf(p) == ToSet(page[p])
Sealed     == UNION {CellsOf(p) : p \in DOMAIN page}
Stored     == hot \cup Sealed

\* effective_status
Effective(c) == IF c \in DOMAIN over THEN over[c] ELSE Attr[c].status

-----------------------------------------------------------------------------
(* What a request allows.                                                  *)

\* What a request may ask for besides the cells in force.
Retired == {"deprecated", "superseded"}

\* RecallPolicy::from_capabilities
Grants == [include_deprecated |-> "deprecated", include_rejected |-> "rejected",
           read_secret_references |-> "secret"]

FromCapabilities(capabilities) == {Grants[c] : c \in capabilities}

\* RecallRequest::effective_policy: by its policy, by the capabilities of the
\* agent, or by flags of its own; the one for deprecated cells brings the
\* rejected ones as well.
EffectivePolicy(r) ==
    r.policy \cup FromCapabilities(r.capabilities) \cup r.flags
        \cup (IF "deprecated" \in r.flags THEN {"rejected"} ELSE {})

\* allowed_statuses_for_policy
Allowed(policy) ==
    {"active", "temporary", "unverified", "verified"}
        \cup (IF "deprecated" \in policy THEN Retired ELSE {})
        \cup (policy \cap {"rejected"})

\* PagePruneContext::new says the same again, of pages.
PruneContext(policy) ==
    [statuses |-> Status \ ((IF "deprecated" \in policy THEN {} ELSE Retired)
                                \cup ({"rejected"} \ policy)),
     secret   |-> IF "secret" \in policy THEN BOOLEAN ELSE {FALSE}]

\* RecallPolicy::permits_cell says what is refused.
Refuses(policy, status, secret) ==
    \/ "deprecated" \notin policy /\ status \in Retired
    \/ "rejected" \notin policy /\ status = "rejected"
    \/ "secret" \notin policy /\ secret

\* A request with its markers as ids: one the dictionary lacks is dropped.
Resolve(r) ==
    LET scope    == IF r.scope = 0 THEN {} ELSE {<<"scope", r.scope>>} \cap dict
        required == scope \cup (IF r.kind = 0 THEN {} ELSE {<<"kind", r.kind>>} \cap dict)
        explicit == {<<"tag", t>> : t \in r.explicit} \cap dict
        tags     == {<<"tag", t>> : t \in ToSet(r.query)} \cap dict
    IN  [req |-> r, terms |-> ToSet(r.query), policy |-> EffectivePolicy(r),
         scope |-> scope, required |-> required,
         explicit |-> explicit, queried |-> required \cup explicit \cup tags]

Queries == {Resolve(r) : r \in Requests}

\* A mutant of EffectivePermits: the override is not consulted.
EffectivePermits_Original(c, q) == ~Refuses(q.policy, Attr[c].status, Attr[c].secret)

\* effective_policy_permits_cell: the status in force.
EffectivePermits(c, q) == ~Refuses(q.policy, Effective(c), Attr[c].secret)

\* RecallPolicy::permits_cell: the status the cell was remembered with.
PolicyPermits(c, q) == ~Refuses(q.policy, Attr[c].status, Attr[c].secret)

InScopeAndKind(c, r) ==
    /\ r.scope # 0 => Attr[c].scope = r.scope
    /\ r.kind # 0 => Attr[c].kind = r.kind

\* RecallFilterContext::permits_cell
FilterPermits(c, q) ==
    /\ InScopeAndKind(c, q.req)
    /\ q.scope \subseteq MarkersOf[c]
    /\ q.explicit # {} => q.explicit \cap MarkersOf[c] # {}
    /\ PolicyPermits(c, q)

\* score_permitted_cell_debug gives no score to a cell nothing matches.
Relevant(c, q) == q.req.mode = "full" \/ Relevance(c, q.queried, q.req.query) > 0

Ranks(c, q) == EffectivePermits(c, q) /\ FilterPermits(c, q) /\ Relevant(c, q)

-----------------------------------------------------------------------------
(* Candidates.                                                             *)

\* Of the things that hold markers, those that hold all or any of `ms`.
HasAll(holds, ms) == {x \in DOMAIN holds : ms \subseteq holds[x]}
HasAny(holds, ms) == {x \in DOMAIN holds : ms \cap holds[x] # {}}

\* A mutant of Select: broad and full-scope queries intersect as well.
Select_Intersects(holds, ms, mode) ==
    IF HasAll(holds, ms) # {} THEN HasAll(holds, ms) ELSE HasAny(holds, ms)

\* PreferIntersection for focused recall, else Union.
Select(holds, ms, mode) ==
    IF mode = "focused" /\ HasAll(holds, ms) # {}
    THEN HasAll(holds, ms) ELSE HasAny(holds, ms)

\* The hot cells the indexes of scope, kind and status leave.
HotAllowed(q) ==
    {c \in hot : InScopeAndKind(c, q.req) /\ Attr[c].status \in Allowed(q.policy)}

\* lexical_scores, kept for the cells recall may return.
HotLexical(q) ==
    LET bonus == HotBonus(HotAllowed(q), q.terms)
        kept  == {c \in DOMAIN bonus : FilterPermits(c, q) /\ EffectivePermits(c, q)}
    IN  IF q.req.mode = "full" THEN [c \in {} |-> 0] ELSE [c \in kept |-> bonus[c]]

HotMarkers == [c \in hot |-> MarkersOf[c]]

\* marker_candidates and combine_candidate_ids: words narrow what focused
\* recall finds by markers, and add to what the other modes find.
Combine(byMarker, byWords, mode) ==
    IF mode = "focused" THEN byMarker \cap byWords ELSE byMarker \cup byWords

\* candidate_ids, with the markers recall hands it.
HotCandidates(q, lexical) ==
    LET lex      == DOMAIN lexical
        mode     == q.req.mode
        ms       == IF lex = {} \/ mode = "focused" THEN q.queried ELSE q.explicit
        byMarker == Select(HotMarkers, ms, mode)
        chosen   == CASE ms = {} /\ lex = {}  -> hot
                      [] ms = {}              -> lex
                      [] lex = {}             -> byMarker
                      [] OTHER                -> Combine(byMarker, lex, mode)
    IN  chosen \cap HotAllowed(q)

\* ExactMarkerPageIndex: the pages of each marker, and what they say of a query.
Postings(idx, m) == {p \in DOMAIN idx : m \in idx[p]}

ExactQuery(idx, ms, mode) ==
    LET every == {p \in DOMAIN idx : \A m \in ms : p \in Postings(idx, m)}
    IN  IF mode = "focused" /\ every # {} THEN every
                                        ELSE UNION {Postings(idx, m) : m \in ms}

\* BinaryFusePageIndex: the pages whose filters say that they hold the markers.
FuseQuery(idx, ms, mode) == Select(idx, ms, mode)

\* The candidate page index; without a marker there is no page query.
PageCandidates(idx, q) ==
    IF q.queried = {} THEN {}
    ELSE IF kind = "exact" THEN ExactQuery(idx, q.queried, q.req.mode)
                           ELSE FuseQuery(idx, q.queried, q.req.mode)

Summary(p) == Markers(CellsOf(p))

\* A mutant of Prunes: a page goes when one of the queried markers is absent.
Prunes_AnyAbsent(p, q) ==
    LET has    == Summary(p)
        allows == PruneContext(q.policy)
    IN  \/ ~(q.required \subseteq has)
        \/ q.explicit # {} /\ q.explicit \cap has = {}
        \/ \A c \in CellsOf(p) : Attr[c].status \notin allows.statuses
        \/ \A c \in CellsOf(p) : Attr[c].secret \notin allows.secret
        \/ ~(q.queried \subseteq has)

\* should_prune_candidate_page, on the summaries written with the page.
Prunes(p, q) ==
    LET has    == Summary(p)
        allows == PruneContext(q.policy)
    IN  \/ ~(q.required \subseteq has)
        \/ q.explicit # {} /\ q.explicit \cap has = {}
        \/ \A c \in CellsOf(p) : Attr[c].status \notin allows.statuses
        \/ \A c \in CellsOf(p) : Attr[c].secret \notin allows.secret
        \/ q.queried # {} /\ q.queried \cap has = {}

\* The pages recall reads, in ascending order.
Loaded(q) == Ascending({p \in PageCandidates(index, q) : ~Prunes(p, q)})

-----------------------------------------------------------------------------
(* The decoded page cache.                                                 *)

\* DecodedPageCache::touch
Touch(ord, p) == Append(Keep(ord, ToSet(ord) \ {p}), p)

\* DecodedPageCache::insert: at most one page is over the capacity.
CacheInsert(k, p, cells) ==
    LET pages == [q \in DOMAIN k.pages \cup {p} |-> IF q = p THEN cells ELSE k.pages[q]]
        ord   == Touch(k.order, p)
        out   == IF Cardinality(DOMAIN pages) > CacheCapacity THEN {Head(ord)} ELSE {}
    IN  IF CacheCapacity = 0 THEN [pages |-> k.pages, order |-> k.order]
        ELSE [pages |-> [q \in DOMAIN pages \ out |-> pages[q]],
              order |-> Keep(ord, ToSet(ord) \ out)]

\* read_page_with_timing_cached
ReadPage(k, p) ==
    IF p \in DOMAIN k.pages
    THEN [pages |-> k.pages, order |-> Touch(k.order, p), found |-> k.found \cup ToSet(k.pages[p])]
    ELSE LET in == CacheInsert(k, p, page[p])
         IN  [pages |-> in.pages, order |-> in.order, found |-> k.found \cup CellsOf(p)]

\* The candidate pages in ascending order, through the cache.
ReadPages(q) ==
    FoldLeft(ReadPage, [pages |-> cache, order |-> order, found |-> {}], Loaded(q))

NoCache == [p \in {} |-> <<>>]

\* A mutant of ClearCaches: the decoded pages are forgotten about.
ClearCaches_NotPages == UNCHANGED <<cache, order>>

\* clear_runtime_page_caches
ClearCaches == cache' = NoCache /\ order' = <<>>

-----------------------------------------------------------------------------
(* Recall.                                                                 *)

\* A ranked cell, with the bonuses for words that cells have.
Handle(c, q, bonus, evidence) ==
    LET lexical == IF c \in DOMAIN bonus THEN bonus[c] ELSE 0
    IN  [cell     |-> c,
         score    |-> Relevance(c, q.queried, q.req.query) + Standing(c) + lexical,
         lexical  |-> lexical,
         evidence |-> evidence]

FullHandle(c) == [cell |-> c, score |-> Standing(c), lexical |-> 0, evidence |-> 0]

\* Hot and sealed cells that rank get the bonus for their words each among
\* their own; what the words say in the whole store counts only while no hot
\* cell is ranked.
Handles(fromHot, found, bonus, q) ==
    LET Evidence(c) == IF fromHot # {} THEN 0
                       ELSE BM25(c, q.terms, Stored, TermFrequency, DocumentLen)
    IN  IF q.req.mode = "full"
        THEN {FullHandle(c) : c \in fromHot \cup found}
        ELSE {Handle(c, q, bonus, Evidence(c)) : c \in fromHot \cup found}

\* The cells ranked for a request when the pages read hold `sealed`.
RankedWith(q, found, lexical) ==
    Handles({c \in HotCandidates(q, lexical) : Ranks(c, q)}, found,
            Merge(lexical, SealedBonus(found, q.terms)), q)

Ranked(q, sealed) == RankedWith(q, {c \in sealed : Ranks(c, q)}, HotLexical(q))

\* apply_global_lexical_rank_fusion returns early otherwise.
Fuses(rank, q) ==
    q.req.mode # "full" /\ q.terms # {} /\ \A h \in rank : h.cell \notin hot

\* build_context_packet_from_ranked_handles: the first max_items in the final
\* order; full-scope recall has no limit.
Packet(rank, q) ==
    CASE q.req.mode = "full" -> InOrder(rank)
      [] Fuses(rank, q)      -> Cut(Fused(InOrder(rank), q.req.max), q.req)
      [] OTHER               -> Cut(InOrder(rank), q.req)

\* Full-scope recall without a scope is InvalidInput.
Valid(r) == r.mode = "full" => r.scope # 0

\* What recall finds, and what it answers.
Found(q)  == Ranked(q, ReadPages(q).found)
Answer(q) == Packet(Found(q), q)

Items(packet) == {packet[i].cell : i \in DOMAIN packet}

\* All that recall changes is the page cache.
RecallStep(q) ==
    /\ Valid(q.req)
    /\ LET read == ReadPages(q) IN cache' = read.pages /\ order' = read.order
    /\ UNCHANGED store

-----------------------------------------------------------------------------
(* The calls that change what recall reads.                                *)

Init ==
    /\ born = 0 /\ hot = {} /\ page = NoCache /\ index = [p \in {} |-> {}]
    /\ next = 1 /\ dict = {} /\ over = [c \in {} |-> "active"]
    /\ kind \in IndexKinds /\ clusterer \in Clusterer
    /\ cache = NoCache /\ order = <<>>

\* remember: the markers enter the dictionary, the cell the hot indexes.
Remember ==
    /\ born + 1 \in Cell
    /\ born' = born + 1 /\ hot' = hot \cup {born + 1}
    /\ dict' = dict \cup MarkersOf[born + 1]
    /\ UNCHANGED <<page, index, next, over, kind, clusterer, cache, order>>

\* set_status_override (and the override that supersede leaves).
Mark(c, s) ==
    /\ c \in Stored /\ (c \in DOMAIN over => over[c] # s)
    /\ Cardinality(DOMAIN over \cup {c}) <= MaxOver
    /\ over' = [d \in DOMAIN over \cup {c} |-> IF d = c THEN s ELSE over[d]]
    /\ UNCHANGED <<born, hot, page, index, next, dict, kind, clusterer, cache, order>>

Unmark(c) ==
    /\ c \in DOMAIN over
    /\ over' = [d \in DOMAIN over \ {c} |-> over[d]]
    /\ UNCHANGED <<born, hot, page, index, next, dict, kind, clusterer, cache, order>>

\* A mutant of Indexes: they are built from the pages of the old catalog.
Indexes_Before(pages) == {[p \in DOMAIN page |-> Summary(p)]}

\* A mutant of Indexes: the filters hold the tags only.
Indexes_TagsOnly(pages) ==
    {[p \in DOMAIN pages |-> {m \in Markers(ToSet(pages[p])) : m[1] = "tag"}]}

\* ExactMarkerPageIndex is built from the page summaries.
ExactIndex(pages) == [p \in DOMAIN pages |-> Markers(ToSet(pages[p]))]

\* BinaryFusePageIndex has a filter per page that never misses a marker and
\* may report another one.
FuseIndexes(pages) ==
    {ExactIndex(pages)}
        \cup {[ExactIndex(pages) EXCEPT ![p] = @ \cup {<<"tag", g>>}] :
                  p \in DOMAIN pages, g \in Ghosts}

Indexes(pages) == IF kind = "exact" THEN {ExactIndex(pages)} ELSE FuseIndexes(pages)

\* The new pages are in the catalog and in the index.
Publish(built, all) ==
    /\ DOMAIN built \subseteq PageId
    /\ page' = all /\ index' \in Indexes(all)
    /\ next' = next + Cardinality(DOMAIN built)

\* The last pages of all enter the cache.
Warm(pages, ids) ==
    FoldLeft(LAMBDA k, p : CacheInsert(k, p, pages[p]), [pages |-> cache, order |-> order],
             SubSeq(ids, IF Len(ids) > CacheCapacity THEN Len(ids) - CacheCapacity + 1 ELSE 1,
                    Len(ids)))

\* seal: every hot cell into new pages.
Seal ==
    LET built == BuildPages(Ascending(hot), clusterer, next)
    IN  /\ hot # {} /\ hot' = {}
        /\ Publish(built, Merge(built, page))
        /\ LET warm == Warm(page', Ascending(DOMAIN page'))
           IN  cache' = warm.pages /\ order' = warm.order
        /\ UNCHANGED <<born, dict, over, kind, clusterer>>

\* compact(apply) of a store whose hot memory is sealed (it seals first):
\* the retired cells go, the others are packed into new pages, the caches
\* are cleared and the dictionary keeps the markers still in use.
Compact ==
    LET gone  == {c \in Sealed : Effective(c) \in {"deprecated", "rejected", "superseded"}}
        kept  == FlattenSeq([i \in 1 .. next - 1 |->
                     IF i \in DOMAIN page
                     THEN Keep(page[i], Cell \ gone) ELSE <<>>])
        built == BuildPages(kept, clusterer, next)
    IN  /\ hot = {} /\ gone # {} /\ Publish(built, built)
        /\ over' = [c \in DOMAIN over \ gone |-> over[c]]
        /\ dict' = Markers(Sealed \ gone)
        /\ ClearCaches
        /\ UNCHANGED <<born, hot, kind, clusterer>>

\* update_storage_config with another clusterer: later pages follow it.
SwitchClusterer(k) ==
    /\ k # clusterer /\ clusterer' = k
    /\ UNCHANGED <<born, hot, page, index, next, dict, over, kind, cache, order>>

\* The engine is dropped and opened again: the caches start empty.
Reopen ==
    /\ ClearCaches
    /\ UNCHANGED store

Next ==
    \/ Remember \/ Seal \/ Compact \/ Reopen
    \/ \E c \in Cell, s \in Overrides : Mark(c, s)
    \/ \E c \in Cell : Unmark(c)
    \/ \E k \in Clusterer : SwitchClusterer(k)
    \/ \E q \in Queries : RecallStep(q)

Spec == Init /\ [][Next]_vars

-----------------------------------------------------------------------------
(* Properties.                                                             *)

TypeOK ==
    /\ born \in Nat /\ hot \subseteq Cell /\ next \in 1 .. MaxPage + 1
    /\ DOMAIN page \subseteq PageId /\ DOMAIN index = DOMAIN page
    /\ \A p \in DOMAIN page : page[p] \in Seq(Cell) /\ index[p] \subseteq Marker
    /\ dict \subseteq Marker
    /\ DOMAIN over \subseteq Cell /\ \A c \in DOMAIN over : over[c] \in Status
    /\ \A p \in DOMAIN cache : cache[p] \in Seq(Cell)

\* A request asks for something by one of three routes.
Asks(r, what) ==
    what \in r.policy \cup r.flags \/ \E c \in r.capabilities : Grants[c] = what

\* What a packet may hold, whatever path a cell took into it (hot index, page
\* on disk, page in the cache) and whenever it was retired: only stored cells
\* of the requested scope and kind; a cell that is retired now, rejected or a
\* secret only if the request, its policy or a capability asks for such.
OnlyPermitted ==
    \A q \in Queries : Valid(q.req) => \A c \in Items(Answer(q)) :
        /\ c \in Stored
        /\ InScopeAndKind(c, q.req)
        /\ Effective(c) \in Retired => Asks(q.req, "deprecated")
        /\ Effective(c) = "rejected" => Asks(q.req, "rejected") \/ "deprecated" \in q.req.flags
        /\ Attr[c].secret => Asks(q.req, "secret")

\* That a packet holds the best `max` of the ranked cells `good`, in order.
BestOf(good, packet, max, fused) ==
    LET items == ToSet(packet)
        Beats(h, k) == Ahead(h, k) /\ (fused => h.evidence >= k.evidence)
    IN  /\ items \subseteq good /\ Len(packet) = Cardinality(items)
        /\ Len(packet) = max \/ items = good
        /\ \A i \in DOMAIN packet : \A h \in good :
             Beats(h, packet[i]) => \E j \in 1 .. i - 1 : packet[j] = h

\* The packet has room for max_items, and a cell that is better by score and
\* by words than another is never placed behind it or left out for it, however
\* the two orders are fused; what scores below min_score is not in it.
PacketIsBest ==
    \A q \in Queries : q.req.mode # "full" =>
        LET rank == Found(q)
        IN  BestOf({h \in rank : Scores(h, q.req)}, Packet(rank, q), q.req.max, Fuses(rank, q))

\* Full-scope recall returns every permitted cell of the scope, hot or
\* sealed, cached or not, by either index and however the pages were built.
FullScopeComplete ==
    \A q \in Queries : q.req.mode = "full" /\ q.req.scope # 0 =>
        Items(Answer(q)) = {c \in Stored : EffectivePermits(c, q) /\ FilterPermits(c, q)}

\* What page recall promises to look at: focused recall every cell that has all
\* queried markers, the other modes every cell that has one of them.
Sought(c, q) ==
    IF q.req.mode = "focused" THEN q.queried # {} /\ q.queried \subseteq MarkersOf[c]
                              ELSE q.queried \cap MarkersOf[c] # {}

\* A page that recall does not read, because the index does not offer it or the
\* summaries of its cells exclude it (should_prune_candidate_page), has no cell
\* that ranks among those sought.  What the summaries alone exclude has none at
\* all if it shares a queried marker.  Index and summaries were written with
\* the page and overrides came later.
PruningIsSafe ==
    \A q \in Queries : \A p \in DOMAIN page \ ToSet(Loaded(q)) : \A c \in CellsOf(p) :
        Sought(c, q) \/ (Prunes(p, q) /\ q.queried \cap Summary(p) # {}) => ~Ranks(c, q)

\* The page cache is never stale, however page ids come and go, stays within
\* its capacity, and holds the pages read last after any recall.
CacheIsLru ==
    /\ \A p \in DOMAIN cache : p \in DOMAIN page /\ cache[p] = page[p]
    /\ ToSet(order) = DOMAIN cache /\ Len(order) = Cardinality(DOMAIN cache)
    /\ Len(order) <= CacheCapacity
    /\ \A q \in Queries :
         LET read  == Loaded(q)
             after == ReadPages(q).order
             n     == IF Len(read) < CacheCapacity THEN Len(read) ELSE CacheCapacity
         IN  SubSeq(after, Len(after) - n + 1, Len(after))
               = SubSeq(read, Len(read) - n + 1, Len(read))

\* Every build puts each cell into exactly one page and makes no empty one, as
\* Pages!Builds assumes; its pages have one scope and kind, and exceed a limit
\* only with a single cell.
BuildsFit ==
    [][page' # page =>
        LET new   == {p \in DOMAIN page' : p >= next}
            Held(p) == ToSet(page'[p])
            cells == IF hot # {} THEN hot
                     ELSE {c \in Sealed : Effective(c) \notin {"deprecated", "rejected", "superseded"}}
        IN  /\ new = next .. next' - 1 /\ UNION {Held(p) : p \in new} = cells
            /\ \A p, q \in new : p # q => Held(p) \cap Held(q) = {}
            /\ \A p \in new :
                 /\ Len(page'[p]) \in 1 .. MaxCells
                 /\ Len(page'[p]) = 1 \/ Bytes(page'[p]) <= TargetBytes
                 /\ \A c, d \in Held(p) : Attr[c].scope = Attr[d].scope
                                           /\ Attr[c].kind = Attr[d].kind]_vars

\* The binary fuse index may offer extra pages.  It withholds one the exact
\* index offers only in focused recall, and only when a page it offers is a
\* false positive: one such page in the intersection is enough to suppress
\* the fall-back to the union (BinaryFusePageIndex::query_with_mode).
FuseMissesOnlyFocused ==
    \A q \in Queries :
        LET offered == PageCandidates(index, q)
        IN  \/ q.queried = {}
            \/ ExactQuery(ExactIndex(page), q.queried, q.req.mode) \subseteq offered
            \/ q.req.mode = "focused" /\ \E p \in offered : index[p] # Summary(p)
=============================================================================
