------------------------------ MODULE Ranking -------------------------------
(***************************************************************************)
(* How recall orders the cells it has found: the score of a cell           *)
(* (crates/mge-core/src/retrieval.rs), the BM25 bonus for its words        *)
(* (hot.rs for hot cells, store.rs for sealed ones), the fusion of the     *)
(* order by score with the order by words, and the cut of the packet.      *)
(*                                                                         *)
(* Reals are thousandths; a text is the sequence of its tokens.            *)
(***************************************************************************)
EXTENDS Clusterers

CONSTANTS
    Idf,        \* Idf[n][df] = ln((n + 1) / (df + 0.5)), in thousandths
    MinPool     \* the least number of cells that are fused, 20 in the code

ASSUME RankingAssumption ==
    /\ MinPool \in Nat
    /\ \A n \in 1 .. Cardinality(DOMAIN Attr) : \A df \in 1 .. n : Idf[n][df] \in Nat \ {0}

-----------------------------------------------------------------------------
(* The score of a cell.                                                    *)

\* CachedCellScoringData: the tokens of the value and of the subject.
Words       == [c \in DOMAIN Attr |-> ToSet(Attr[c].text)]
Tokens      == [c \in DOMAIN Attr |-> Words[c] \cup Attr[c].subject]
DocumentLen == [c \in DOMAIN Attr |-> Cardinality(Words[c]) + Cardinality(Attr[c].subject)]
TokenCount  == [c \in DOMAIN Attr |-> Cardinality(Tokens[c])]

\* In how many of its two fields a cell has a token.
TermFrequency ==
    [c \in DOMAIN Attr |-> [t \in Tokens[c] |->
        IF t \in Words[c] \cap Attr[c].subject THEN 2 ELSE 1]]

TrustBonus ==
    [user_confirmed |-> 5, tool_observed |-> 4, system_generated |-> 2,
     agent_inferred |-> 1, external_untrusted |-> -3]

StatusBonus ==
    [active |-> 5, verified |-> 5, temporary |-> 0, unverified |-> -1,
     deprecated |-> -10, superseded |-> -10, rejected |-> -100]

\* The sensitivity penalty; every other sensitivity is taken as public.
Penalty(c) == IF Attr[c].secret THEN 100 ELSE 0

\* The status is the one a cell was remembered with.
Standing(c) == TrustBonus[Attr[c].trust] + StatusBonus[Attr[c].status] - Penalty(c)

\* What a cell has to do with a query of the markers `ms` and the text `query`.
Relevance(c, ms, query) ==
    LET overlap == Cardinality(Words[c] \cap ToSet(query))
    IN  10 * Cardinality(ms \cap MarkersOf[c])
          + (IF Attr[c].subject # {} /\ Attr[c].subject \subseteq ToSet(query) THEN 5 ELSE 0)
          + 3 * (IF overlap > 3 THEN 3 ELSE overlap)
          + (IF Attr[c].text # <<>> /\ Attr[c].text = query THEN 3 ELSE 0)

-----------------------------------------------------------------------------
(* The evidence of words.                                                  *)

\* BM25 with k1 = 1.2 and b = 0.75 of the terms among the documents `docs`,
\* where `tf` is how often a cell has a term and `length` the tokens it has.
BM25(c, terms, docs, tf, length) ==
    LET n      == Cardinality(docs)
        sum    == MapThenSumSet(LAMBDA d : length[d], docs)
        total  == IF sum < n THEN n ELSE sum        \* the average is at least 1
        df(t)  == Cardinality({d \in docs : t \in Tokens[d]})
        Weight(t) == (Idf[n][df(t)] * 22 * tf[c][t] * total)
                       \div ((10 * tf[c][t] + 3) * total + 9 * length[c] * n)
    IN  MapThenSumSet(Weight, terms \cap Tokens[c])

Once == [c \in DOMAIN Attr |-> [t \in Tokens[c] |-> 1]]

\* Eight times the evidence, rounded, and 4 for a cell with all of the terms.
Bonus(c, terms, docs, length) ==
    (8 * BM25(c, terms, docs, Once, length) + 500) \div 1000
        + (IF terms \subseteq Tokens[c] THEN 4 ELSE 0)

Matching(cells, terms) == {c \in cells : Tokens[c] \cap terms # {}}

\* HotMemoryLayer::lexical_scores, of the hot cells the filter leaves.
HotBonus(docs, terms) ==
    [c \in Matching(docs, terms) |->
        Bonus(c, terms, docs, TokenCount)]

\* apply_lexical_rerank_scores, of the sealed cells recall has found.
SealedBonus(cells, terms) ==
    LET docs == Matching(cells, terms)
    IN  [c \in docs |-> Bonus(c, terms, docs, DocumentLen)]

-----------------------------------------------------------------------------
(* The order.  A handle is a ranked cell: its id, its score, the part of   *)
(* the score that is for its words, and the evidence of its words in the   *)
(* whole store.                                                            *)

\* What cells are sorted by: a larger key first.
Key(h) == <<h.score, h.lexical, Attr[h.cell].time, -h.cell>>

Ahead(h, k) ==
    LET m == Key(h)
        n == Key(k)
    IN  \E i \in 1 .. 4 : m[i] > n[i] /\ \A j \in 1 .. i - 1 : m[j] = n[j]

InOrder(rank) == Sorted(rank, {p \in rank \X rank : Ahead(p[1], p[2])})

\* How many of the first cells are fused.
PoolLen(seq, max) ==
    LET least == IF max < MinPool THEN MinPool ELSE max
    IN  IF Len(seq) < least THEN Len(seq) ELSE least

\* A mutant of WordRank: the rank is counted from the wrong end.
WordRank_Reversed(pool, i) ==
    Cardinality({j \in DOMAIN pool : \/ pool[j].evidence < pool[i].evidence
                                     \/ pool[j].evidence = pool[i].evidence /\ j < i})

\* The rank by words, from 0, of the i-th cell of the pool.
WordRank(pool, i) ==
    Cardinality({j \in DOMAIN pool : \/ pool[j].evidence > pool[i].evidence
                                     \/ pool[j].evidence = pool[i].evidence /\ j < i})

\* The sum of 1 / (61 + rank) over the rank by score and the rank by words.
Fusion(pool, i) ==
    LET a == 60 + i
        b == 61 + WordRank(pool, i)
    IN  [num |-> a + b, den |-> a * b]

\* The larger sum first; equal ones stay in order.
Leads(pool, i, j) ==
    LET f == Fusion(pool, i)
        g == Fusion(pool, j)
    IN  \/ f.num * g.den > g.num * f.den
        \/ f.num * g.den = g.num * f.den /\ i < j

\* apply_global_lexical_rank_fusion: the first cells, by that sum.
Fused(seq, max) ==
    LET n     == PoolLen(seq, max)
        pool  == SubSeq(seq, 1, n)
        order == Sorted(1 .. n, {p \in (1 .. n) \X (1 .. n) : Leads(pool, p[1], p[2])})
    IN  [i \in DOMAIN seq |-> IF i <= n THEN seq[order[i]] ELSE seq[i]]

\* min_score
Scores(h, r) == \A m \in r.minScore : h.score >= m

\* The first of a ranking, without what scores too little.
Cut(seq, r) ==
    LET good == Keep(seq, {h \in ToSet(seq) : Scores(h, r)})
    IN  SubSeq(good, 1, IF Len(good) < r.max THEN Len(good) ELSE r.max)
=============================================================================
