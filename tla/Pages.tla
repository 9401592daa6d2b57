------------------------------- MODULE Pages --------------------------------
(***************************************************************************)
(* Page directories and the page builder (crates/mge-core/src/pages.rs).   *)
(* A directory maps page ids to the cells in the page file, {} when there  *)
(* is no file.  build_pages_with_kind makes no empty page.                 *)
(***************************************************************************)
EXTENDS Integers, FiniteSets

CellsIn(dir, ids) == UNION {dir[p] : p \in ids}

NoPages == [p \in {} |-> {}]

\* build_pages_with_kind: consecutive page ids from `first`, every cell in
\* exactly one page.  Which cells share a page is the clusterer's choice.
\* `limit` is the bound on page ids.
Builds(cells, first, limit) ==
    UNION {{b \in [first .. last -> (SUBSET cells) \ {{}}] :
                /\ CellsIn(b, first .. last) = cells
                /\ \A p, q \in first .. last : p # q => b[p] \cap b[q] = {}}
           : last \in first - 1 .. limit}

\* A mutant of NextAfter: the id after the highest is skipped.
NextAfter_Skips(b, first) == first + Cardinality(DOMAIN b) + 1

\* The next page id after a build: one past its highest, else unchanged.
NextAfter(b, first) == first + Cardinality(DOMAIN b)
=============================================================================
