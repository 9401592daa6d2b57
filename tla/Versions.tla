------------------------------ MODULE Versions ------------------------------
(***************************************************************************)
(* What the store promises about versions of memory.  `stored` cells are   *)
(* on disk for good, `retired` ones are hidden from default recall, and    *)
(* `succ` relates a superseded cell to its replacement.  A replacement and *)
(* the retirement of what it replaces become durable together.             *)
(***************************************************************************)
EXTENDS Integers

VARIABLES stored, retired, succ

Init == stored = {} /\ retired = {} /\ succ = {}

Olds(rel) == {r[1] : r \in rel}

\* A batch of cells becomes durable; `repl` says which stored or new cell
\* each replacement among them supersedes, `marked` which of them arrive
\* already marked obsolete.
Persist(cells, repl, marked) ==
    /\ cells \cap stored = {}
    /\ \A r \in repl : r[2] \in cells /\ r[1] \in stored \cup cells /\ r[1] < r[2]
    /\ Olds(repl) \cap Olds(succ) = {}
    /\ \A r, q \in repl : r[1] = q[1] \/ r[2] = q[2] => r = q
    /\ stored' = stored \cup cells
    /\ marked \subseteq cells
    /\ retired' = retired \cup Olds(repl) \cup marked
    /\ succ' = succ \cup repl

Mark(c)   == c \in stored /\ retired' = retired \cup {c} /\ UNCHANGED <<stored, succ>>

\* A cell that has a successor stays retired.
Unmark(c) == c \in stored \ Olds(succ) /\ retired' = retired \ {c} /\ UNCHANGED <<stored, succ>>

Next ==
    \/ Persist(stored' \ stored, succ' \ succ, retired' \cap (stored' \ stored))
    \/ \E c \in stored : Mark(c) \/ Unmark(c)

Spec == Init /\ [][Next]_<<stored, retired, succ>>
==============================================================================
