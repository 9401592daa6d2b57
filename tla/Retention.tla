------------------------------ MODULE Retention ------------------------------
(***************************************************************************)
(* What the store promises about the memory it holds: a cell stays stored  *)
(* until a compaction prunes it, a compaction prunes all the obsolete      *)
(* cells at once and nothing else, and takes their marks with them.        *)
(* Sealing, crashing, recovering and rolling back change nothing here.     *)
(***************************************************************************)
CONSTANTS Cell, Untyped

VARIABLES stored, over

Init == stored = {} /\ over = {}

Remember(c) == stored' = stored \cup {c} /\ UNCHANGED over

Mark(c) == c \in stored /\ over' = over \cup {c} /\ UNCHANGED stored

Unmark(c) == c \in stored /\ over' = over \ {c} /\ UNCHANGED stored

Obsolete == (over \cap stored) \ Untyped

Compact == stored' = stored \ Obsolete /\ over' = over \ Obsolete

Next == Compact \/ \E c \in Cell : Remember(c) \/ Mark(c) \/ Unmark(c)

Spec == Init /\ [][Next]_<<stored, over>>
==============================================================================
