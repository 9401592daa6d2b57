--------------------------- MODULE MCSupersession ---------------------------
(* Module Supersession as the programs use it, and under a host.            *)
EXTENDS Supersession

Mode(per_call, policy, fails) == [per_call |-> per_call, policy |-> policy, fails |-> fails]

\* Any step may fail but the fsync.
FailButSync == {"intent", "remember", "save", "append", "final"}

\* An engine per call under the policies that sync what a call wrote, and one
\* that is kept under the safe policy.
SyncedModes == {Mode(TRUE, "balanced", FailButSync), Mode(TRUE, "safe", FailButSync),
                Mode(FALSE, "safe", {"final"})}

\* An engine that is kept under the balanced policy.
KeptModes == {Mode(FALSE, "balanced", {})}
=============================================================================
