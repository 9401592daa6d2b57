----------------------------- MODULE MCHotStore -----------------------------
\* Module HotStore with every durability policy, and the crashes and I/O
\* errors that cannot leave the snapshot of an archived log behind.
EXTENDS HotStore

AllPolicies == {"fast", "balanced", "safe"}

Steps == {"none", "manifest", "dictionary", "append", "sync", "snapshot",
          "publish", "archive", "reset", "unsnap", "close"}

CrashAnywhereElse == Steps \ {"reset", "unsnap"}
FailAnywhereElse  == Steps \ {"unsnap"}

\* The process dies once the log is renamed and before the snapshot is gone.
CrashInArchive == {"reset", "unsnap"}
=============================================================================
