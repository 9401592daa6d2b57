---------------------------- MODULE MCCompaction ----------------------------
\* Module Compaction on a small store.
EXTENDS CompactionInv

Jobs  == {"compact", "recover", "undo", "restore", "abandon"}
Steps == {"journal", "write", "catalog", "index", "lexical", "manifest", "move",
          "commit", "delete", "markers", "archives", "clean", "restore",
          "remove", "finish"}

\* Any one step may fail, but for the transaction's own first save and the
\* rollback that runs while the caller keeps the engine.
SafeFaults == {f \in Jobs \X Steps : f[1] # "undo" /\ f # <<"compact", "journal">>}

\* Only the transaction's first save fails, once.
JournalFault == {<<"compact", "journal">>}
=============================================================================
