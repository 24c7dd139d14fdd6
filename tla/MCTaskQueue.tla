---------------------------- MODULE MCTaskQueue -----------------------------
(* Small instance of TaskQueue for TLC: three nodes and four pushes, so    *)
(* that every queue position is reached with fresh and with reused nodes.  *)
EXTENDS TaskQueue
=============================================================================
