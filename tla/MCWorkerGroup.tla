--------------------------- MODULE MCWorkerGroup ----------------------------
(* Small instances of WorkerGroup for TLC. *)
EXTENDS WorkerGroup
=============================================================================
