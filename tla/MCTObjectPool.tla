--------------------------- MODULE MCTObjectPool ----------------------------
(* Small instances of TObjectPool for TLC. *)
EXTENDS TObjectPool, TLC

(* Threads and blocks are interchangeable (safety runs only). *)
Symmetry == Permutations(Threads) \union Permutations(Blocks)
=============================================================================
