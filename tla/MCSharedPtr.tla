---------------------------- MODULE MCSharedPtr -----------------------------
(* Small instances of SharedPtr for TLC. *)
EXTENDS SharedPtr, TLC

(* Threads, pointers and blocks are each interchangeable. *)
Symmetry == Permutations(Threads) \union Permutations(Pointers) \union Permutations(Blocks)
=============================================================================
