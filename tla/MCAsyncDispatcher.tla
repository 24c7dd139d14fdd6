------------------------- MODULE MCAsyncDispatcher --------------------------
(* Small instances of AsyncDispatcher for TLC. *)
EXTENDS AsyncDispatcher, TLC

(* Threads, dispatchers and tasks are interchangeable (safety runs only). *)
Symmetry ==
  Permutations(Threads) \union Permutations(Dispatchers) \union Permutations(Tasks)
=============================================================================
