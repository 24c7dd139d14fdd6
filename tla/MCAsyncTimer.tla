---------------------------- MODULE MCAsyncTimer ----------------------------
(* Small instances of AsyncTimer for TLC. *)
EXTENDS AsyncTimer, TLC

(* Tasks are interchangeable. *)
Symmetry == Permutations(Tasks)
=============================================================================
