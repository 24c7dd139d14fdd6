----------------------------- MODULE MCDatabase -----------------------------
(* Small instances of Database for TLC. *)
EXTENDS Database, TLC

(* The updates of a unit of work are interchangeable. *)
Symmetry == Permutations(Updates)
=============================================================================
