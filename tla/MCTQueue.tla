------------------------------ MODULE MCTQueue ------------------------------
(* Instances of TQueue for TLC.  With FrontSlackMax = 3, Balance shifts    *)
(* several times within twelve pushes, from an empty and from a non-empty  *)
(* queue; the code's value is 64.                                          *)
EXTENDS TQueue
=============================================================================
