------------------------- MODULE MCServerController -------------------------
(* Small instances of ServerController for TLC. *)
EXTENDS ServerController
=============================================================================
