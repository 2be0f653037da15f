--------------------------- MODULE MCSnifferClient ---------------------------
(* SnifferClient for TLC: the constants are in the .cfg files. *)
EXTENDS SnifferClient
=============================================================================
