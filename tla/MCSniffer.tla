----------------------------- MODULE MCSniffer -----------------------------
(* Sniffer for TLC: the constants are in the .cfg files. *)
EXTENDS Sniffer
=============================================================================
