------------------------- MODULE MCCommunicationObj -------------------------
(* CommunicationObj for TLC: the constants are in the .cfg files. *)
EXTENDS CommunicationObj
=============================================================================
