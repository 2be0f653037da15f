---- MODULE MCCanBus ----
(* One bus; its constants are in the .cfg files. *)
EXTENDS CanBus
====
