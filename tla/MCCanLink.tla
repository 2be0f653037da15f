---- MODULE MCCanLink ----
(* Either bus; the descriptor numbers are in the .cfg file. *)
EXTENDS CanLink
====
