---------------------------- MODULE MCCacheRing ----------------------------
(* CacheRing for TLC: the constants are in the .cfg files. *)
EXTENDS CacheRing
=============================================================================
