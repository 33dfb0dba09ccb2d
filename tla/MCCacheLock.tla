---------------------------- MODULE MCCacheLock ----------------------------
(* Small instances of CacheLock. *)
EXTENDS CacheLock
=============================================================================
