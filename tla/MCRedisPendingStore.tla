------------------------ MODULE MCRedisPendingStore ------------------------
(* Small instances of RedisPendingStore for TLC. *)
EXTENDS RedisPendingStore
=============================================================================
