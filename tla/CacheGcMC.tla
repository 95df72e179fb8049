----------------------------- MODULE CacheGcMC -----------------------------
(***************************************************************************)
(* The instances of CacheMC with the history of CacheHistory.              *)
(***************************************************************************)
EXTENDS CacheMC, CacheHistory
=============================================================================
