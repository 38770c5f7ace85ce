--------------------------- MODULE MCSharedMutex ---------------------------
(* SharedMutex with small sets of threads; every value comes from the cfg.  *)
EXTENDS SharedMutex
=============================================================================
