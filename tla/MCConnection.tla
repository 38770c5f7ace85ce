---------------------------- MODULE MCConnection ----------------------------
(* Connection with a few failures and buffers; every value comes from the   *)
(* cfg.  The state space is finite: sessions and servers only grow when     *)
(* something fails.                                                         *)
EXTENDS Connection
=============================================================================
