--------------------------- MODULE MCCheckpoints ---------------------------
(* Instances of DurableCheckpoints for TLC.                                 *)
EXTENDS DurableCheckpoints
=============================================================================
