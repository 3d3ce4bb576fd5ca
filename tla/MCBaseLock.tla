----------------------------- MODULE MCBaseLock -----------------------------
(* Instances of BaseLock for TLC. *)
EXTENDS BaseLock

CONSTANTS l1, t1, t2, t3
=============================================================================
