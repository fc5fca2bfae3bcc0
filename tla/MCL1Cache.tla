----------------------------- MODULE MCL1Cache -----------------------------
(* L1Cache on a few threads, keys and nodes.                               *)
EXTENDS L1Cache
=============================================================================
