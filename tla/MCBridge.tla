------------------------------ MODULE MCBridge ------------------------------
(* Bridge on a few sessions and query texts.                               *)
EXTENDS Bridge, TLC

\* Sessions are interchangeable (safety runs only).
Symmetry == Permutations(Sessions)
=============================================================================
