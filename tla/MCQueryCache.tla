---------------------------- MODULE MCQueryCache ----------------------------
(* QueryCache with finitely many calls and keys.                           *)
EXTENDS QueryCache, TLC

\* Calls and keys are interchangeable.
Symmetry == Permutations(Calls) \cup Permutations(Keys)
=============================================================================
