--------------------------- MODULE MCSingleFlight ---------------------------
(* SingleFlight with four calls and two keys.                              *)
EXTENDS SingleFlight

CONSTANTS c1, c2, c3, c4, k1, k2

\* Calls and keys are interchangeable, so what matters of the queries is how
\* many share a text: all four, three, or two and two.  (TLC's own symmetry is
\* not sound for liveness.)
Queries == {[c \in Calls |-> IF c \in others THEN k2 ELSE k1] : others \in {{}, {c4}, {c3, c4}}}

MCInit == Init /\ key \in Queries

MCSpec == MCInit /\ [][Next]_vars /\ Fairness
=============================================================================
