---- MODULE MCSessions ----
(***************************************************************************)
(* A scenario of SessionBackends for TLC: two sessions of one user.        *)
(***************************************************************************)
EXTENDS SessionBackends, TLC

CONSTANTS u1, s1, s2, v1, v2, t1, t2

OneUser == [s \in Sessions |-> u1]

Symmetry == Permutations(Sessions) \cup Permutations(Callers) \cup Permutations(Values)
====
