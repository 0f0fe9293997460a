---- MODULE MCLimits ----
(***************************************************************************)
(* A scenario of RateLimits for TLC.                                       *)
(***************************************************************************)
EXTENDS RateLimits, TLC

CONSTANTS c1, t1, n1, pa, pb, ka, r1, r2

\* Two paths with one key, as /a/b and /a_b, or /users and /users/.
OneKey == [p \in {pa, pb} |-> ka]
TwoLimits == {[limit |-> 1, period |-> 2], [limit |-> 2, period |-> 3]}
DefaultLimit == [limit |-> 1, period |-> 2]

RequestSymmetry == Permutations(Requests)
====
