---- MODULE MCAuth ----
(***************************************************************************)
(* Symmetry of AuthRequests for TLC: threads, and session ids.             *)
(***************************************************************************)
EXTENDS AuthRequests, TLC

CONSTANTS u1, a1, t1, t2, s1, s2, s3

AuthSymmetry == Permutations(Threads) \cup Permutations(Sessions)
====
