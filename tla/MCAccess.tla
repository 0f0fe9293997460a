---- MODULE MCAccess ----
(***************************************************************************)
(* Instances of ApiRequests for TLC: a superuser and an ordinary user of   *)
(* the first tenant, and somebody who may still register.                  *)
(***************************************************************************)
EXTENDS ApiRequests, TLC

CONSTANTS admin, ana, eva, nAdmin, nAna, nNew, k1, k2, r1, r2, r3, A, B, t1, t2, c1, c2

MCTenantOf == (admin :> A) @@ (ana :> A) @@ (eva :> Nobody)
MCFirstNames == (admin :> nAdmin) @@ (ana :> nAna)
MCFirstKeys == k1 :> ana
MCFirstRubrics == (r1 :> A) @@ (r2 :> B)
Reading == {<<"rubrics", "read">>}
Mixed == {<<"rubrics", Wildcard>>, <<"unknown", "read">>}
MCGrants == {Reading, Mixed}

AccessSymmetry == Permutations(Threads) \cup Permutations(Connections)
====
