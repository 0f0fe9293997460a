---- MODULE MCBudget ----
(***************************************************************************)
(* Two requests, each of one job.  The message of the first is delivered   *)
(* three times: a late delivery may reopen the job that another settled,   *)
(* for a third to spend on it.  The second essay is an image.              *)
(***************************************************************************)
EXTENDS TokenBudget, TLC

CONSTANTS r1, r2, j1, j2, d1, d2, d3, d4

MCRequests == {r1, r2}
MCJobs == {j1, j2}
MCJobsOf == [r \in MCRequests |-> IF r = r1 THEN {j1} ELSE {j2}]
MCImages == {j2}
MCAttemptsOf == [j \in MCJobs |-> IF j = j1 THEN 1 ELSE 2]
MCRuns == {<<j1, d1>>, <<j1, d2>>, <<j1, d3>>, <<j2, d4>>}
MCBudgets == {None,1}
MCSymmetry == Permutations({d1, d2, d3})
====
