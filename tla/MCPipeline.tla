---- MODULE MCPipeline ----
(***************************************************************************)
(* Scenarios of CorrectionPipeline for TLC.                                *)
(***************************************************************************)
EXTENDS CorrectionPipeline, TLC

CONSTANTS j1, j2, s1, s2, d1, d2, d3, upload, again

\* One upload of two essays, an image and a typed one having one job each.
TwoJobs == [r \in {upload} |-> <<j1, j2>>]
OneEach == (j1 :> s1) @@ (j2 :> s2)

\* One upload of one essay.
OneJob == [r \in {upload} |-> <<j1>>]
OneEssay == j1 :> s1

\* One essay, uploaded and then graded again.
UploadAndAgain == (upload :> <<j1>>) @@ (again :> <<j2>>)
SameEssay == (j1 :> s1) @@ (j2 :> s1)

DeliverySymmetry == Permutations(Deliveries)
====
