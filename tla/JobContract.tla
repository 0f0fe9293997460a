---- MODULE JobContract ----
(***************************************************************************)
(* What a correction job promises to whoever submitted it, whatever the    *)
(* queue, the workers and the providers do: it moves forward only, from    *)
(* pending to processing to one of two final statuses; it is done exactly  *)
(* when it has a result; the result is one grade and is never replaced.    *)
(*                                                                         *)
(* CorrectionPipeline implements this contract as long as the queue never  *)
(* hands out a message whose previous delivery is still running.           *)
(***************************************************************************)
CONSTANTS Jobs,     \* correction jobs
          Grades,   \* what a result may point to
          NoGrade   \* a job without a result

VARIABLES status, result

contractVars == <<status, result>>

Statuses == {"absent", "pending", "processing", "done", "failed"}

\* A job status no worker starts from again (worker.py, _TERMINAL_STATUSES).
Terminal == {"done", "failed"}

ContractInit ==
  /\ status = [j \in Jobs |-> "absent"]
  /\ result = [j \in Jobs |-> NoGrade]

\* A batch creates its jobs together, in one transaction.
CreateJobs(batch) ==
  /\ batch # {}
  /\ \A j \in batch : status[j] = "absent"
  /\ status' = [j \in Jobs |-> IF j \in batch THEN "pending" ELSE status[j]]
  /\ UNCHANGED result

StartJob(j) ==
  /\ status[j] = "pending"
  /\ status' = [status EXCEPT ![j] = "processing"]
  /\ UNCHANGED result

FinishJob(j, grade) ==
  /\ status[j] = "processing"
  /\ result[j] = NoGrade
  /\ status' = [status EXCEPT ![j] = "done"]
  /\ result' = [result EXCEPT ![j] = grade]

GiveUpJob(j) ==
  /\ status[j] = "processing"
  /\ result[j] = NoGrade
  /\ status' = [status EXCEPT ![j] = "failed"]
  /\ UNCHANGED result

ContractNext ==
  \/ \E batch \in SUBSET Jobs : CreateJobs(batch)
  \/ \E j \in Jobs : StartJob(j) \/ GiveUpJob(j)
  \/ \E j \in Jobs, grade \in Grades : FinishJob(j, grade)

ContractSpec == ContractInit /\ [][ContractNext]_contractVars
====
