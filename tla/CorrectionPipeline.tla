---- MODULE CorrectionPipeline ----
(***************************************************************************)
(* A correction job, from the request that creates it to the commit that   *)
(* settles it: the API writes the rows of a batch and then puts one        *)
(* message per job on the queue; each receipt of a message is a delivery,  *)
(* run by a worker process, which transcribes the essay when it is an      *)
(* image, asks the provider for a correction up to MaxAttempts times, and  *)
(* records the attempts, the result and the status of the job.             *)
(*                                                                         *)
(* The database, the object storage and the queue are three systems, with  *)
(* no transaction across them.  What a delivery read is in variables of    *)
(* its own (seen, draft), for it can be stale when it is used; what it     *)
(* wrote and did not commit is in flushed, and is lost by a rollback.      *)
(***************************************************************************)
EXTENDS Naturals, Sequences, FiniteSets, Functions

CONSTANTS
  Jobs,              \* correction jobs
  Submissions,       \* essays
  Deliveries,        \* receipts of a message: each is used once
  Requests,          \* calls to the API that create jobs
  JobsOf,            \* [Requests -> sequence of the jobs it creates]
  Recorrections,     \* requests that grade existing submissions again
  SubmissionOf,      \* [Jobs -> Submissions]
  Images,            \* submissions uploaded as an image
  MaxAttempts,       \* CorrectionJob.max_attempts
  AckBroker,         \* TRUE: SQS or RabbitMQ; FALSE: the Redis list
  MaxCrashes,        \* bound: worker processes killed
  MaxOverlaps,       \* bound: messages made visible under a running delivery
  MaxFaults,         \* bound: failures of the database or of the storage
  None

ASSUME AttemptsAssumption == MaxAttempts \in Nat \ {0}
ASSUME BoundsAssumption ==
  /\ AckBroker \in BOOLEAN
  /\ MaxCrashes \in Nat /\ MaxOverlaps \in Nat /\ MaxFaults \in Nat
ASSUME BatchAssumption ==
  /\ SubmissionOf \in [Jobs -> Submissions]
  /\ JobsOf \in [Requests -> Seq(Jobs)]
  /\ \A r, q \in Requests : Range(JobsOf[r]) \cap Range(JobsOf[q]) # {} => r = q
  /\ \A r \in Requests : IsInjective(JobsOf[r])
  /\ Images \subseteq Submissions /\ Recorrections \subseteq Requests

VARIABLES
  \* database
  status,     \* [Jobs -> CorrectionJob.status], "absent" before its insert
  attempts,   \* committed rows of correction_attempts
  result,     \* [Jobs -> the attempt its CorrectionResult points to]
  text,       \* [Submissions -> the delivery whose OCR raw_text holds];
              \* a typed essay has its text from the upload and stays None
  trace,      \* [Submissions -> transcription_meta: whose OCR, and if it failed]
  \* object storage
  originals,  \* submissions whose image is stored
  exchange,   \* [Jobs -> [attempt number -> delivery that last wrote the key]]
  scan,       \* [Submissions -> delivery that last wrote exchange.json]
  \* queue
  message,    \* [Jobs -> where the message of the job is]
  \* API processes
  request,    \* [Requests -> how far the call is]
  sent,       \* [Requests -> number of its messages sent]
  \* worker processes
  pc,         \* [Deliveries -> next step]
  job,        \* [Deliveries -> job named by the message]
  receipt,    \* [Deliveries -> whether its receipt handle is the current one]
  seen,       \* [Deliveries -> status it last read]
  draft,      \* [Deliveries -> submission.raw_text as it knows it]
  attempt,    \* [Deliveries -> attempt_number]
  flushed,    \* [Deliveries -> attempt rows of its open transaction]
  \* bounds
  spent       \* crashes, overlaps and faults so far

dbVars == <<status, attempts, result, text, trace>>
storageVars == <<originals, exchange, scan>>
apiVars == <<request, sent>>
workerVars == <<pc, job, receipt, seen, draft, attempt, flushed>>
vars == <<dbVars, storageVars, message, apiVars, workerVars, spent>>

Statuses == {"absent", "pending", "processing", "done", "failed"}
Terminal == {"done", "failed"}
Outcomes == {"success", "retry", "failed"}
Numbers == 1..MaxAttempts

AttemptRows == [job : Jobs, number : Numbers, by : Deliveries,
                outcome : Outcomes, text : Deliveries \cup {None}]
Traces == [by : Deliveries, error : BOOLEAN]

\* None stands for NULL: it is no value of a column.
ASSUME NoneAssumption == None \notin Deliveries \cup AttemptRows \cup Traces

Sub(d) == SubmissionOf[job[d]]

\* Steps of a delivery in which the worker process is executing it.
Working == {"load", "submission", "start", "transcribe", "keep_text",
            "keep_trace", "attempt", "finish", "exhausted", "rescue",
            "mark_failed", "ack"}
Steps == Working \cup {"idle", "over", "dead"}

DatabaseTypes ==
  /\ status \in [Jobs -> Statuses]
  /\ attempts \subseteq AttemptRows
  /\ result \in [Jobs -> AttemptRows \cup {None}]
  /\ text \in [Submissions -> Deliveries \cup {None}]
  /\ trace \in [Submissions -> Traces \cup {None}]

StorageTypes ==
  /\ originals \subseteq Submissions
  /\ exchange \in [Jobs -> [Numbers -> Deliveries \cup {None}]]
  /\ scan \in [Submissions -> Deliveries \cup {None}]

QueueTypes == message \in [Jobs -> {"unsent", "visible", "inflight", "gone"}]

ApiTypes ==
  /\ request \in [Requests -> {"new", "dispatching", "answered", "error"}]
  /\ sent \in [Requests -> Nat]

WorkerTypes ==
  /\ pc \in [Deliveries -> Steps]
  /\ job \in [Deliveries -> Jobs \cup {None}]
  /\ receipt \in [Deliveries -> {"none", "valid", "stale"}]
  /\ seen \in [Deliveries -> Statuses]
  /\ draft \in [Deliveries -> Deliveries \cup {None}]
  /\ attempt \in [Deliveries -> Numbers]
  /\ flushed \in [Deliveries -> SUBSET AttemptRows]

BoundTypes == spent \in [crashes : Nat, overlaps : Nat, faults : Nat]

TypeOK == /\ DatabaseTypes /\ StorageTypes /\ QueueTypes
          /\ ApiTypes /\ WorkerTypes /\ BoundTypes

Init ==
  /\ status = [j \in Jobs |-> "absent"]
  /\ attempts = {}
  /\ result = [j \in Jobs |-> None]
  /\ text = [s \in Submissions |-> None]
  /\ trace = [s \in Submissions |-> None]
  /\ originals = {}
  /\ exchange = [j \in Jobs |-> [n \in Numbers |-> None]]
  /\ scan = [s \in Submissions |-> None]
  /\ message = [j \in Jobs |-> "unsent"]
  /\ request = [r \in Requests |-> "new"]
  /\ sent = [r \in Requests |-> 0]
  /\ pc = [d \in Deliveries |-> "idle"]
  /\ job = [d \in Deliveries |-> None]
  /\ receipt = [d \in Deliveries |-> "none"]
  /\ seen = [d \in Deliveries |-> "absent"]
  /\ draft = [d \in Deliveries |-> None]
  /\ attempt = [d \in Deliveries |-> 1]
  /\ flushed = [d \in Deliveries |-> {}]
  /\ spent = [crashes |-> 0, overlaps |-> 0, faults |-> 0]

GoTo(d, step) == pc' = [pc EXCEPT ![d] = step]

Fault ==
  /\ spent.faults < MaxFaults
  /\ spent' = [spent EXCEPT !.faults = @ + 1]

------------------------------------------------------------------------
(* The API: submit_batch, submit_image_batch, recorrect_batch.            *)

JobSet(r) == Range(JobsOf[r])
BatchSubmissions(r) == {SubmissionOf[j] : j \in JobSet(r)}

\* A submission is in the database once a job of it is.
Present(s) == \E j \in Jobs : SubmissionOf[j] = s /\ status[j] # "absent"

\* submit_image_batch puts the images in the storage one by one, in the
\* order of the batch, each before its row is inserted.
StoreOriginal(r) ==
  /\ request[r] = "new" /\ r \notin Recorrections
  /\ \E i \in 1..Len(JobsOf[r]) :
       LET s == SubmissionOf[JobsOf[r][i]] IN
       /\ s \in Images \ originals
       /\ \A k \in 1..(i-1) : SubmissionOf[JobsOf[r][k]] \in originals
       /\ originals' = originals \cup {s}
  /\ UNCHANGED <<dbVars, exchange, scan, message, apiVars, workerVars, spent>>

\* MUTANT of CommitBatch: the rows are committed while images are uploaded.
CommitBatchEarly(r) ==
  /\ request[r] = "new"
  /\ status' = [j \in Jobs |-> IF j \in JobSet(r) THEN "pending" ELSE status[j]]
  /\ request' = [request EXCEPT ![r] = "dispatching"]
  /\ UNCHANGED <<attempts, result, text, trace, storageVars, message, sent,
                 workerVars, spent>>

\* The rows of the batch become visible together: db.commit().
CommitBatch(r) ==
  /\ request[r] = "new"
  /\ IF r \in Recorrections
       THEN \A s \in BatchSubmissions(r) : Present(s)
       ELSE BatchSubmissions(r) \cap Images \subseteq originals
  /\ status' = [j \in Jobs |-> IF j \in JobSet(r) THEN "pending" ELSE status[j]]
  /\ request' = [request EXCEPT ![r] = "dispatching"]
  /\ UNCHANGED <<attempts, result, text, trace, storageVars, message, sent,
                 workerVars, spent>>

\* Validation, the token budget, a failed upload or a lost process: the
\* transaction is never committed; images already stored stay behind.
RejectBatch(r) ==
  /\ request[r] = "new"
  /\ request' = [request EXCEPT ![r] = "error"]
  /\ UNCHANGED <<dbVars, storageVars, message, sent, workerVars, spent>>

\* _dispatch_correction_jobs: one kiq per job, in order.
Dispatch(r) ==
  /\ request[r] = "dispatching"
  /\ sent[r] < Len(JobsOf[r])
  /\ sent' = [sent EXCEPT ![r] = @ + 1]
  /\ message' = [message EXCEPT ![JobsOf[r][sent[r] + 1]] = "visible"]
  /\ UNCHANGED <<dbVars, storageVars, request, workerVars, spent>>

Answer(r) ==
  /\ request[r] = "dispatching"
  /\ sent[r] = Len(JobsOf[r])
  /\ request' = [request EXCEPT ![r] = "answered"]
  /\ UNCHANGED <<dbVars, storageVars, message, sent, workerVars, spent>>

\* kiq raises, its message sent or not, or the process dies: the rows are
\* committed, and the messages after it are never sent.
DispatchFails(r) ==
  /\ request[r] = "dispatching"
  /\ Fault
  /\ request' = [request EXCEPT ![r] = "error"]
  /\ \/ UNCHANGED message
     \/ /\ sent[r] < Len(JobsOf[r])
        /\ message' = [message EXCEPT ![JobsOf[r][sent[r] + 1]] = "visible"]
  /\ UNCHANGED <<dbVars, storageVars, sent, workerVars>>

------------------------------------------------------------------------
(* The queue.                                                             *)

\* BRPOP on the Redis list removes the message; SQS and RabbitMQ keep it
\* until it is acknowledged.
Receive(d, j) ==
  /\ pc[d] = "idle" /\ message[j] = "visible"
  /\ GoTo(d, "load")
  /\ job' = [job EXCEPT ![d] = j]
  /\ receipt' = [receipt EXCEPT ![d] = IF AckBroker THEN "valid" ELSE "stale"]
  /\ message' = [message EXCEPT ![j] = IF AckBroker THEN "inflight" ELSE "gone"]
  /\ UNCHANGED <<dbVars, storageVars, apiVars, seen, draft, attempt, flushed, spent>>

\* The visibility timeout of a receipt ends: the queue may hand the message
\* out again, whether the worker died or is only slow.
Expire(d) ==
  /\ receipt[d] = "valid"
  /\ IF pc[d] = "dead"
       THEN UNCHANGED spent
       ELSE /\ spent.overlaps < MaxOverlaps
            /\ spent' = [spent EXCEPT !.overlaps = @ + 1]
  /\ receipt' = [receipt EXCEPT ![d] = "stale"]
  /\ message' = [message EXCEPT ![job[d]] = "visible"]
  /\ UNCHANGED <<dbVars, storageVars, apiVars, pc, job, seen, draft, attempt, flushed>>

\* taskiq acknowledges when the task is over, an exception included.  A
\* receipt that is no longer current may delete the message or not.
Ack(d) ==
  /\ pc[d] = "ack"
  /\ GoTo(d, "over")
  /\ receipt' = [receipt EXCEPT ![d] = "stale"]
  /\ \/ message' = [message EXCEPT ![job[d]] = "gone"]
     \/ receipt[d] = "stale" /\ UNCHANGED message
  /\ UNCHANGED <<dbVars, storageVars, apiVars, job, seen, draft, attempt, flushed, spent>>

------------------------------------------------------------------------
(* The worker: run_correction_job and process_correction_job.             *)

\* MUTANT of LoadJob: no look at _TERMINAL_STATUSES.
LoadJobAlways(d) ==
  /\ pc[d] = "load"
  /\ seen' = [seen EXCEPT ![d] = status[job[d]]]
  /\ GoTo(d, "submission")
  /\ UNCHANGED <<dbVars, storageVars, message, apiVars, job, receipt, draft,
                 attempt, flushed, spent>>

\* SELECT of the job; a job already settled ends the task.
LoadJob(d) ==
  /\ pc[d] = "load"
  /\ seen' = [seen EXCEPT ![d] = status[job[d]]]
  /\ GoTo(d, IF status[job[d]] \in Terminal THEN "ack" ELSE "submission")
  /\ UNCHANGED <<dbVars, storageVars, message, apiVars, job, receipt, draft,
                 attempt, flushed, spent>>

\* SELECT of the submission; raw_text is not read again after this.
LoadSubmission(d) ==
  /\ pc[d] = "submission"
  /\ draft' = [draft EXCEPT ![d] = text[Sub(d)]]
  /\ GoTo(d, "start")
  /\ UNCHANGED <<dbVars, storageVars, message, apiVars, job, receipt, seen,
                 attempt, flushed, spent>>

\* The UPDATE names the row only, and is sent only when the value differs
\* from the one that was read.
SaveProcessing(d) ==
  status' = [status EXCEPT ![job[d]] = IF seen[d] = "processing" THEN @ ELSE "processing"]

\* job.status = "processing"; commit.
MarkProcessing(d) ==
  /\ pc[d] = "start"
  /\ SaveProcessing(d)
  /\ GoTo(d, IF Sub(d) \in Images /\ draft[d] = None
               THEN "transcribe" ELSE "attempt")
  /\ UNCHANGED <<attempts, result, text, trace, storageVars, message, apiVars,
                 job, receipt, seen, draft, attempt, flushed, spent>>

\* The task fails before the try: a provider that cannot be built, or the
\* database in the three steps above, its commit effective or not.  Nothing
\* settles the job, and the message is acknowledged all the same.
StartFails(d) ==
  /\ pc[d] \in {"load", "submission", "start"}
  /\ Fault
  /\ (pc[d] = "start" /\ SaveProcessing(d)) \/ UNCHANGED status
  /\ GoTo(d, "ack")
  /\ UNCHANGED <<attempts, result, text, trace, storageVars, message, apiVars,
                 job, receipt, seen, draft, attempt, flushed>>

\* The OCR answers, and its conversation is stored under the key of the
\* submission; it fails in the same way when the exception has partial_meta.
Transcribe(d) ==
  /\ pc[d] = "transcribe"
  /\ scan' = [scan EXCEPT ![Sub(d)] = d]
  /\ \E step \in {"keep_text", "keep_trace"} : GoTo(d, step)
  /\ UNCHANGED <<dbVars, originals, exchange, message, apiVars, job, receipt,
                 seen, draft, attempt, flushed, spent>>

\* MUTANTS of SaveText: one of the two columns is forgotten.
SaveTraceOnly(d) ==
  /\ trace' = [trace EXCEPT ![Sub(d)] = [by |-> d, error |-> FALSE]]
  /\ UNCHANGED text
SaveTextOnly(d) ==
  /\ text' = [text EXCEPT ![Sub(d)] = d]
  /\ UNCHANGED trace

\* raw_text and transcription_meta in one commit.
SaveText(d) ==
  /\ text' = [text EXCEPT ![Sub(d)] = d]
  /\ trace' = [trace EXCEPT ![Sub(d)] = [by |-> d, error |-> FALSE]]

KeepText(d) ==
  /\ pc[d] = "keep_text"
  /\ SaveText(d)
  /\ draft' = [draft EXCEPT ![d] = d]
  /\ GoTo(d, "attempt")
  /\ UNCHANGED <<status, attempts, result, storageVars, message, apiVars, job,
                 receipt, seen, attempt, flushed, spent>>

\* _registrar_falha_de_transcricao: best effort, then the exception goes on.
KeepTrace(d) ==
  /\ pc[d] = "keep_trace"
  /\ \/ /\ trace' = [trace EXCEPT ![Sub(d)] = [by |-> d, error |-> TRUE]]
        /\ UNCHANGED spent
     \/ Fault /\ UNCHANGED trace
  /\ GoTo(d, "rescue")
  /\ UNCHANGED <<status, attempts, result, text, storageVars, message, apiVars,
                 job, receipt, seen, draft, attempt, flushed>>

\* The storage or the database fails around the OCR; the commit of the text
\* may have taken effect.
TranscribeFails(d) ==
  /\ pc[d] \in {"transcribe", "keep_text"}
  /\ Fault
  /\ (pc[d] = "keep_text" /\ SaveText(d)) \/ UNCHANGED <<text, trace>>
  /\ GoTo(d, "rescue")
  /\ UNCHANGED <<status, attempts, result, storageVars, message, apiVars, job, receipt, seen,
                 draft, attempt, flushed>>

Row(d, outcome) == [job |-> job[d], number |-> attempt[d], by |-> d,
                    outcome |-> outcome, text |-> draft[d]]

\* MUTANTS of RunAttempt: one attempt too many; only the last row is kept.
RunAttemptOnceMore(d, corrected) ==
  /\ pc[d] = "attempt"
  /\ flushed' = [flushed EXCEPT ![d] = @ \cup {Row(d, IF corrected THEN "success" ELSE "retry")}]
  /\ attempt' = [attempt EXCEPT ![d] = IF corrected THEN @ ELSE @ + 1]
  /\ GoTo(d, IF corrected THEN "finish"
             ELSE IF attempt[d] > MaxAttempts THEN "exhausted" ELSE "attempt")
  /\ UNCHANGED <<dbVars, storageVars, message, apiVars, job, receipt, seen,
                 draft, spent>>
RunAttemptForgetful(d, corrected) ==
  /\ pc[d] = "attempt"
  /\ LET last == attempt[d] = MaxAttempts IN
     /\ flushed' = [flushed EXCEPT ![d] =
                      {Row(d, IF corrected THEN "success" ELSE "failed")}]
     /\ attempt' = [attempt EXCEPT ![d] = IF corrected \/ last THEN @ ELSE @ + 1]
     /\ GoTo(d, IF corrected THEN "finish" ELSE IF last THEN "exhausted" ELSE "attempt")
  /\ UNCHANGED <<dbVars, storageVars, message, apiVars, job, receipt, seen,
                 draft, spent>>

\* _run_attempt: the provider answers (it turns its own errors into an answer
\* with no correction), both sides of the exchange are stored under the key
\* of the attempt number, and the row is flushed, not committed.
RunAttempt(d, corrected) ==
  /\ pc[d] = "attempt"
  /\ exchange' = [exchange EXCEPT ![job[d]][attempt[d]] = d]
  /\ LET last == attempt[d] = MaxAttempts
         outcome == IF corrected THEN "success"
                    ELSE IF last THEN "failed" ELSE "retry"
     IN /\ flushed' = [flushed EXCEPT ![d] = @ \cup {Row(d, outcome)}]
        /\ attempt' = [attempt EXCEPT ![d] = IF corrected \/ last THEN @ ELSE @ + 1]
        /\ GoTo(d, IF corrected THEN "finish"
                   ELSE IF last THEN "exhausted" ELSE "attempt")
  /\ UNCHANGED <<dbVars, originals, scan, message, apiVars, job, receipt, seen,
                 draft, spent>>

\* The storage refuses the exchange, or the database refuses the row.
AttemptFails(d) ==
  /\ pc[d] = "attempt"
  /\ Fault
  /\ \/ exchange' = [exchange EXCEPT ![job[d]][attempt[d]] = d]
     \/ UNCHANGED exchange
  /\ GoTo(d, "rescue")
  /\ UNCHANGED <<dbVars, originals, scan, message, apiVars, job, receipt, seen,
                 draft, attempt, flushed>>

\* What the commit at the end of the loop writes.
Correction(d) == CHOOSE row \in flushed[d] : row.outcome = "success"

\* MUTANTS of SaveDone: the result is not inserted; the attempts are not
\* committed; ON CONFLICT DO UPDATE.
SaveDoneAlone(d) ==
  /\ attempts' = attempts \cup flushed[d]
  /\ status' = [status EXCEPT ![job[d]] = "done"]
  /\ UNCHANGED result
SaveDoneUnflushed(d) ==
  /\ result' = [result EXCEPT ![job[d]] = IF @ = None THEN Correction(d) ELSE @]
  /\ status' = [status EXCEPT ![job[d]] = "done"]
  /\ UNCHANGED attempts
SaveDoneUpsert(d) ==
  /\ attempts' = attempts \cup flushed[d]
  /\ result' = [result EXCEPT ![job[d]] = Correction(d)]
  /\ status' = [status EXCEPT ![job[d]] = "done"]

SaveDone(d) ==
  /\ attempts' = attempts \cup flushed[d]
  /\ result' = [result EXCEPT ![job[d]] = IF @ = None THEN Correction(d) ELSE @]
  /\ status' = [status EXCEPT ![job[d]] = "done"]

\* MUTANT of SaveFailed: the attempts of a failed job are rolled back.
SaveFailedAlone(d) ==
  /\ status' = [status EXCEPT ![job[d]] = "failed"]
  /\ UNCHANGED <<attempts, result>>

SaveFailed(d) ==
  /\ attempts' = attempts \cup flushed[d]
  /\ status' = [status EXCEPT ![job[d]] = "failed"]
  /\ UNCHANGED result

Save(d) == IF pc[d] = "finish" THEN SaveDone(d) ELSE SaveFailed(d)

\* The attempts, the result (ON CONFLICT DO NOTHING) and the status.
Settle(d) ==
  /\ pc[d] \in {"finish", "exhausted"}
  /\ Save(d)
  /\ flushed' = [flushed EXCEPT ![d] = {}]
  /\ GoTo(d, "ack")
  /\ UNCHANGED <<text, trace, storageVars, message, apiVars, job, receipt, seen,
                 draft, attempt, spent>>

\* The commit raises: it took effect before the connection broke, or not.
SettleFails(d) ==
  /\ pc[d] \in {"finish", "exhausted"}
  /\ Fault
  /\ Save(d) \/ UNCHANGED <<attempts, result, status>>
  /\ GoTo(d, "rescue")
  /\ UNCHANGED <<text, trace, storageVars, message, apiVars, job, receipt, seen,
                 draft, attempt, flushed>>

\* except Exception: rollback, and SELECT of the job again.
Rescue(d) ==
  /\ pc[d] = "rescue"
  /\ flushed' = [flushed EXCEPT ![d] = {}]
  /\ seen' = [seen EXCEPT ![d] = status[job[d]]]
  /\ GoTo(d, "mark_failed")
  /\ UNCHANGED <<dbVars, storageVars, message, apiVars, job, receipt, draft,
                 attempt, spent>>

\* MUTANTS of MarkFailed: no look at the status; no write.
MarkFailedBlindly(d) ==
  /\ pc[d] = "mark_failed"
  /\ status' = [status EXCEPT ![job[d]] = "failed"]
  /\ GoTo(d, "ack")
  /\ UNCHANGED <<attempts, result, text, trace, storageVars, message, apiVars,
                 job, receipt, seen, draft, attempt, flushed, spent>>
MarkFailedNot(d) ==
  /\ pc[d] = "mark_failed"
  /\ GoTo(d, "ack")
  /\ UNCHANGED <<dbVars, storageVars, message, apiVars,
                 job, receipt, seen, draft, attempt, flushed, spent>>

\* if job.status != "done": job.status = "failed"; commit; raise.
MarkFailed(d) ==
  /\ pc[d] = "mark_failed"
  /\ status' = [status EXCEPT ![job[d]] = IF seen[d] \in Terminal THEN @ ELSE "failed"]
  /\ GoTo(d, "ack")
  /\ UNCHANGED <<attempts, result, text, trace, storageVars, message, apiVars,
                 job, receipt, seen, draft, attempt, flushed, spent>>

\* The database is still out of reach inside the except: the job keeps its
\* status and the message is acknowledged.
RescueFails(d) ==
  /\ pc[d] \in {"rescue", "mark_failed"}
  /\ Fault
  /\ flushed' = [flushed EXCEPT ![d] = {}]
  /\ GoTo(d, "ack")
  /\ UNCHANGED <<dbVars, storageVars, message, apiVars, job, receipt, seen,
                 draft, attempt>>

\* The worker process is killed: its transaction is rolled back.
Crash(d) ==
  /\ pc[d] \in Working
  /\ spent.crashes < MaxCrashes
  /\ spent' = [spent EXCEPT !.crashes = @ + 1]
  /\ flushed' = [flushed EXCEPT ![d] = {}]
  /\ GoTo(d, "dead")
  /\ UNCHANGED <<dbVars, storageVars, message, apiVars, job, receipt, seen,
                 draft, attempt>>

------------------------------------------------------------------------
ApiStep(r) ==
  \/ StoreOriginal(r) \/ CommitBatch(r) \/ RejectBatch(r)
  \/ Dispatch(r) \/ Answer(r) \/ DispatchFails(r)

\* What a live worker does by itself.
Progress(d) ==
  \/ LoadJob(d) \/ LoadSubmission(d) \/ MarkProcessing(d)
  \/ Transcribe(d) \/ KeepText(d) \/ KeepTrace(d)
  \/ \E corrected \in BOOLEAN : RunAttempt(d, corrected)
  \/ Settle(d) \/ Rescue(d) \/ MarkFailed(d) \/ Ack(d)

Trouble(d) ==
  \/ StartFails(d) \/ TranscribeFails(d) \/ AttemptFails(d)
  \/ SettleFails(d) \/ RescueFails(d) \/ Crash(d)

Next ==
  \/ \E r \in Requests : ApiStep(r)
  \/ \E d \in Deliveries, j \in Jobs : Receive(d, j)
  \/ \E d \in Deliveries : Expire(d) \/ Progress(d) \/ Trouble(d)

Spec == Init /\ [][Next]_vars

\* A request under way is run to its end, a live worker goes on, the queue
\* hands out a visible message, and the visibility timeout of a dead worker
\* ends.  Nothing forces a request to be made, a fault, or an overlap.
Fairness ==
  /\ \A r \in Requests : WF_vars(Dispatch(r) \/ Answer(r))
  /\ \A d \in Deliveries : WF_vars(Progress(d))
  /\ \A d \in Deliveries : WF_vars(pc[d] = "dead" /\ Expire(d))
  /\ \A j \in Jobs : WF_vars(\E d \in Deliveries : Receive(d, j))

FairSpec == Spec /\ Fairness

------------------------------------------------------------------------
(* Properties.                                                            *)

\* A job that is done has a result: the two are in one commit
\* (worker.py:243-262), and no later delivery takes the result away.
DoneHasResult == \A j \in Jobs : status[j] = "done" => result[j] # None

\* A result points to a committed attempt that succeeded, of the same job:
\* the row a rollback erases is never the one a result refers to.
ResultIsRecorded ==
  \A j \in Jobs : result[j] # None =>
    /\ result[j] \in attempts
    /\ result[j].job = j /\ result[j].outcome = "success"

\* The result a teacher saw is never replaced by another grade, however many
\* deliveries grade the job (ON CONFLICT DO NOTHING, worker.py:257).
ResultIsWriteOnce ==
  [][\A j \in Jobs : result[j] # None => result'[j] = result[j]]_result

\* The committed rows of a delivery tell its whole loop: numbers from 1 with
\* no gap, every one but the last a retry, the last a success or the failure
\* of the last number allowed.
AttemptHistory ==
  \A row \in attempts :
    /\ row.outcome = "failed" => row.number = MaxAttempts
    /\ \A n \in 1..(row.number - 1) :
         \E r \in attempts : /\ r.by = row.by /\ r.job = row.job
                             /\ r.number = n /\ r.outcome = "retry"
    /\ row.outcome = "retry" =>
         \E r \in attempts : /\ r.by = row.by /\ r.job = row.job
                             /\ r.number = row.number + 1

\* A job is graded once: no two deliveries of it commit attempts, so its
\* attempt numbers are unique.  True of crashes and redeliveries, because a
\* redelivery of a settled job returns at once; an overlap breaks it.
OneHistoryPerJob ==
  \A r, q \in attempts : r.job = q.job => r.by = q.by

\* The raw exchange a committed attempt refers to is its own (the key has
\* the job and the attempt number, not the delivery: worker.py:117).
EvidenceIsItsOwn ==
  \A row \in attempts : exchange[row.job][row.number] = row.by

\* Whatever was asked of the provider and stored has its row, once the
\* delivery is over.
EveryCallIsRecorded ==
  \A j \in Jobs, n \in Numbers, d \in Deliveries :
    exchange[j][n] = d /\ pc[d] = "over" =>
      \E row \in attempts : row.job = j /\ row.number = n /\ row.by = d

\* The text a result graded is the text the submission shows.
GradedTextIsOnRecord ==
  \A j \in Jobs : result[j] # None => result[j].text = text[SubmissionOf[j]]

\* transcription_meta tells of the transcription that gave raw_text.
TraceDescribesText ==
  \A s \in Submissions :
    text[s] # None => trace[s] = [by |-> text[s], error |-> FALSE]

\* The image of a submission is in the storage before its row can be read.
OriginalBeforeRow == \A s \in Images : Present(s) => s \in originals

\* A job that one delivery finished is not failed by another: a failed job
\* has no result.  Checked at the except (worker.py:274) and not at the end
\* of the loop (worker.py:266).
FailedHasNoResult == \A j \in Jobs : status[j] = "failed" => result[j] = None

\* A submission is transcribed once: executions of it share one text.
TextIsWriteOnce ==
  [][\A s \in Submissions : text[s] # None => text'[s] = text[s]]_text

\* A job whose message reached the queue is settled in the end, and stays so.
SentJobsSettle ==
  \A j \in Jobs : message[j] = "visible" ~> [](status[j] \in Terminal)

\* The pipeline keeps the contract of a job.
Contract == INSTANCE JobContract WITH Grades <- AttemptRows, NoGrade <- None
KeepsContract == Contract!ContractSpec
====
