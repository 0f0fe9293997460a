---- MODULE CorrectionPipelineProofs ----
(***************************************************************************)
(* Proofs about CorrectionPipeline, for any set of jobs, deliveries and    *)
(* requests, any number of attempts and any number of crashes, overlaps    *)
(* and faults.                                                             *)
(***************************************************************************)
EXTENDS CorrectionPipeline, TLAPS

------------------------------------------------------------------------
(* Types.                                                                 *)

\* A delivery that left "idle" names a job.
HasJob == \A d \in Deliveries : pc[d] # "idle" => job[d] \in Jobs

\* At "finish" one of the flushed rows is the correction to keep.
HasCorrection ==
  \A d \in Deliveries : pc[d] = "finish" =>
    \E row \in flushed[d] : row.outcome = "success"

\* The flushed rows of a delivery are attempts at its job.
OwnRows ==
  \A d \in Deliveries :
    /\ pc[d] = "idle" => flushed[d] = {}
    /\ \A row \in flushed[d] : row.job = job[d]

Workers == WorkerTypes /\ HasJob /\ HasCorrection /\ OwnRows

\* What an action leaves alone keeps its type.
LEMMA Frame ==
  /\ DatabaseTypes /\ UNCHANGED dbVars => DatabaseTypes'
  /\ StorageTypes /\ UNCHANGED storageVars => StorageTypes'
  /\ QueueTypes /\ UNCHANGED message => QueueTypes'
  /\ ApiTypes /\ UNCHANGED apiVars => ApiTypes'
  /\ Workers /\ UNCHANGED workerVars => Workers'
  /\ BoundTypes /\ UNCHANGED spent => BoundTypes'
<1>1. DatabaseTypes /\ UNCHANGED dbVars => DatabaseTypes'
  BY DEF DatabaseTypes, dbVars
<1>2. StorageTypes /\ UNCHANGED storageVars => StorageTypes'
  BY DEF StorageTypes, storageVars
<1>3. QueueTypes /\ UNCHANGED message => QueueTypes'
  BY DEF QueueTypes
<1>4. ApiTypes /\ UNCHANGED apiVars => ApiTypes'
  BY DEF ApiTypes, apiVars
<1>5. Workers /\ UNCHANGED workerVars => Workers'
  BY DEF Workers, WorkerTypes, HasJob, HasCorrection, OwnRows, workerVars
<1>6. BoundTypes /\ UNCHANGED spent => BoundTypes'
  BY DEF BoundTypes
<1> QED BY <1>1, <1>2, <1>3, <1>4, <1>5, <1>6

\* A fault is counted.
LEMMA FaultType == ASSUME BoundTypes, Fault PROVE BoundTypes'
BY DEF BoundTypes, Fault

\* A row made from the state of a delivery has the type of the table.
LEMMA RowType ==
  ASSUME NEW d \in Deliveries, NEW outcome \in Outcomes, WorkerTypes, job[d] \in Jobs
  PROVE  Row(d, outcome) \in AttemptRows
BY DEF Row, AttemptRows, WorkerTypes

LEMMA CorrectionIsFlushed ==
  ASSUME NEW d \in Deliveries, HasCorrection, pc[d] = "finish"
  PROVE  Correction(d) \in flushed[d] /\ Correction(d).outcome = "success"
BY DEF HasCorrection, Correction

\* What a delivery commits at the end of its loop has the type of its columns.
LEMMA SavedType ==
  ASSUME NEW d \in Deliveries, DatabaseTypes, Workers,
         pc[d] \in {"finish", "exhausted"}, Save(d), UNCHANGED <<text, trace>>
  PROVE  DatabaseTypes'
<1>1. CASE pc[d] = "finish"
  <2>1. Correction(d) \in AttemptRows
    BY <1>1, CorrectionIsFlushed DEF Workers, WorkerTypes
  <2> QED BY <1>1, <2>1 DEF Save, SaveDone, DatabaseTypes, Workers, WorkerTypes, Statuses
<1>2. CASE pc[d] = "exhausted"
  BY <1>2 DEF Save, SaveFailed, DatabaseTypes, Workers, WorkerTypes, Statuses
<1> QED BY <1>1, <1>2

Typed == /\ DatabaseTypes /\ StorageTypes /\ QueueTypes
         /\ ApiTypes /\ Workers /\ BoundTypes

LEMMA TypedInit == Init => Typed
BY AttemptsAssumption
   DEF Init, Typed, DatabaseTypes, StorageTypes, QueueTypes, ApiTypes, BoundTypes,
       Workers, WorkerTypes, HasJob, HasCorrection, OwnRows, Statuses, Steps, Numbers

LEMMA TypedApi ==
  ASSUME Typed, NEW r \in Requests, ApiStep(r)
  PROVE  Typed'
<1> USE DEF Typed
<1>1. CASE StoreOriginal(r)
  <2>1. StorageTypes'
    BY <1>1, BatchAssumption DEF StoreOriginal, StorageTypes
  <2> QED BY <1>1, <2>1, Frame DEF StoreOriginal
<1>2. CASE CommitBatch(r)
  <2>1. DatabaseTypes'
    BY <1>2 DEF CommitBatch, DatabaseTypes, Statuses
  <2>2. ApiTypes'
    BY <1>2 DEF CommitBatch, ApiTypes
  <2> QED BY <1>2, <2>1, <2>2, Frame DEF CommitBatch
<1>3. CASE RejectBatch(r)
  <2>1. ApiTypes'
    BY <1>3 DEF RejectBatch, ApiTypes
  <2> QED BY <1>3, <2>1, Frame DEF RejectBatch
<1>4. CASE Dispatch(r)
  <2>1. ApiTypes'
    BY <1>4 DEF Dispatch, ApiTypes
  <2>2. QueueTypes'
    BY <1>4 DEF Dispatch, QueueTypes
  <2> QED BY <1>4, <2>1, <2>2, Frame DEF Dispatch
<1>5. CASE Answer(r)
  <2>1. ApiTypes'
    BY <1>5 DEF Answer, ApiTypes
  <2> QED BY <1>5, <2>1, Frame DEF Answer
<1>6. CASE DispatchFails(r)
  <2>1. ApiTypes'
    BY <1>6 DEF DispatchFails, ApiTypes
  <2>2. QueueTypes'
    BY <1>6 DEF DispatchFails, QueueTypes
  <2> QED BY <1>6, <2>1, <2>2, Frame, FaultType DEF DispatchFails
<1> QED BY <1>1, <1>2, <1>3, <1>4, <1>5, <1>6 DEF ApiStep

\* A step that moves a delivery on, and changes neither its job nor its rows,
\* keeps the facts about deliveries.
LEMMA WorkersMove ==
  ASSUME Workers, NEW d \in Deliveries, pc[d] # "idle",
         NEW step \in Steps \ {"idle", "finish"}, GoTo(d, step),
         seen' \in [Deliveries -> Statuses],
         draft' \in [Deliveries -> Deliveries \cup {None}],
         receipt' \in [Deliveries -> {"none", "valid", "stale"}],
         UNCHANGED <<job, attempt>>,
         \/ UNCHANGED flushed
         \/ flushed' = [flushed EXCEPT ![d] = {}]
  PROVE  Workers'
<1>1. pc' \in [Deliveries -> Steps] /\ pc'[d] = step
  BY DEF Workers, WorkerTypes, GoTo
<1>2. flushed' \in [Deliveries -> SUBSET AttemptRows]
  BY DEF Workers, WorkerTypes
<1>3. \A e \in Deliveries \ {d} : pc'[e] = pc[e] /\ flushed'[e] = flushed[e]
  BY DEF Workers, WorkerTypes, GoTo
<1>4. flushed'[d] \in {flushed[d], {}}
  BY DEF Workers, WorkerTypes
<1>5. WorkerTypes'
  BY <1>1, <1>2 DEF Workers, WorkerTypes
<1>6. HasJob' /\ HasCorrection' /\ OwnRows'
  BY <1>1, <1>3, <1>4 DEF Workers, HasJob, HasCorrection, OwnRows
<1> QED BY <1>5, <1>6 DEF Workers

LEMMA TypedQueue ==
  ASSUME Typed, NEW d \in Deliveries,
         \/ \E j \in Jobs : Receive(d, j)
         \/ Expire(d)
  PROVE  Typed'
<1> USE DEF Typed
<1>1. ASSUME NEW j \in Jobs, Receive(d, j) PROVE Typed'
  <2>1. WorkerTypes'
    BY <1>1 DEF Receive, GoTo, Workers, WorkerTypes, Steps, Working
  <2>2. HasJob' /\ HasCorrection' /\ OwnRows'
    BY <1>1 DEF Receive, GoTo, Workers, WorkerTypes, HasJob, HasCorrection, OwnRows
  <2>3. QueueTypes'
    BY <1>1 DEF Receive, QueueTypes
  <2> QED BY <1>1, <2>1, <2>2, <2>3, Frame DEF Receive, Workers
<1>2. CASE Expire(d)
  <2>1. Workers'
    BY <1>2 DEF Expire, Workers, WorkerTypes, HasJob, HasCorrection, OwnRows
  <2>2. QueueTypes'
    BY <1>2 DEF Expire, QueueTypes
  <2>3. BoundTypes'
    BY <1>2 DEF Expire, BoundTypes
  <2> QED BY <1>2, <2>1, <2>2, <2>3, Frame DEF Expire
<1> QED BY <1>1, <1>2

LEMMA TypedProgress ==
  ASSUME Typed, NEW d \in Deliveries, Progress(d)
  PROVE  Typed'
<1> USE DEF Typed
<1>j. ASSUME pc[d] # "idle" PROVE job[d] \in Jobs
  BY <1>j DEF Workers, HasJob
<1>1. CASE LoadJob(d)
  <2>1. seen' \in [Deliveries -> Statuses]
    BY <1>1, <1>j DEF LoadJob, Workers, WorkerTypes, DatabaseTypes
  <2>2. Workers'
    BY <1>1, <2>1, WorkersMove DEF LoadJob, Workers, WorkerTypes, Steps, Working
  <2> QED BY <1>1, <2>2, Frame DEF LoadJob
<1>2. CASE LoadSubmission(d)
  <2>1. draft' \in [Deliveries -> Deliveries \cup {None}]
    BY <1>2, <1>j, BatchAssumption
       DEF LoadSubmission, Sub, Workers, WorkerTypes, DatabaseTypes
  <2>2. Workers'
    BY <1>2, <2>1, WorkersMove DEF LoadSubmission, Workers, WorkerTypes, Steps, Working
  <2> QED BY <1>2, <2>2, Frame DEF LoadSubmission
<1>3. CASE MarkProcessing(d)
  <2>1. DatabaseTypes'
    BY <1>3, <1>j DEF MarkProcessing, SaveProcessing, DatabaseTypes, Statuses
  <2>2. Workers'
    BY <1>3, WorkersMove DEF MarkProcessing, Workers, WorkerTypes, Steps, Working
  <2> QED BY <1>3, <2>1, <2>2, Frame DEF MarkProcessing
<1>4. CASE Transcribe(d)
  <2>1. StorageTypes'
    BY <1>4 DEF Transcribe, StorageTypes
  <2>2. Workers'
    BY <1>4, WorkersMove DEF Transcribe, Workers, WorkerTypes, Steps, Working
  <2> QED BY <1>4, <2>1, <2>2, Frame DEF Transcribe
<1>5. CASE KeepText(d)
  <2>1. DatabaseTypes'
    BY <1>5 DEF KeepText, SaveText, DatabaseTypes, Traces
  <2>2. Workers'
    BY <1>5, WorkersMove DEF KeepText, Workers, WorkerTypes, Steps, Working
  <2> QED BY <1>5, <2>1, <2>2, Frame DEF KeepText
<1>6. CASE KeepTrace(d)
  <2>1. DatabaseTypes'
    <3>1. trace' \in [Submissions -> Traces \cup {None}]
      <4>1. CASE trace' = [trace EXCEPT ![Sub(d)] = [by |-> d, error |-> TRUE]]
        BY <4>1 DEF DatabaseTypes, Traces
      <4>2. CASE UNCHANGED trace
        BY <4>2 DEF DatabaseTypes
      <4> QED BY <1>6, <4>1, <4>2 DEF KeepTrace
    <3> QED BY <1>6, <3>1 DEF KeepTrace, DatabaseTypes
  <2>2. Workers'
    BY <1>6, WorkersMove DEF KeepTrace, Workers, WorkerTypes, Steps, Working
  <2>3. BoundTypes'
    BY <1>6, FaultType, Frame DEF KeepTrace
  <2> QED BY <1>6, <2>1, <2>2, <2>3, Frame DEF KeepTrace
<1>8. CASE Settle(d)
  <2>1. DatabaseTypes'
    BY <1>8, SavedType DEF Settle
  <2>2. Workers'
    BY <1>8, WorkersMove DEF Settle, Workers, WorkerTypes, Steps, Working
  <2> QED BY <1>8, <2>1, <2>2, Frame DEF Settle
<1>9. CASE Rescue(d)
  <2>1. seen' \in [Deliveries -> Statuses]
    BY <1>9, <1>j DEF Rescue, Workers, WorkerTypes, DatabaseTypes
  <2>2. Workers'
    BY <1>9, <2>1, WorkersMove DEF Rescue, Workers, WorkerTypes, Steps, Working
  <2> QED BY <1>9, <2>2, Frame DEF Rescue
<1>10. CASE MarkFailed(d)
  <2>1. DatabaseTypes'
    BY <1>10, <1>j DEF MarkFailed, DatabaseTypes, Statuses
  <2>2. Workers'
    BY <1>10, WorkersMove DEF MarkFailed, Workers, WorkerTypes, Steps, Working
  <2> QED BY <1>10, <2>1, <2>2, Frame DEF MarkFailed
<1>11. CASE Ack(d)
  <2>1. Workers'
    BY <1>11, WorkersMove DEF Ack, Workers, WorkerTypes, Steps, Working
  <2>2. QueueTypes'
    BY <1>11 DEF Ack, QueueTypes
  <2> QED BY <1>11, <2>1, <2>2, Frame DEF Ack
<1>7. ASSUME NEW corrected \in BOOLEAN, RunAttempt(d, corrected) PROVE Typed'
  <2> DEFINE last == attempt[d] = MaxAttempts
             outcome == IF corrected THEN "success"
                        ELSE IF last THEN "failed" ELSE "retry"
             step == IF corrected THEN "finish"
                     ELSE IF last THEN "exhausted" ELSE "attempt"
  <2>1. job[d] \in Jobs
    BY <1>7, <1>j DEF RunAttempt
  <2>2. Row(d, outcome) \in AttemptRows
    BY <2>1, RowType DEF Outcomes, Workers
  <2>3. /\ Row(d, outcome).job = job[d]
        /\ Row(d, outcome).outcome = outcome
    BY DEF Row
  <2> HIDE DEF outcome
  <2>4. flushed' = [flushed EXCEPT ![d] = @ \cup {Row(d, outcome)}]
    BY <1>7 DEF RunAttempt, outcome
  <2>5. attempt' \in [Deliveries -> Numbers]
    BY <1>7, AttemptsAssumption DEF RunAttempt, Numbers, Workers, WorkerTypes
  <2>6. pc' = [pc EXCEPT ![d] = step]
    BY <1>7 DEF RunAttempt, GoTo
  <2>7. StorageTypes'
    BY <1>7, <2>1 DEF RunAttempt, StorageTypes, Workers, WorkerTypes
  <2>8. step \in Steps \ {"idle"} /\ (step = "finish" => outcome = "success")
    BY DEF outcome, Steps, Working
  <2> HIDE DEF step
  <2>9. WorkerTypes'
    BY <1>7, <2>2, <2>4, <2>5, <2>6, <2>8 DEF RunAttempt, Workers, WorkerTypes
  <2>10. HasJob'
    BY <1>7, <2>1, <2>6 DEF RunAttempt, Workers, WorkerTypes, HasJob
  <2>11. HasCorrection'
    BY <2>3, <2>4, <2>6, <2>8 DEF Workers, WorkerTypes, HasCorrection
  <2>12. OwnRows'
    BY <1>7, <2>3, <2>4, <2>6, <2>8 DEF RunAttempt, Workers, WorkerTypes, OwnRows
  <2> QED BY <1>7, <2>7, <2>9, <2>10, <2>11, <2>12, Frame DEF RunAttempt, Workers
<1> QED BY <1>1, <1>2, <1>3, <1>4, <1>5, <1>6, <1>7, <1>8, <1>9, <1>10, <1>11
        DEF Progress

LEMMA TypedTrouble ==
  ASSUME Typed, NEW d \in Deliveries, Trouble(d)
  PROVE  Typed'
<1> USE DEF Typed
<1>j. ASSUME pc[d] # "idle" PROVE job[d] \in Jobs
  BY <1>j DEF Workers, HasJob
<1>1. CASE StartFails(d)
  <2>1. DatabaseTypes'
    <3>1. CASE SaveProcessing(d)
      BY <1>1, <1>j, <3>1 DEF StartFails, SaveProcessing, DatabaseTypes, Statuses
    <3>2. CASE UNCHANGED status
      BY <1>1, <3>2 DEF StartFails, DatabaseTypes
    <3> QED BY <1>1, <3>1, <3>2 DEF StartFails
  <2>2. Workers'
    BY <1>1, WorkersMove DEF StartFails, Workers, WorkerTypes, Steps, Working
  <2> QED BY <1>1, <2>1, <2>2, Frame, FaultType DEF StartFails
<1>2. CASE TranscribeFails(d)
  <2>1. DatabaseTypes'
    <3>1. CASE SaveText(d)
      BY <1>2, <3>1 DEF TranscribeFails, SaveText, DatabaseTypes, Traces
    <3>2. CASE UNCHANGED <<text, trace>>
      BY <1>2, <3>2 DEF TranscribeFails, DatabaseTypes
    <3> QED BY <1>2, <3>1, <3>2 DEF TranscribeFails
  <2>2. Workers'
    BY <1>2, WorkersMove DEF TranscribeFails, Workers, WorkerTypes, Steps, Working
  <2> QED BY <1>2, <2>1, <2>2, Frame, FaultType DEF TranscribeFails
<1>3. CASE AttemptFails(d)
  <2>1. StorageTypes'
    <3>1. CASE exchange' = [exchange EXCEPT ![job[d]][attempt[d]] = d]
      BY <1>3, <1>j, <3>1 DEF AttemptFails, StorageTypes, Workers, WorkerTypes
    <3>2. CASE UNCHANGED exchange
      BY <1>3, <3>2 DEF AttemptFails, StorageTypes
    <3> QED BY <1>3, <3>1, <3>2 DEF AttemptFails
  <2>2. Workers'
    BY <1>3, WorkersMove DEF AttemptFails, Workers, WorkerTypes, Steps, Working
  <2> QED BY <1>3, <2>1, <2>2, Frame, FaultType DEF AttemptFails
<1>4. CASE SettleFails(d)
  <2>1. DatabaseTypes'
    <3>1. CASE Save(d)
      BY <1>4, <3>1, SavedType DEF SettleFails
    <3>2. CASE UNCHANGED <<attempts, result, status>>
      BY <1>4, <3>2 DEF SettleFails, DatabaseTypes
    <3> QED BY <1>4, <3>1, <3>2 DEF SettleFails
  <2>2. Workers'
    BY <1>4, WorkersMove DEF SettleFails, Workers, WorkerTypes, Steps, Working
  <2> QED BY <1>4, <2>1, <2>2, Frame, FaultType DEF SettleFails
<1>5. CASE RescueFails(d)
  <2>1. Workers'
    BY <1>5, WorkersMove DEF RescueFails, Workers, WorkerTypes, Steps, Working
  <2> QED BY <1>5, <2>1, Frame, FaultType DEF RescueFails
<1>6. CASE Crash(d)
  <2>1. Workers'
    BY <1>6, WorkersMove DEF Crash, Workers, WorkerTypes, Steps, Working
  <2>2. BoundTypes'
    BY <1>6 DEF Crash, BoundTypes
  <2> QED BY <1>6, <2>1, <2>2, Frame DEF Crash
<1> QED BY <1>1, <1>2, <1>3, <1>4, <1>5, <1>6 DEF Trouble

LEMMA TypedStep == Typed /\ [Next]_vars => Typed'
<1> SUFFICES ASSUME Typed, [Next]_vars PROVE Typed'
  OBVIOUS
<1>1. CASE Next
  BY <1>1, TypedApi, TypedQueue, TypedProgress, TypedTrouble DEF Next
<1>2. CASE UNCHANGED vars
  BY <1>2, Frame DEF vars, Typed
<1> QED BY <1>1, <1>2

LEMMA TypedAlways == Spec => []Typed
BY TypedInit, TypedStep, PTL DEF Spec

\* Every variable keeps its type.
THEOREM TypeCorrect == Spec => []TypeOK
<1>1. Typed => TypeOK
  BY DEF Typed, TypeOK, Workers
<1> QED BY <1>1, TypedAlways, PTL

------------------------------------------------------------------------
(* The result of a job.                                                   *)

Recorded == DoneHasResult /\ ResultIsRecorded

\* A step that inserts no result keeps what is known of the results, when
\* it erases no attempt and finishes no job.
LEMMA RecordedFrame ==
  ASSUME Recorded, UNCHANGED result, attempts \subseteq attempts',
         \A j \in Jobs : status'[j] = "done" => status[j] = "done"
  PROVE  Recorded'
BY DEF Recorded, DoneHasResult, ResultIsRecorded

\* The commit at the end of the loop inserts the result together with the
\* attempt it points to and the status.
LEMMA RecordedSave ==
  ASSUME Typed, Recorded, NEW d \in Deliveries,
         pc[d] \in {"finish", "exhausted"}, Save(d)
  PROVE  /\ Recorded'
         /\ \A j \in Jobs : result[j] # None => result'[j] = result[j]
<1>1. job[d] \in Jobs
  BY DEF Typed, Workers, HasJob
<1>2. CASE pc[d] = "finish"
  <2>1. /\ Correction(d) \in flushed[d]
        /\ Correction(d).outcome = "success"
        /\ Correction(d).job = job[d]
    BY <1>2, CorrectionIsFlushed DEF Typed, Workers, OwnRows
  <2>0. Correction(d) # None
    BY <2>1, NoneAssumption DEF Typed, Workers, WorkerTypes
  <2>2. attempts' = attempts \cup flushed[d]
    BY <1>2 DEF Save, SaveDone
  <2>3. \A j \in Jobs : result'[j] = IF j = job[d] /\ result[j] = None
                                       THEN Correction(d) ELSE result[j]
    BY <1>1, <1>2 DEF Save, SaveDone, Typed, DatabaseTypes
  <2>4. \A j \in Jobs \ {job[d]} : status'[j] = status[j]
    BY <1>2 DEF Save, SaveDone, Typed, DatabaseTypes
  <2> QED BY <2>0, <2>1, <2>2, <2>3, <2>4 DEF Recorded, DoneHasResult, ResultIsRecorded
<1>3. CASE pc[d] = "exhausted"
  BY <1>1, <1>3, RecordedFrame DEF Save, SaveFailed, Typed, DatabaseTypes
<1> QED BY <1>2, <1>3

\* Every other step leaves the results, adds no "done" and erases no attempt.
LEMMA RecordedStep ==
  ASSUME Typed, Recorded, [Next]_vars
  PROVE  /\ Recorded'
         /\ \A j \in Jobs : result[j] # None => result'[j] = result[j]
<1> DEFINE Kept == Recorded' /\ \A j \in Jobs : result[j] # None => result'[j] = result[j]
<1>q. ASSUME UNCHANGED dbVars PROVE Kept
  BY <1>q, RecordedFrame DEF dbVars
<1>s. ASSUME UNCHANGED <<attempts, result>>,
             \A j \in Jobs : status'[j] = "done" => status[j] = "done"
      PROVE  Kept
  BY <1>s, RecordedFrame
<1>1. ASSUME NEW r \in Requests, ApiStep(r) PROVE Kept
  <2>1. CASE CommitBatch(r)
    BY <2>1, <1>s DEF CommitBatch
  <2>2. CASE StoreOriginal(r) \/ RejectBatch(r) \/ Dispatch(r) \/ Answer(r) \/ DispatchFails(r)
    BY <2>2, <1>q DEF StoreOriginal, RejectBatch, Dispatch, Answer, DispatchFails
  <2> QED BY <1>1, <2>1, <2>2 DEF ApiStep
<1>2. ASSUME NEW d \in Deliveries, \/ \E j \in Jobs : Receive(d, j)
                                   \/ Expire(d)
      PROVE  Kept
  BY <1>2, <1>q DEF Receive, Expire
<1>3. ASSUME NEW d \in Deliveries, Progress(d) PROVE Kept
  <2>1. CASE Settle(d)
    BY <2>1, RecordedSave DEF Settle
  <2>2. CASE MarkProcessing(d)
    BY <2>2, <1>s DEF MarkProcessing, SaveProcessing, Typed, DatabaseTypes
  <2>3. CASE MarkFailed(d)
    BY <2>3, <1>s DEF MarkFailed, Typed, DatabaseTypes
  <2>4. CASE KeepText(d) \/ KeepTrace(d)
    BY <2>4, <1>s DEF KeepText, KeepTrace
  <2>5. CASE LoadJob(d) \/ LoadSubmission(d) \/ Transcribe(d) \/ Rescue(d) \/ Ack(d)
    BY <2>5, <1>q DEF LoadJob, LoadSubmission, Transcribe, Rescue, Ack
  <2>6. CASE \E corrected \in BOOLEAN : RunAttempt(d, corrected)
    BY <2>6, <1>q DEF RunAttempt
  <2> QED BY <1>3, <2>1, <2>2, <2>3, <2>4, <2>5, <2>6 DEF Progress
<1>4. ASSUME NEW d \in Deliveries, Trouble(d) PROVE Kept
  <2>1. CASE SettleFails(d)
    <3>1. CASE Save(d)
      BY <2>1, <3>1, RecordedSave DEF SettleFails
    <3>2. CASE UNCHANGED <<attempts, result, status>>
      BY <3>2, <1>s
    <3> QED BY <2>1, <3>1, <3>2 DEF SettleFails
  <2>2. CASE StartFails(d)
    BY <2>2, <1>s DEF StartFails, SaveProcessing, Typed, DatabaseTypes
  <2>3. CASE TranscribeFails(d)
    BY <2>3, <1>s DEF TranscribeFails
  <2>4. CASE AttemptFails(d) \/ RescueFails(d) \/ Crash(d)
    BY <2>4, <1>q DEF AttemptFails, RescueFails, Crash
  <2> QED BY <1>4, <2>1, <2>2, <2>3, <2>4 DEF Trouble
<1>5. CASE UNCHANGED vars
  BY <1>5, <1>q DEF vars
<1> QED BY <1>1, <1>2, <1>3, <1>4, <1>5 DEF Next

LEMMA RecordedAlways == Spec => []Recorded
<1>1. Init => Recorded
  BY DEF Init, Recorded, DoneHasResult, ResultIsRecorded
<1> QED BY <1>1, TypedAlways, RecordedStep, PTL DEF Spec

\* A job that is done has a result, whatever crashes and overlaps.
THEOREM DoneJobsHaveResults == Spec => []DoneHasResult
<1>1. Recorded => DoneHasResult
  BY DEF Recorded
<1> QED BY <1>1, RecordedAlways, PTL

\* A result points to a committed, successful attempt of its job.
THEOREM ResultsAreRecorded == Spec => []ResultIsRecorded
<1>1. Recorded => ResultIsRecorded
  BY DEF Recorded
<1> QED BY <1>1, RecordedAlways, PTL

\* No delivery replaces the result of another.
THEOREM ResultsAreWriteOnce == Spec => ResultIsWriteOnce
<1>1. Typed /\ Recorded /\ [Next]_vars =>
        [\A j \in Jobs : result[j] # None => result'[j] = result[j]]_result
  BY RecordedStep
<1> QED BY <1>1, TypedAlways, RecordedAlways, PTL DEF Spec, ResultIsWriteOnce

------------------------------------------------------------------------
(***************************************************************************)
(* Proofs about what CorrectionPipeline records, in which order: the       *)
(* attempts of a delivery are committed as a whole loop, a row before its  *)
(* message and an image before its row.  They hold for any constants, the  *)
(* overlaps, crashes and faults included.                                  *)
(***************************************************************************)

\* One step of delivery d, of the broker that hands it over or of its crash.
DeliveryStep(d) ==
  (\E j \in Jobs : Receive(d, j)) \/ Expire(d) \/ Progress(d) \/ Trouble(d)

\* A delivery touches its own variables, the columns of its own job and submission,
\* and adds no attempts but those it has flushed.
Local(d) ==
  /\ \A e \in Deliveries \ {d} :
       /\ pc'[e] = pc[e] /\ job'[e] = job[e] /\ receipt'[e] = receipt[e] /\ seen'[e] = seen[e]
       /\ draft'[e] = draft[e] /\ attempt'[e] = attempt[e] /\ flushed'[e] = flushed[e]
  /\ UNCHANGED <<request, sent, originals>>
  /\ \A j \in Jobs \ {job'[d]} :
       /\ status'[j] = status[j] /\ result'[j] = result[j]
       /\ exchange'[j] = exchange[j] /\ message'[j] = message[j]
  /\ \A s \in Submissions : s # SubmissionOf[job'[d]] => text'[s] = text[s] /\ trace'[s] = trace[s]
  /\ \/ attempts' = attempts
     \/ pc[d] \in {"finish", "exhausted"} /\ attempts' = attempts \cup flushed[d]
  /\ pc[d] # "idle" => job'[d] = job[d]
  /\ pc'[d] # "idle" /\ job'[d] \in Jobs

\* Every step of a delivery but the expiry of an empty receipt is local to it.
LEMMA LocalStep ==
  ASSUME Typed, NEW d \in Deliveries, DeliveryStep(d)
  PROVE  Local(d) \/ (pc[d] = "idle" /\ Expire(d))
<1> USE DEF Local
<1>t. /\ pc \in [Deliveries -> Steps] /\ job \in [Deliveries -> Jobs \cup {None}]
      /\ receipt \in [Deliveries -> {"none", "valid", "stale"}]
      /\ seen \in [Deliveries -> Statuses] /\ draft \in [Deliveries -> Deliveries \cup {None}]
      /\ attempt \in [Deliveries -> Numbers] /\ flushed \in [Deliveries -> SUBSET AttemptRows]
      /\ status \in [Jobs -> Statuses] /\ result \in [Jobs -> AttemptRows \cup {None}]
      /\ text \in [Submissions -> Deliveries \cup {None}]
      /\ trace \in [Submissions -> Traces \cup {None}]
      /\ exchange \in [Jobs -> [Numbers -> Deliveries \cup {None}]]
      /\ message \in [Jobs -> {"unsent", "visible", "inflight", "gone"}]
  BY DEF Typed, DatabaseTypes, StorageTypes, QueueTypes, Workers, WorkerTypes
<1>j. pc[d] # "idle" => job[d] \in Jobs
  BY DEF Typed, Workers, HasJob
<1>1. ASSUME NEW j \in Jobs, Receive(d, j) PROVE Local(d)
  BY <1>1, <1>t DEF Receive, GoTo, dbVars, storageVars, apiVars
<1>2. CASE Expire(d) /\ pc[d] # "idle"
  BY <1>2, <1>t, <1>j DEF Expire, dbVars, storageVars, apiVars
<1>3. CASE Ack(d)
  BY <1>3, <1>t, <1>j DEF Ack, GoTo, dbVars, storageVars, apiVars
<1>4. CASE LoadJob(d)
  BY <1>4, <1>t, <1>j DEF LoadJob, GoTo, dbVars, storageVars, apiVars
<1>5. CASE LoadSubmission(d)
  BY <1>5, <1>t, <1>j DEF LoadSubmission, GoTo, dbVars, storageVars, apiVars
<1>6. CASE MarkProcessing(d)
  BY <1>6, <1>t, <1>j DEF MarkProcessing, SaveProcessing, GoTo, storageVars, apiVars
<1>7. CASE StartFails(d)
  BY <1>7, <1>t, <1>j DEF StartFails, SaveProcessing, GoTo, storageVars, apiVars
<1>8. CASE Transcribe(d)
  BY <1>8, <1>t, <1>j DEF Transcribe, GoTo, dbVars, apiVars
<1>9. CASE KeepText(d)
  BY <1>9, <1>t, <1>j DEF KeepText, SaveText, Sub, GoTo, storageVars, apiVars
<1>10. CASE KeepTrace(d)
  BY <1>10, <1>t, <1>j DEF KeepTrace, Sub, GoTo, storageVars, apiVars
<1>11. CASE TranscribeFails(d)
  BY <1>11, <1>t, <1>j DEF TranscribeFails, SaveText, Sub, GoTo, storageVars, apiVars
<1>12. ASSUME NEW corrected \in BOOLEAN, RunAttempt(d, corrected) PROVE Local(d)
  BY <1>12, <1>t, <1>j DEF RunAttempt, GoTo, dbVars, apiVars
<1>13. CASE AttemptFails(d)
  BY <1>13, <1>t, <1>j DEF AttemptFails, GoTo, dbVars, apiVars
<1>14. CASE Settle(d)
  BY <1>14, <1>t, <1>j DEF Settle, Save, SaveDone, SaveFailed, GoTo, storageVars, apiVars
<1>15. CASE SettleFails(d)
  BY <1>15, <1>t, <1>j DEF SettleFails, Save, SaveDone, SaveFailed, GoTo, storageVars, apiVars
<1>16. CASE Rescue(d)
  BY <1>16, <1>t, <1>j DEF Rescue, GoTo, dbVars, storageVars, apiVars
<1>17. CASE MarkFailed(d)
  BY <1>17, <1>t, <1>j DEF MarkFailed, GoTo, storageVars, apiVars
<1>18. CASE RescueFails(d)
  BY <1>18, <1>t, <1>j DEF RescueFails, GoTo, dbVars, storageVars, apiVars
<1>19. CASE Crash(d)
  BY <1>19, <1>t, <1>j DEF Crash, Working, GoTo, dbVars, storageVars, apiVars
<1> QED BY <1>1, <1>2, <1>3, <1>4, <1>5, <1>6, <1>7, <1>8, <1>9, <1>10, <1>11, <1>12,
          <1>13, <1>14, <1>15, <1>16, <1>17, <1>18, <1>19 DEF DeliveryStep, Progress, Trouble

------------------------------------------------------------------------
(* The attempts a delivery commits tell its whole loop.                   *)

\* Row has its place in a whole loop: what AttemptHistory says of one row.
InHistory(row, rows) ==
  /\ row.outcome = "failed" => row.number = MaxAttempts
  /\ \A n \in 1..(row.number - 1) :
       \E r \in rows : /\ r.by = row.by /\ r.job = row.job
                       /\ r.number = n /\ r.outcome = "retry"
  /\ row.outcome = "retry" =>
       \E r \in rows : /\ r.by = row.by /\ r.job = row.job
                       /\ r.number = row.number + 1

\* Steps of a delivery before its first attempt.
Before == {"idle", "load", "submission", "start", "transcribe", "keep_text", "keep_trace"}

\* The flushed rows are a prefix of the loop, and all of it at its end.
Prefix(d) ==
  /\ \A row \in flushed[d] : row.outcome = "retry" /\ row.number < attempt[d]
  /\ \A n \in 1..(attempt[d] - 1) : \E row \in flushed[d] : row.number = n
Loop(d) ==
  /\ \A row \in flushed[d] : row.by = d
  /\ pc[d] \in Before => flushed[d] = {} /\ attempt[d] = 1
  /\ pc[d] = "attempt" => Prefix(d)
  /\ pc[d] \in {"finish", "exhausted"} => \A row \in flushed[d] : InHistory(row, flushed[d])

\* The invariant behind AttemptHistory.
Historic == AttemptHistory /\ \A d \in Deliveries : Loop(d)

\* The types of one delivery.
LEMMA DeliveryTypes ==
  ASSUME Typed, NEW d \in Deliveries
  PROVE  /\ pc[d] \in Steps /\ attempt[d] \in Numbers /\ flushed[d] \subseteq AttemptRows
         /\ receipt[d] \in {"none", "valid", "stale"} /\ seen[d] \in Statuses
         /\ draft[d] \in Deliveries \cup {None}
         /\ pc[d] # "idle" => job[d] \in Jobs
         /\ \A row \in flushed[d] : row.job = job[d]
         /\ pc \in [Deliveries -> Steps] /\ job \in [Deliveries -> Jobs \cup {None}]
         /\ attempt \in [Deliveries -> Numbers] /\ flushed \in [Deliveries -> SUBSET AttemptRows]
         /\ receipt \in [Deliveries -> {"none", "valid", "stale"}]
         /\ seen \in [Deliveries -> Statuses] /\ draft \in [Deliveries -> Deliveries \cup {None}]
BY DEF Typed, Workers, WorkerTypes, HasJob, OwnRows

\* A step of the loop adds the row of its number.
LEMMA AttemptLoop ==
  ASSUME Typed, NEW d \in Deliveries, Loop(d), NEW corrected \in BOOLEAN,
         RunAttempt(d, corrected)
  PROVE  Loop(d)'
<1> DEFINE last == attempt[d] = MaxAttempts
           outcome == IF corrected THEN "success" ELSE IF last THEN "failed" ELSE "retry"
           new == Row(d, outcome)
<1>1. /\ pc[d] = "attempt" /\ job'[d] = job[d]
      /\ flushed'[d] = flushed[d] \cup {new}
      /\ attempt'[d] = IF corrected \/ last THEN attempt[d] ELSE attempt[d] + 1
      /\ pc'[d] = IF corrected THEN "finish" ELSE IF last THEN "exhausted" ELSE "attempt"
  BY DeliveryTypes DEF RunAttempt, GoTo
<1>2. /\ new.by = d /\ new.job = job[d] /\ new.number = attempt[d] /\ new.outcome = outcome
  BY DEF Row
<1>3. /\ attempt[d] \in Nat /\ MaxAttempts \in Nat
      /\ \A row \in flushed[d] : row.number \in Nat /\ row.number >= 1
  BY DeliveryTypes, AttemptsAssumption DEF Numbers, AttemptRows
<1>4. /\ \A row \in flushed[d] : row.by = d /\ row.job = job[d]
      /\ Prefix(d)
  BY <1>1, DeliveryTypes DEF Loop
<1> HIDE DEF new
<1>5. CASE pc'[d] = "attempt"
  <2>1. attempt'[d] = attempt[d] + 1 /\ outcome = "retry"
    BY <1>1, <1>5
  <2>2. Prefix(d)'
    <3>1. \A row \in flushed'[d] : row.outcome = "retry" /\ row.number < attempt'[d]
      BY <1>1, <1>2, <1>3, <1>4, <2>1 DEF Prefix
    <3>2. ASSUME NEW n \in 1..(attempt'[d] - 1)
          PROVE  \E row \in flushed'[d] : row.number = n
      BY <1>1, <1>2, <1>3, <1>4, <2>1 DEF Prefix
    <3> QED BY <3>1, <3>2 DEF Prefix
  <2> QED BY <1>1, <1>2, <1>4, <1>5, <2>2 DEF Loop, Before
<1>6. CASE pc'[d] \in {"finish", "exhausted"}
  <2>1. outcome # "retry" /\ (outcome = "failed" => attempt[d] = MaxAttempts)
    BY <1>1, <1>6
  <2>2. ASSUME NEW row \in flushed'[d] PROVE InHistory(row, flushed'[d])
    <3>1. row.by = d /\ row.job = job[d] /\ row.number \in Nat /\ row.number <= attempt[d]
      BY <1>1, <1>2, <1>3, <1>4 DEF Prefix
    <3>2. ASSUME NEW n \in 1..(row.number - 1)
          PROVE  \E r \in flushed'[d] : /\ r.by = d /\ r.job = job[d]
                                        /\ r.number = n /\ r.outcome = "retry"
      <4>1. n \in 1..(attempt[d] - 1)
        BY <1>3, <3>1
      <4> QED BY <1>1, <1>4, <4>1 DEF Prefix
    <3>3. ASSUME row.outcome = "retry"
          PROVE  \E r \in flushed'[d] : r.by = d /\ r.job = job[d] /\ r.number = row.number + 1
      <4>1. row \in flushed[d] /\ row.number < attempt[d]
        BY <1>1, <1>2, <1>4, <2>1, <3>3 DEF Prefix
      <4>2. CASE row.number + 1 = attempt[d]
        BY <1>1, <1>2, <4>2
      <4>3. CASE row.number + 1 # attempt[d]
        <5>1. row.number + 1 \in 1..(attempt[d] - 1)
          BY <1>3, <4>1, <4>3
        <5> QED BY <1>1, <1>4, <5>1 DEF Prefix
      <4> QED BY <4>2, <4>3
    <3>4. row.outcome = "failed" => row.number = MaxAttempts
      BY <1>1, <1>2, <1>4, <2>1 DEF Prefix
    <3> QED BY <3>1, <3>2, <3>3, <3>4 DEF InHistory
  <2> QED BY <1>1, <1>2, <1>4, <1>6, <2>2 DEF Loop, Before
<1> QED BY <1>1, <1>5, <1>6

\* Every other step keeps the rows or gives them up.
LEMMA OtherLoop ==
  ASSUME Typed, NEW d \in Deliveries, Loop(d), DeliveryStep(d),
         \A corrected \in BOOLEAN : ~RunAttempt(d, corrected)
  PROVE  Loop(d)'
<1> DEFINE Kept ==
             /\ attempt'[d] = attempt[d] /\ flushed'[d] \in {flushed[d], {}}
             /\ pc'[d] = pc[d] => flushed'[d] = flushed[d]
             /\ pc'[d] # pc[d] => pc'[d] \notin {"finish", "exhausted"}
             /\ pc'[d] # pc[d] /\ pc'[d] \in Before \cup {"attempt"} =>
                  pc[d] \in Before /\ flushed'[d] = flushed[d]
<1> SUFFICES Kept
  BY DEF Loop, Prefix, Before, InHistory
<1>1. CASE (\E j \in Jobs : Receive(d, j)) \/ Expire(d) \/ Ack(d)
  BY <1>1, DeliveryTypes DEF Receive, Expire, Ack, GoTo, Before
<1>2. CASE LoadJob(d) \/ LoadSubmission(d) \/ MarkProcessing(d) \/ StartFails(d)
  BY <1>2, DeliveryTypes DEF LoadJob, LoadSubmission, MarkProcessing, StartFails, GoTo, Before
<1>3. CASE Transcribe(d) \/ KeepText(d) \/ KeepTrace(d) \/ TranscribeFails(d)
  BY <1>3, DeliveryTypes DEF Transcribe, KeepText, KeepTrace, TranscribeFails, GoTo, Before
<1>4. CASE AttemptFails(d) \/ Settle(d) \/ SettleFails(d)
  BY <1>4, DeliveryTypes DEF AttemptFails, Settle, SettleFails, GoTo, Before
<1>5. CASE Rescue(d) \/ MarkFailed(d) \/ RescueFails(d) \/ Crash(d)
  BY <1>5, DeliveryTypes DEF Rescue, MarkFailed, RescueFails, Crash, GoTo, Before, Working
<1> QED BY <1>1, <1>2, <1>3, <1>4, <1>5 DEF DeliveryStep, Progress, Trouble

\* A step belongs to a request or to a delivery.
LEMMA StepKinds ==
  ASSUME [Next]_vars
  PROVE  \/ \E r \in Requests : ApiStep(r)
         \/ \E d \in Deliveries : DeliveryStep(d)
         \/ UNCHANGED vars
BY DEF Next, DeliveryStep

\* Requests leave deliveries, attempts and outcomes alone.
LEMMA ApiLeavesWorkers ==
  ASSUME NEW r \in Requests, ApiStep(r)
  PROVE  UNCHANGED <<attempts, result, text, trace, exchange, scan,
                     pc, job, receipt, seen, draft, attempt, flushed>>
BY DEF ApiStep, StoreOriginal, CommitBatch, RejectBatch, Dispatch, Answer, DispatchFails,
       dbVars, storageVars, workerVars

\* A whole loop added to whole loops leaves whole loops.
LEMMA CommitKeepsHistory ==
  ASSUME AttemptHistory, NEW rows, \A row \in rows : InHistory(row, rows),
         attempts' = attempts \/ attempts' = attempts \cup rows
  PROVE  AttemptHistory'
<1>1. \A row \in attempts : InHistory(row, attempts)
  BY DEF AttemptHistory, InHistory
<1>2. \A row \in attempts' : InHistory(row, attempts')
  BY <1>1 DEF InHistory
<1> QED BY <1>2 DEF AttemptHistory, InHistory

\* Every step preserves Historic.
LEMMA HistoricStep ==
  ASSUME Typed, Historic, [Next]_vars
  PROVE  Historic'
<1> DEFINE Kept == AttemptHistory' /\ \A d \in Deliveries : Loop(d)'
<1> SUFFICES Kept
  BY DEF Historic
<1>1. ASSUME UNCHANGED <<attempts, pc, job, attempt, flushed>> PROVE Kept
  BY <1>1 DEF Historic, AttemptHistory, Loop, Prefix, InHistory
<1>2. ASSUME NEW r \in Requests, ApiStep(r) PROVE Kept
  BY <1>1, <1>2, ApiLeavesWorkers
<1>3. ASSUME NEW d \in Deliveries, DeliveryStep(d) PROVE Kept
  <2>1. CASE Local(d)
    <3>1. Loop(d)'
      BY <1>3, AttemptLoop, OtherLoop DEF Historic
    <3>2. ASSUME NEW e \in Deliveries \ {d} PROVE Loop(e)'
      BY <2>1 DEF Local, Historic, Loop, Prefix, InHistory
    <3>3. AttemptHistory'
      <4>1. CASE pc[d] \in {"finish", "exhausted"}
        BY <2>1, <4>1, CommitKeepsHistory DEF Local, Historic, Loop
      <4>2. CASE attempts' = attempts
        BY <4>2 DEF Historic, AttemptHistory
      <4> QED BY <2>1, <4>1, <4>2 DEF Local
    <3> QED BY <3>1, <3>2, <3>3
  <2>2. CASE Expire(d)
    BY <1>1, <2>2 DEF Expire, dbVars
  <2> QED BY <1>3, <2>1, <2>2, LocalStep
<1>4. CASE UNCHANGED vars
  BY <1>1, <1>4 DEF vars, dbVars, workerVars
<1> QED BY <1>2, <1>3, <1>4, StepKinds

\* Historic is an invariant.
LEMMA HistoricAlways == Spec => []Historic
<1>1. Init => Historic
  BY DEF Init, Historic, AttemptHistory, Loop, Before
<1>2. Typed /\ Historic /\ [Next]_vars => Historic'
  BY HistoricStep
<1> QED BY <1>1, <1>2, TypedAlways, PTL DEF Spec

\* The committed attempts of a delivery are a whole loop: no number is missing before
\* the last, and the last is a success or the failure of the last number, whatever
\* failed, crashed or overlapped.
THEOREM HistoriesAreWhole == Spec => []AttemptHistory
<1>1. Historic => AttemptHistory
  BY DEF Historic
<1> QED BY <1>1, HistoricAlways, PTL

------------------------------------------------------------------------
(* A row is there before its message, and an image before its row.        *)

\* What a batch names are jobs.
LEMMA BatchJobs ==
  ASSUME NEW r \in Requests
  PROVE  /\ Len(JobsOf[r]) \in Nat
         /\ \A i \in 1..Len(JobsOf[r]) : JobsOf[r][i] \in Jobs /\ JobsOf[r][i] \in JobSet(r)
         /\ JobSet(r) \subseteq Jobs
         /\ \A j \in JobSet(r) : \E i \in 1..Len(JobsOf[r]) : j = JobsOf[r][i]
BY BatchAssumption DEF JobSet, Range

\* A receipt that still counts belongs to a delivery that has started.
Received == \A d \in Deliveries : receipt[d] = "valid" => pc[d] # "idle"

\* The row of a job is committed before anybody learns of the job.
Created ==
  /\ \A r \in Requests : request[r] = "dispatching" =>
       \A j \in JobSet(r) : status[j] # "absent"
  /\ \A j \in Jobs : message[j] # "unsent" => status[j] # "absent"
  /\ \A d \in Deliveries : pc[d] # "idle" => status[job[d]] # "absent"

\* The invariant behind OriginalBeforeRow.
Uploaded == Received /\ Created /\ OriginalBeforeRow

\* No delivery takes back that the job is there and its message was sent.
LEMMA OwnRow ==
  ASSUME Typed, Received, NEW d \in Deliveries, DeliveryStep(d)
  PROVE  /\ Local(d)
         /\ receipt'[d] = "valid" => receipt[d] = "valid" \/ pc[d] = "idle"
         /\ message[job'[d]] # "unsent" => message'[job'[d]] # "unsent"
         /\ pc[d] = "idle" => message[job'[d]] = "visible"
         /\ status[job'[d]] # "absent" => status'[job'[d]] # "absent"
<1>1. Local(d)
  BY LocalStep DEF Received, Expire
<1>2. job'[d] \in Jobs /\ (pc[d] # "idle" => job'[d] = job[d])
  BY <1>1 DEF Local
<1>3. /\ status \in [Jobs -> Statuses]
      /\ message \in [Jobs -> {"unsent", "visible", "inflight", "gone"}]
  BY DEF Typed, DatabaseTypes, QueueTypes
<1> DEFINE Kept ==
             /\ receipt'[d] = "valid" => receipt[d] = "valid" \/ pc[d] = "idle"
             /\ message[job'[d]] # "unsent" => message'[job'[d]] # "unsent"
             /\ pc[d] = "idle" => message[job'[d]] = "visible"
             /\ status[job'[d]] # "absent" => status'[job'[d]] # "absent"
<1> SUFFICES Kept
  BY <1>1
<1>4. CASE (\E j \in Jobs : Receive(d, j)) \/ Expire(d) \/ Ack(d)
  BY <1>2, <1>3, <1>4, DeliveryTypes DEF Receive, Expire, Ack, GoTo, dbVars, Received
<1>5. CASE LoadJob(d) \/ LoadSubmission(d) \/ MarkProcessing(d) \/ StartFails(d)
  BY <1>2, <1>3, <1>5, DeliveryTypes
     DEF LoadJob, LoadSubmission, MarkProcessing, StartFails, SaveProcessing, dbVars
<1>6. CASE \/ Transcribe(d) \/ KeepText(d) \/ KeepTrace(d) \/ TranscribeFails(d)
           \/ \E corrected \in BOOLEAN : RunAttempt(d, corrected)
           \/ AttemptFails(d)
  BY <1>2, <1>3, <1>6, DeliveryTypes
     DEF Transcribe, KeepText, KeepTrace, TranscribeFails, RunAttempt, AttemptFails, dbVars
<1>7. CASE Settle(d) \/ SettleFails(d)
  BY <1>2, <1>3, <1>7, DeliveryTypes DEF Settle, SettleFails, Save, SaveDone, SaveFailed
<1>8. CASE Rescue(d) \/ MarkFailed(d) \/ RescueFails(d) \/ Crash(d)
  BY <1>2, <1>3, <1>8, DeliveryTypes DEF Rescue, MarkFailed, RescueFails, Crash, Working, dbVars
<1> QED BY <1>4, <1>5, <1>6, <1>7, <1>8 DEF DeliveryStep, Progress, Trouble

\* Steps of deliveries preserve Uploaded.
LEMMA UploadedDelivery ==
  ASSUME Typed, Uploaded, NEW d \in Deliveries, DeliveryStep(d)
  PROVE  Uploaded'
<1>1. Local(d)
  BY OwnRow DEF Uploaded
<1>2. /\ receipt'[d] = "valid" => receipt[d] = "valid" \/ pc[d] = "idle"
      /\ message[job'[d]] # "unsent" => message'[job'[d]] # "unsent"
      /\ pc[d] = "idle" => message[job'[d]] = "visible"
      /\ status[job'[d]] # "absent" => status'[job'[d]] # "absent"
  BY OwnRow DEF Uploaded
<1>3. status[job'[d]] # "absent"
  BY <1>1, <1>2 DEF Local, Uploaded, Created
<1>4. \A j \in Jobs : status'[j] # "absent" <=> status[j] # "absent"
  BY <1>1, <1>2, <1>3 DEF Local
<1>5. Received'
  BY <1>1, <1>2 DEF Local, Uploaded, Received
<1>6. OriginalBeforeRow'
  BY <1>1, <1>4 DEF Local, Uploaded, OriginalBeforeRow, Present
<1>7. ASSUME NEW r \in Requests, request'[r] = "dispatching", NEW j \in JobSet(r)
      PROVE  status'[j] # "absent"
  BY <1>1, <1>4, <1>7, BatchJobs DEF Local, Uploaded, Created
<1>8. ASSUME NEW j \in Jobs, message'[j] # "unsent" PROVE status'[j] # "absent"
  BY <1>1, <1>3, <1>4, <1>8 DEF Local, Uploaded, Created
<1>9. ASSUME NEW e \in Deliveries, pc'[e] # "idle" PROVE status'[job'[e]] # "absent"
  BY <1>1, <1>3, <1>4, <1>9, DeliveryTypes DEF Local, Uploaded, Created
<1> QED BY <1>5, <1>6, <1>7, <1>8, <1>9 DEF Uploaded, Created

\* Steps of requests preserve Uploaded.
LEMMA UploadedApi ==
  ASSUME Typed, Uploaded, NEW r \in Requests, ApiStep(r)
  PROVE  Uploaded'
<1>1. Received' /\ UNCHANGED <<pc, job>>
  BY ApiLeavesWorkers DEF Uploaded, Received
<1>2. \A d \in Deliveries : pc[d] # "idle" => job[d] \in Jobs
  BY DeliveryTypes
<1>3. CASE StoreOriginal(r)
  BY <1>1, <1>3 DEF StoreOriginal, dbVars, apiVars, Uploaded, Created, OriginalBeforeRow, Present
<1>4. CASE RejectBatch(r) \/ Answer(r)
  BY <1>1, <1>4 DEF RejectBatch, Answer, dbVars, storageVars, apiVars, Uploaded, Created,
     OriginalBeforeRow, Present, Typed, ApiTypes
<1>5. CASE Dispatch(r) \/ DispatchFails(r)
  <2>1. UNCHANGED <<status, originals>>
    BY <1>5 DEF Dispatch, DispatchFails, dbVars, storageVars
  <2>2. \A q \in Requests : request'[q] = "dispatching" => request[q] = "dispatching"
    BY <1>5 DEF Dispatch, DispatchFails, Typed, ApiTypes
  <2>3. ASSUME NEW j \in Jobs, message'[j] # "unsent" PROVE status[j] # "absent"
    <3>1. message[j] # "unsent" \/ j \in JobSet(r)
      BY <1>5, <2>3, BatchJobs DEF Dispatch, DispatchFails, Typed, ApiTypes, QueueTypes
    <3> QED BY <1>5, <3>1 DEF Dispatch, DispatchFails, Uploaded, Created
  <2> QED BY <1>1, <2>1, <2>2, <2>3 DEF Uploaded, Created, OriginalBeforeRow, Present
<1>6. CASE CommitBatch(r)
  <2>1. \A j \in Jobs : status'[j] = IF j \in JobSet(r) THEN "pending" ELSE status[j]
    BY <1>6 DEF CommitBatch
  <2>2. UNCHANGED <<message, originals>>
    BY <1>6 DEF CommitBatch, storageVars
  <2>3. \A q \in Requests \ {r} : request'[q] = request[q]
    BY <1>6 DEF CommitBatch, Typed, ApiTypes
  <2>4. \A j \in Jobs : status[j] # "absent" => status'[j] # "absent"
    BY <2>1
  <2>5. ASSUME NEW j \in JobSet(r), SubmissionOf[j] \in Images
        PROVE  SubmissionOf[j] \in originals
    <3>1. SubmissionOf[j] \in BatchSubmissions(r)
      BY DEF BatchSubmissions
    <3> QED BY <1>6, <2>5, <3>1 DEF CommitBatch, Uploaded, OriginalBeforeRow
  <2>6. OriginalBeforeRow'
    BY <2>1, <2>2, <2>5 DEF Uploaded, OriginalBeforeRow, Present
  <2>7. ASSUME NEW q \in Requests, request'[q] = "dispatching", NEW j \in JobSet(q)
        PROVE  status'[j] # "absent"
    BY <2>1, <2>3, <2>4, <2>7, BatchJobs DEF Uploaded, Created
  <2> QED BY <1>1, <1>2, <2>2, <2>4, <2>6, <2>7 DEF Uploaded, Created
<1> QED BY <1>3, <1>4, <1>5, <1>6 DEF ApiStep

\* Uploaded is an invariant.
LEMMA UploadedAlways == Spec => []Uploaded
<1>1. Init => Uploaded
  BY DEF Init, Uploaded, Received, Created, OriginalBeforeRow, Present
<1>2. Typed /\ Uploaded /\ [Next]_vars => Uploaded'
  <2> SUFFICES ASSUME Typed, Uploaded, [Next]_vars PROVE Uploaded'
    OBVIOUS
  <2>1. CASE UNCHANGED vars
    BY <2>1 DEF vars, dbVars, storageVars, apiVars, workerVars, Uploaded, Received, Created,
       OriginalBeforeRow, Present
  <2> QED BY <2>1, StepKinds, UploadedApi, UploadedDelivery
<1> QED BY <1>1, <1>2, TypedAlways, PTL DEF Spec

\* Whoever can read the row of a submission finds its image in the storage, those who
\* have it graded again included.
THEOREM OriginalsComeFirst == Spec => []OriginalBeforeRow
<1>1. Uploaded => OriginalBeforeRow
  BY DEF Uploaded
<1> QED BY <1>1, UploadedAlways, PTL

------------------------------------------------------------------------
(* As long as nothing fails, every exchange that is stored has its row.   *)

\* Neither the database nor the storage has failed.
NoFaults == spent.faults = 0

\* One of rows is attempt n of delivery d at job j.
Tells(rows, j, n, d) == \E row \in rows : row.job = j /\ row.number = n /\ row.by = d

\* What delivery d asked and stored: its transaction has the row, or the database.
Called(d) ==
  \A j \in Jobs, n \in Numbers :
    exchange[j][n] = d =>
      \/ pc[d] \in {"attempt", "finish", "exhausted"} /\ Tells(flushed[d], j, n, d)
      \/ pc[d] \in {"ack", "over"} /\ Tells(attempts, j, n, d)
      \/ pc[d] = "dead"

\* The invariant behind EveryCallIsRecorded.
Calls == \A d \in Deliveries : Called(d)

\* A fault is never forgotten, and no step without one gives up a call.
LEMMA FaultsGrow ==
  ASSUME Typed, NEW d \in Deliveries, DeliveryStep(d), NoFaults'
  PROVE  NoFaults /\ ((\E j \in Jobs : Receive(d, j)) \/ Expire(d) \/ Progress(d) \/ Crash(d))
<1>1. spent \in [crashes : Nat, overlaps : Nat, faults : Nat]
  BY DEF Typed, BoundTypes
<1>2. ~Fault
  BY <1>1 DEF Fault, NoFaults
<1>3. CASE (\E j \in Jobs : Receive(d, j)) \/ Expire(d) \/ Crash(d)
  BY <1>1, <1>3 DEF NoFaults, Receive, Expire, Crash
<1>4. CASE Progress(d)
  BY <1>2, <1>4
     DEF NoFaults, Progress, LoadJob, LoadSubmission, MarkProcessing, Transcribe, KeepText,
         KeepTrace, RunAttempt, Settle, Rescue, MarkFailed, Ack
<1> QED BY <1>2, <1>3, <1>4
        DEF DeliveryStep, Trouble, StartFails, TranscribeFails, AttemptFails, SettleFails,
            RescueFails

\* What a step of delivery d makes of its own calls.
LEMMA OwnCalls ==
  ASSUME Typed, NEW d \in Deliveries, Called(d), DeliveryStep(d), NoFaults'
  PROVE  Called(d)'
<1>1. \/ (\E j \in Jobs : Receive(d, j)) \/ Expire(d) \/ Progress(d) \/ Crash(d)
  BY FaultsGrow
<1>2. exchange \in [Jobs -> [Numbers -> Deliveries \cup {None}]]
  BY DEF Typed, StorageTypes
<1> SUFFICES ASSUME NEW j \in Jobs, NEW n \in Numbers, exchange'[j][n] = d
             PROVE  \/ pc'[d] \in {"attempt", "finish", "exhausted"} /\ Tells(flushed'[d], j, n, d)
                    \/ pc'[d] \in {"ack", "over"} /\ Tells(attempts', j, n, d)
                    \/ pc'[d] = "dead"
  BY DEF Called, Tells
<1>3. CASE (\E i \in Jobs : Receive(d, i)) \/ Expire(d) \/ Ack(d) \/ Crash(d)
  BY <1>3, DeliveryTypes DEF Receive, Expire, Ack, Crash, GoTo, dbVars, storageVars, Called
<1>4. CASE \/ LoadJob(d) \/ LoadSubmission(d) \/ MarkProcessing(d)
           \/ Transcribe(d) \/ KeepText(d) \/ KeepTrace(d) \/ Rescue(d) \/ MarkFailed(d)
  BY <1>4, DeliveryTypes
     DEF LoadJob, LoadSubmission, MarkProcessing, Transcribe, KeepText, KeepTrace, Rescue,
         MarkFailed, storageVars, Called
<1>5. ASSUME NEW corrected \in BOOLEAN, RunAttempt(d, corrected)
      PROVE  pc'[d] \in {"attempt", "finish", "exhausted"} /\ Tells(flushed'[d], j, n, d)
  <2> DEFINE last == attempt[d] = MaxAttempts
             outcome == IF corrected THEN "success" ELSE IF last THEN "failed" ELSE "retry"
             new == Row(d, outcome)
  <2>1. /\ pc[d] = "attempt" /\ pc'[d] \in {"attempt", "finish", "exhausted"}
        /\ flushed'[d] = flushed[d] \cup {new}
        /\ exchange' = [exchange EXCEPT ![job[d]][attempt[d]] = d]
        /\ job[d] \in Jobs /\ attempt[d] \in Numbers
    BY <1>5, DeliveryTypes DEF RunAttempt, GoTo
  <2>2. new.by = d /\ new.job = job[d] /\ new.number = attempt[d]
    BY DEF Row
  <2> HIDE DEF new
  <2>3. CASE j = job[d] /\ n = attempt[d]
    BY <2>1, <2>2, <2>3 DEF Tells
  <2>4. CASE ~(j = job[d] /\ n = attempt[d])
    <3>1. exchange[j][n] = d
      BY <1>2, <2>1, <2>4
    <3>2. Tells(flushed[d], j, n, d)
      BY <2>1, <3>1 DEF Called
    <3> QED BY <2>1, <3>2 DEF Tells
  <2> QED BY <2>1, <2>3, <2>4
<1>6. CASE Settle(d)
  <2>1. /\ pc[d] \in {"finish", "exhausted"} /\ pc'[d] = "ack" /\ exchange' = exchange
        /\ attempts' = attempts \cup flushed[d]
    BY <1>6, DeliveryTypes DEF Settle, Save, SaveDone, SaveFailed, GoTo, storageVars
  <2> QED BY <2>1 DEF Called, Tells
<1> QED BY <1>1, <1>3, <1>4, <1>5, <1>6 DEF Progress

\* Every step preserves Calls as long as there is no fault.
LEMMA CallsStep ==
  ASSUME Typed, NoFaults => Calls, [Next]_vars
  PROVE  NoFaults' => Calls'
<1> SUFFICES ASSUME NoFaults' PROVE Calls'
  OBVIOUS
<1>1. ASSUME NoFaults, UNCHANGED <<exchange, attempts, pc, flushed>> PROVE Calls'
  BY <1>1 DEF Calls, Called, Tells
<1>2. ASSUME NEW r \in Requests, ApiStep(r) PROVE Calls'
  <2>1. NoFaults
    <3>1. spent \in [crashes : Nat, overlaps : Nat, faults : Nat]
      BY DEF Typed, BoundTypes
    <3> QED BY <1>2, <3>1 DEF NoFaults, ApiStep, StoreOriginal, CommitBatch, RejectBatch,
            Dispatch, Answer, DispatchFails, Fault
  <2> QED BY <1>1, <1>2, <2>1, ApiLeavesWorkers
<1>3. ASSUME NEW d \in Deliveries, DeliveryStep(d) PROVE Calls'
  <2>1. NoFaults
    BY <1>3, FaultsGrow
  <2>2. CASE Local(d)
    <3>1. Called(d)'
      BY <1>3, <2>1, OwnCalls DEF Calls
    <3>2. attempts \subseteq attempts'
      BY <2>2 DEF Local
    <3>3. ASSUME NEW e \in Deliveries \ {d}, NEW j \in Jobs, NEW n \in Numbers,
                 exchange'[j][n] = e
          PROVE  exchange[j][n] = e
      <4>1. CASE exchange' = exchange
        BY <3>3, <4>1
      <4>2. CASE exchange' = [exchange EXCEPT ![job[d]][attempt[d]] = d]
        BY <3>3, <4>2 DEF Typed, StorageTypes
      <4> QED BY <1>3, <4>1, <4>2, FaultsGrow
              DEF Receive, Expire, Progress, Crash, LoadJob, LoadSubmission, MarkProcessing,
                  Transcribe, KeepText, KeepTrace, RunAttempt, Settle, Rescue, MarkFailed,
                  Ack, storageVars
    <3>4. ASSUME NEW e \in Deliveries \ {d} PROVE Called(e)'
      BY <2>1, <2>2, <3>2, <3>3 DEF Local, Calls, Called, Tells
    <3> QED BY <3>1, <3>4 DEF Calls
  <2>3. CASE Expire(d)
    BY <1>1, <2>1, <2>3 DEF Expire, dbVars, storageVars
  <2> QED BY <1>3, <2>2, <2>3, LocalStep
<1>4. CASE UNCHANGED vars
  BY <1>1, <1>4 DEF vars, dbVars, storageVars, workerVars, NoFaults
<1> QED BY <1>2, <1>3, <1>4, StepKinds

\* As long as neither the database nor the storage fails, every exchange of a delivery
\* that is over has its row, whatever crashes and overlaps: a call that was paid is on record.
THEOREM CallsAreRecorded == Spec => [](NoFaults => EveryCallIsRecorded)
<1>1. Init => (NoFaults => Calls)
  BY NoneAssumption DEF Init, Calls, Called
<1>2. (NoFaults => Calls) => (NoFaults => EveryCallIsRecorded)
  BY DEF Calls, Called, Tells, EveryCallIsRecorded
<1>3. Spec => [](NoFaults => Calls)
  BY <1>1, TypedAlways, CallsStep, PTL DEF Spec
<1> QED BY <1>2, <1>3, PTL

------------------------------------------------------------------------
(***************************************************************************)
(* Proofs about CorrectionPipeline as long as there is no overlap: no      *)
(* message is handed out again while a delivery of it is still running.    *)
(* Then at most one delivery holds the message of a job, and from this     *)
(* follow, whatever crashes and whatever fails, that a job is graded once, *)
(* that its evidence and its text are those of its grade, and that the     *)
(* pipeline implements JobContract.                                        *)
(***************************************************************************)

\* No message was made visible under a running delivery.
NoOverlap == spent.overlaps = 0

\* Steps inside the try of process_correction_job.
Looping == {"transcribe", "keep_text", "keep_trace", "attempt", "finish", "exhausted"}

\* Delivery d has the message of its job, and keeps it until it is
\* acknowledged or, when its worker died, until its receipt expires.
Holds(d) == pc[d] \in Working \/ (pc[d] = "dead" /\ receipt[d] = "valid")

\* What requests have not sent yet, nobody has.
Unsent ==
  /\ \A r \in Requests : request[r] = "new" =>
       sent[r] = 0 /\ \A j \in JobSet(r) : status[j] = "absent"
  /\ \A r \in Requests : request[r] \in {"new", "dispatching"} =>
       \A i \in 1..Len(JobsOf[r]) : i > sent[r] => message[JobsOf[r][i]] = "unsent"
  /\ \A d \in Deliveries : pc[d] # "idle" => message[job[d]] # "unsent"

\* At most one delivery holds the message of a job.
Exclusive ==
  /\ \A d \in Deliveries : Holds(d) => message[job[d]] # "visible"
  /\ \A d, e \in Deliveries : Holds(d) /\ Holds(e) /\ job[d] = job[e] => d = e

\* The status of its job at each step of a delivery.
Stage(d) ==
  /\ pc[d] \in {"submission", "start"} =>
       seen[d] = status[job[d]] /\ seen[d] \in {"pending", "processing"}
  /\ pc[d] \in Looping => status[job[d]] = "processing"
  /\ pc[d] \in {"rescue", "mark_failed"} => status[job[d]] \in {"processing"} \cup Terminal
  /\ pc[d] = "mark_failed" => seen[d] = status[job[d]]

\* A job that is not settled has neither attempts nor a result.
Unsettled ==
  /\ \A row \in attempts : status[row.job] \in Terminal
  /\ \A j \in Jobs : result[j] # None => status[j] = "done"

\* The exchanges of the rows of an open transaction are its own.
Stored(d) ==
  pc[d] \in {"attempt", "finish", "exhausted"} =>
    \A row \in flushed[d] : exchange[row.job][row.number] = d

\* The invariant behind OneHistoryPerJob and the contract.
Alone ==
  /\ Unsent /\ Exclusive /\ \A d \in Deliveries : Stage(d)
  /\ Unsettled /\ OneHistoryPerJob
\* The invariant behind EvidenceIsItsOwn.
Evidence == EvidenceIsItsOwn /\ \A d \in Deliveries : Stored(d)

\* No submission is graded again.
OneJobEach == \A i, j \in Jobs : SubmissionOf[i] = SubmissionOf[j] => i = j

\* What a delivery knows of the text of its essay is what the database has.
Reads(d) ==
  /\ pc[d] \in {"start", "attempt", "finish", "exhausted"} => draft[d] = text[Sub(d)]
  /\ pc[d] \in {"transcribe", "keep_text", "keep_trace"} => text[Sub(d)] = None
  /\ pc[d] \in {"attempt", "finish", "exhausted"} =>
       \A row \in flushed[d] : row.text = text[Sub(d)]
\* The invariant behind GradedTextIsOnRecord and TraceDescribesText.
Texts == GradedTextIsOnRecord /\ TraceDescribesText /\ \A d \in Deliveries : Reads(d)

------------------------------------------------------------------------
(* Who holds a message.                                                   *)

\* The messages of a batch are of different jobs, and of no other batch.
LEMMA OwnJobs ==
  /\ \A r, q \in Requests : r # q => JobSet(r) \cap JobSet(q) = {}
  /\ \A r \in Requests : \A i, k \in 1..Len(JobsOf[r]) : JobsOf[r][i] = JobsOf[r][k] => i = k
<1>1. \A r, q \in Requests : r # q => JobSet(r) \cap JobSet(q) = {}
  BY BatchAssumption DEF JobSet
<1>2. ASSUME NEW r \in Requests, NEW i \in 1..Len(JobsOf[r]), NEW k \in 1..Len(JobsOf[r]),
             JobsOf[r][i] = JobsOf[r][k]
      PROVE  i = k
  <2>1. JobsOf[r] \in Seq(Jobs) /\ IsInjective(JobsOf[r])
    BY BatchAssumption
  <2>2. DOMAIN JobsOf[r] = 1..Len(JobsOf[r])
    BY <2>1
  <2> QED BY <1>2, <2>1, <2>2 DEF IsInjective
<1> QED BY <1>1, <1>2

\* An overlap is never forgotten.
LEMMA OverlapsGrow ==
  ASSUME Typed, [Next]_vars, NoOverlap'
  PROVE  NoOverlap
<1>1. spent \in [crashes : Nat, overlaps : Nat, faults : Nat]
  BY DEF Typed, BoundTypes
<1>2. ASSUME NEW r \in Requests, ApiStep(r) PROVE NoOverlap
  BY <1>1, <1>2 DEF NoOverlap, ApiStep, StoreOriginal, CommitBatch, RejectBatch, Dispatch,
     Answer, DispatchFails, Fault
<1>3. ASSUME NEW d \in Deliveries, DeliveryStep(d) PROVE NoOverlap
  <2>1. CASE (\E j \in Jobs : Receive(d, j)) \/ Expire(d) \/ Ack(d)
    BY <1>1, <2>1 DEF NoOverlap, Receive, Expire, Ack
  <2>2. CASE LoadJob(d) \/ LoadSubmission(d) \/ MarkProcessing(d) \/ StartFails(d)
    BY <1>1, <2>2 DEF NoOverlap, LoadJob, LoadSubmission, MarkProcessing, StartFails, Fault
  <2>3. CASE Transcribe(d) \/ KeepText(d) \/ KeepTrace(d) \/ TranscribeFails(d)
    BY <1>1, <2>3 DEF NoOverlap, Transcribe, KeepText, KeepTrace, TranscribeFails, Fault
  <2>4. CASE (\E corrected \in BOOLEAN : RunAttempt(d, corrected)) \/ AttemptFails(d)
    BY <1>1, <2>4 DEF NoOverlap, RunAttempt, AttemptFails, Fault
  <2>5. CASE Settle(d) \/ SettleFails(d)
    BY <1>1, <2>5 DEF NoOverlap, Settle, SettleFails, Fault
  <2>6. CASE Rescue(d) \/ MarkFailed(d) \/ RescueFails(d) \/ Crash(d)
    BY <1>1, <2>6 DEF NoOverlap, Rescue, MarkFailed, RescueFails, Crash, Fault
  <2> QED BY <1>3, <2>1, <2>2, <2>3, <2>4, <2>5, <2>6 DEF DeliveryStep, Progress, Trouble
<1>4. CASE UNCHANGED vars
  BY <1>4 DEF vars, NoOverlap
<1> QED BY <1>2, <1>3, <1>4, StepKinds

\* How a delivery comes by the message of its job, and loses it.
Gains(d) == /\ pc[d] = "idle" /\ message[job'[d]] = "visible"
            /\ message'[job'[d]] \in {"inflight", "gone"}
Loses(d) == /\ pc[d] = "dead" /\ receipt[d] = "valid"
            /\ pc'[d] = "dead" /\ receipt'[d] = "stale"
            /\ message'[job'[d]] = "visible"
Keeps(d) == /\ pc[d] \in Working
            /\ pc'[d] \in Working \/ (pc'[d] = "dead" /\ receipt'[d] = receipt[d])
            /\ message' = message
Acks(d) ==  /\ pc[d] = "ack" /\ pc'[d] = "over"
            /\ message'[job'[d]] \in {message[job'[d]], "gone"}

\* Without overlaps a step of a delivery does one of these.
LEMMA Handover ==
  ASSUME Typed, Received, NEW d \in Deliveries, DeliveryStep(d), NoOverlap'
  PROVE  Gains(d) \/ Loses(d) \/ Keeps(d) \/ Acks(d)
<1>1. job'[d] \in Jobs /\ (pc[d] # "idle" => job'[d] = job[d])
  BY OwnRow DEF Local
<1>2. /\ message \in [Jobs -> {"unsent", "visible", "inflight", "gone"}]
      /\ spent \in [crashes : Nat, overlaps : Nat, faults : Nat]
  BY DEF Typed, QueueTypes, BoundTypes
<1>3. CASE \E j \in Jobs : Receive(d, j)
  BY <1>1, <1>2, <1>3, DeliveryTypes DEF Receive, GoTo, Gains
<1>4. CASE Expire(d)
  BY <1>1, <1>2, <1>4, DeliveryTypes DEF Expire, NoOverlap, Loses
<1>5. CASE Ack(d)
  BY <1>1, <1>2, <1>5, DeliveryTypes DEF Ack, GoTo, Acks
<1>6. CASE LoadJob(d) \/ LoadSubmission(d) \/ MarkProcessing(d) \/ StartFails(d)
  BY <1>6, DeliveryTypes DEF LoadJob, LoadSubmission, MarkProcessing, StartFails, GoTo,
     Keeps, Working
<1>7. CASE Transcribe(d) \/ KeepText(d) \/ KeepTrace(d) \/ TranscribeFails(d)
  BY <1>7, DeliveryTypes DEF Transcribe, KeepText, KeepTrace, TranscribeFails, GoTo,
     Keeps, Working
<1>8. CASE (\E corrected \in BOOLEAN : RunAttempt(d, corrected)) \/ AttemptFails(d)
  BY <1>8, DeliveryTypes DEF RunAttempt, AttemptFails, GoTo, Keeps, Working
<1>9. CASE Settle(d) \/ SettleFails(d)
  BY <1>9, DeliveryTypes DEF Settle, SettleFails, GoTo, Keeps, Working
<1>10. CASE Rescue(d) \/ MarkFailed(d) \/ RescueFails(d) \/ Crash(d)
  BY <1>10, DeliveryTypes DEF Rescue, MarkFailed, RescueFails, Crash, GoTo, Keeps, Working
<1> QED BY <1>3, <1>4, <1>5, <1>6, <1>7, <1>8, <1>9, <1>10
        DEF DeliveryStep, Progress, Trouble

\* What a delivery may do to the messages and to who holds them.
LEMMA ExclusiveDelivery ==
  ASSUME Typed, Uploaded, Unsent, Exclusive, NEW d \in Deliveries, DeliveryStep(d), NoOverlap'
  PROVE  Unsent' /\ Exclusive'
<1>1. Local(d) /\ (status[job'[d]] # "absent" => status'[job'[d]] # "absent")
  BY OwnRow DEF Uploaded
<1>2. Gains(d) \/ Loses(d) \/ Keeps(d) \/ Acks(d)
  BY Handover DEF Uploaded
<1>3. /\ message \in [Jobs -> {"unsent", "visible", "inflight", "gone"}]
      /\ job'[d] \in Jobs /\ \A e \in Deliveries : pc[e] # "idle" => job[e] \in Jobs
  BY <1>1, DeliveryTypes DEF Typed, QueueTypes, Local
<1>4. \A e \in Deliveries \ {d} : pc'[e] = pc[e] /\ job'[e] = job[e] /\ receipt'[e] = receipt[e]
  BY <1>1 DEF Local
<1>5. \A j \in Jobs \ {job'[d]} : message'[j] = message[j]
  BY <1>1 DEF Local
<1>6. pc[d] # "idle" => job'[d] = job[d]
  BY <1>1 DEF Local
<1>7. message[job'[d]] # "unsent" /\ message'[job'[d]] # "unsent"
  BY <1>2, <1>3, <1>6 DEF Gains, Loses, Keeps, Acks, Unsent, Working
<1>8. Holds(d)' => Holds(d) \/ pc[d] = "idle"
  BY <1>2 DEF Gains, Loses, Keeps, Acks, Holds, Working
<1>9. \A e \in Deliveries \ {d} : Holds(e)' <=> Holds(e)
  BY <1>4 DEF Holds
<1>10. \A e \in Deliveries : Holds(e) => pc[e] # "idle"
  BY DEF Holds, Working
<1>11. Exclusive'
  <2>1. CASE Gains(d)
    BY <1>3, <1>4, <1>5, <1>9, <1>10, <2>1 DEF Exclusive, Gains
  <2>2. CASE Loses(d)
    <3>1. Holds(d) /\ ~Holds(d)'
      BY <2>2 DEF Loses, Holds, Working
    <3> QED BY <1>3, <1>4, <1>5, <1>6, <1>9, <1>10, <3>1 DEF Exclusive
  <2>3. CASE Keeps(d) \/ Acks(d)
    <3>1. Holds(d) /\ (message'[job'[d]] = "visible" => message[job'[d]] = "visible")
      BY <2>3 DEF Keeps, Acks, Holds, Working
    <3> QED BY <1>3, <1>4, <1>5, <1>6, <1>9, <1>10, <3>1 DEF Exclusive
  <2> QED BY <1>2, <2>1, <2>2, <2>3
<1>12. Unsent'
  <2>1. UNCHANGED <<request, sent>>
    BY <1>1 DEF Local
  <2>2. \A j \in Jobs : message[j] = "unsent" <=> message'[j] = "unsent"
    BY <1>3, <1>5, <1>7
  <2>3. \A j \in Jobs : status[j] = "absent" => status'[j] = "absent"
    <3>1. status[job'[d]] # "absent"
      BY <1>3, <1>7 DEF Uploaded, Created
    <3> QED BY <1>1, <3>1 DEF Local
  <2>4. \A e \in Deliveries : pc'[e] # "idle" => message[job'[e]] # "unsent" /\ job'[e] \in Jobs
    BY <1>3, <1>4, <1>7 DEF Unsent
  <2> QED BY <2>1, <2>2, <2>3, <2>4, BatchJobs DEF Unsent
<1> QED BY <1>11, <1>12

\* What a request may do to them.
LEMMA ExclusiveApi ==
  ASSUME Typed, Unsent, Exclusive, NEW r \in Requests, ApiStep(r)
  PROVE  Unsent' /\ Exclusive'
<1>1. /\ UNCHANGED <<pc, job, receipt>>
      /\ \A e \in Deliveries : pc[e] # "idle" => job[e] \in Jobs
  BY ApiLeavesWorkers, DeliveryTypes
<1>2. /\ status \in [Jobs -> Statuses]
      /\ request \in [Requests -> {"new", "dispatching", "answered", "error"}]
      /\ sent \in [Requests -> Nat]
      /\ message \in [Jobs -> {"unsent", "visible", "inflight", "gone"}]
  BY DEF Typed, DatabaseTypes, ApiTypes, QueueTypes
<1>3. CASE UNCHANGED message
  <2>1. Exclusive'
    BY <1>1, <1>3 DEF Exclusive, Holds
  <2>2. Unsent'
    <3>1. CASE StoreOriginal(r)
      BY <1>1, <3>1 DEF Unsent, StoreOriginal, dbVars, apiVars
    <3>2. CASE RejectBatch(r) \/ Answer(r) \/ DispatchFails(r)
      BY <1>1, <1>2, <1>3, <3>2 DEF Unsent, RejectBatch, Answer, DispatchFails, dbVars
    <3>3. CASE Dispatch(r)
      <4>1. sent[r] + 1 \in 1..Len(JobsOf[r]) /\ sent[r] + 1 > sent[r]
        BY <1>2, <3>3, BatchJobs DEF Dispatch
      <4>2. JobsOf[r][sent[r] + 1] \in Jobs
        BY <4>1, BatchJobs
      <4>3. message'[JobsOf[r][sent[r] + 1]] = "visible"
        BY <1>2, <3>3, <4>2 DEF Dispatch
      <4>4. message[JobsOf[r][sent[r] + 1]] = "unsent"
        BY <3>3, <4>1 DEF Dispatch, Unsent
      <4> QED BY <1>3, <4>3, <4>4
    <3>4. CASE CommitBatch(r)
      <4>1. /\ request[r] = "new" /\ \A q \in Requests \ {r} : request'[q] = request[q]
            /\ request'[r] = "dispatching" /\ sent' = sent
            /\ \A j \in Jobs \ JobSet(r) : status'[j] = status[j]
        BY <1>2, <3>4 DEF CommitBatch
      <4>2. \A q \in Requests \ {r} : \A j \in JobSet(q) : j \in Jobs \ JobSet(r)
        BY OwnJobs, BatchJobs
      <4> QED BY <1>1, <1>3, <4>1, <4>2 DEF Unsent
    <3> QED BY <3>1, <3>2, <3>3, <3>4 DEF ApiStep
  <2> QED BY <2>1, <2>2
<1>4. ASSUME request[r] = "dispatching", sent[r] < Len(JobsOf[r]), UNCHANGED status,
             message' = [message EXCEPT ![JobsOf[r][sent[r] + 1]] = "visible"],
             \A q \in Requests \ {r} : request'[q] = request[q] /\ sent'[q] = sent[q],
             \/ request'[r] = "error"
             \/ request'[r] = "dispatching" /\ sent'[r] = sent[r] + 1
      PROVE  Unsent' /\ Exclusive'
  <2> DEFINE n == sent[r] + 1
             new == JobsOf[r][n]
  <2>1. n \in 1..Len(JobsOf[r]) /\ new \in Jobs /\ new \in JobSet(r)
    BY <1>2, <1>4, BatchJobs
  <2>2. message[new] = "unsent"
    BY <1>2, <1>4, <2>1 DEF Unsent
  <2>3. \A j \in Jobs : message'[j] = IF j = new THEN "visible" ELSE message[j]
    BY <1>2, <1>4
  <2>4. \A e \in Deliveries : pc[e] # "idle" => job[e] # new
    BY <2>2 DEF Unsent
  <2> HIDE DEF n, new
  <2>5. Exclusive'
    BY <1>1, <2>3, <2>4 DEF Exclusive, Holds, Working
  <2>6. ASSUME NEW q \in Requests, request'[q] \in {"new", "dispatching"},
               NEW i \in 1..Len(JobsOf[q]), i > sent'[q]
        PROVE  message'[JobsOf[q][i]] = "unsent"
    <3>1. JobsOf[q][i] \in Jobs /\ JobsOf[q][i] \in JobSet(q)
      BY BatchJobs
    <3>2. CASE q = r
      <4>1. i > n /\ i > sent[r]
        BY <1>2, <1>4, <2>6, <3>2 DEF n
      <4>2. JobsOf[r][i] # new
        BY <2>1, <3>2, <4>1, OwnJobs DEF new
      <4> QED BY <1>4, <2>3, <3>1, <3>2, <4>1, <4>2 DEF Unsent
    <3>3. CASE q # r
      <4>1. JobsOf[q][i] # new
        BY <2>1, <3>1, <3>3, OwnJobs
      <4> QED BY <1>4, <2>3, <2>6, <3>1, <3>3, <4>1 DEF Unsent
    <3> QED BY <3>2, <3>3
  <2>7. ASSUME NEW q \in Requests, request'[q] = "new"
        PROVE  sent'[q] = 0 /\ \A j \in JobSet(q) : status'[j] = "absent"
    BY <1>4, <2>7 DEF Unsent
  <2>8. \A e \in Deliveries : pc'[e] # "idle" => message'[job'[e]] # "unsent"
    BY <1>1, <2>3 DEF Unsent
  <2> QED BY <2>5, <2>6, <2>7, <2>8 DEF Unsent
<1>5. CASE Dispatch(r)
  BY <1>2, <1>4, <1>5 DEF Dispatch, dbVars
<1>6. CASE DispatchFails(r)
  BY <1>2, <1>3, <1>4, <1>6 DEF DispatchFails, dbVars
<1> QED BY <1>3, <1>5, <1>6
        DEF ApiStep, StoreOriginal, CommitBatch, RejectBatch, Answer

------------------------------------------------------------------------
(* What the one delivery that holds a job does to it.                     *)

\* The steps of the contract a delivery makes.
Starts(d) ==
  /\ pc[d] = "start" /\ status[job[d]] = "pending"
  /\ status' = [status EXCEPT ![job[d]] = "processing"]
  /\ UNCHANGED <<result, attempts>>
Finishes(d) ==
  /\ pc[d] = "finish" /\ status[job[d]] = "processing"
  /\ SaveDone(d)
GivesUp(d) ==
  /\ pc[d] \in {"exhausted", "mark_failed"} /\ status[job[d]] = "processing"
  /\ status' = [status EXCEPT ![job[d]] = "failed"]
  /\ result' = result
  /\ attempts' = IF pc[d] = "exhausted" THEN attempts \cup flushed[d] ELSE attempts
Moves(d) == \/ UNCHANGED <<status, result, attempts>>
            \/ Starts(d) \/ Finishes(d) \/ GivesUp(d)

\* A delivery knows the status of its job, and changes it by a move.
LEMMA StageStep ==
  ASSUME Typed, Created, NEW d \in Deliveries, Stage(d), DeliveryStep(d)
  PROVE  Stage(d)' /\ Moves(d)
<1>1. /\ status \in [Jobs -> Statuses]
      /\ pc[d] # "idle" => job[d] \in Jobs /\ status[job[d]] # "absent"
  BY DeliveryTypes DEF Typed, DatabaseTypes, Created
<1> USE DEF Stage, Looping, Terminal
<1>2. CASE (\E j \in Jobs : Receive(d, j)) \/ Expire(d) \/ Ack(d)
  BY <1>1, <1>2, DeliveryTypes DEF Receive, Expire, Ack, GoTo, dbVars, Moves
<1>3. CASE LoadJob(d) \/ LoadSubmission(d)
  BY <1>1, <1>3, DeliveryTypes DEF LoadJob, LoadSubmission, GoTo, dbVars, Moves, Statuses
<1>4. CASE MarkProcessing(d)
  BY <1>1, <1>4, DeliveryTypes DEF MarkProcessing, SaveProcessing, GoTo, Moves, Starts
<1>5. CASE StartFails(d)
  BY <1>1, <1>5, DeliveryTypes DEF StartFails, SaveProcessing, GoTo, Moves, Starts
<1>6. CASE Transcribe(d) \/ KeepText(d) \/ KeepTrace(d) \/ TranscribeFails(d)
  BY <1>1, <1>6, DeliveryTypes
     DEF Transcribe, KeepText, KeepTrace, TranscribeFails, GoTo, dbVars, Moves
<1>7. CASE (\E corrected \in BOOLEAN : RunAttempt(d, corrected)) \/ AttemptFails(d)
  BY <1>1, <1>7, DeliveryTypes DEF RunAttempt, AttemptFails, GoTo, dbVars, Moves
<1>8. CASE Settle(d) \/ SettleFails(d)
  <2>1. pc[d] \in {"finish", "exhausted"} /\ (Save(d) \/ UNCHANGED <<status, result, attempts>>)
    BY <1>8 DEF Settle, SettleFails
  <2>2. Moves(d)
    BY <2>1 DEF Save, SaveFailed, Moves, Finishes, GivesUp
  <2>3. status'[job[d]] \in {"processing", "done", "failed"}
    BY <1>1, <2>1 DEF Save, SaveFailed, SaveDone
  <2> QED BY <1>8, <2>2, <2>3, DeliveryTypes DEF Settle, SettleFails, GoTo
<1>9. CASE Rescue(d) \/ RescueFails(d) \/ Crash(d)
  BY <1>1, <1>9, DeliveryTypes DEF Rescue, RescueFails, Crash, GoTo, dbVars, Moves
<1>10. CASE MarkFailed(d)
  BY <1>1, <1>10, DeliveryTypes DEF MarkFailed, GoTo, Moves, GivesUp
<1> QED BY <1>2, <1>3, <1>4, <1>5, <1>6, <1>7, <1>8, <1>9, <1>10
        DEF DeliveryStep, Progress, Trouble

\* A status, a result or a history changes by a move of who holds the job.
LEMMA MoverHolds ==
  ASSUME NEW d \in Deliveries, Moves(d)
  PROVE  UNCHANGED <<status, result, attempts>> \/ Holds(d)
BY DEF Moves, Starts, Finishes, GivesUp, Holds, Working

\* A move leaves alone what other deliveries rely on.
LEMMA StagesDelivery ==
  ASSUME Typed, Created, Exclusive, \A e \in Deliveries : Stage(e),
         NEW d \in Deliveries, Local(d), DeliveryStep(d)
  PROVE  \A e \in Deliveries : Stage(e)'
<1>1. Stage(d)' /\ Moves(d)
  BY StageStep
<1>2. ASSUME NEW e \in Deliveries \ {d} PROVE Stage(e)'
  <2>1. pc'[e] = pc[e] /\ job'[e] = job[e] /\ seen'[e] = seen[e]
    BY DEF Local
  <2>2. CASE UNCHANGED status
    BY <2>1, <2>2 DEF Stage
  <2>3. CASE Holds(d) /\ ~UNCHANGED status
    <3>1. job'[d] = job[d] /\ \A j \in Jobs \ {job[d]} : status'[j] = status[j]
      BY <2>3 DEF Local, Holds, Working
    <3>2. Holds(e) => job[e] \in Jobs \ {job[d]}
      BY <2>3, DeliveryTypes DEF Exclusive, Holds, Working
    <3>3. CASE Holds(e)
      BY <2>1, <3>1, <3>2, <3>3 DEF Stage
    <3>4. CASE ~Holds(e)
      BY <2>1, <3>4 DEF Stage, Holds, Working, Looping
    <3> QED BY <3>3, <3>4
  <2> QED BY <1>1, <2>2, <2>3, MoverHolds
<1> QED BY <1>1, <1>2

\* The attempts, the result and the status of a job change together.
LEMMA UnsettledMove ==
  ASSUME Typed, Historic, Unsettled, OneHistoryPerJob, NEW d \in Deliveries, Stage(d), Moves(d)
  PROVE  Unsettled' /\ OneHistoryPerJob'
<1>1. /\ status \in [Jobs -> Statuses] /\ result \in [Jobs -> AttemptRows \cup {None}]
      /\ attempts \subseteq AttemptRows
      /\ pc[d] # "idle" => job[d] \in Jobs
      /\ \A row \in flushed[d] : row.job = job[d] /\ row.by = d
  BY DeliveryTypes DEF Typed, DatabaseTypes, Historic, Loop
<1>2. CASE UNCHANGED <<status, result, attempts>>
  BY <1>2 DEF Unsettled, OneHistoryPerJob
<1>3. CASE ~UNCHANGED <<status, result, attempts>>
  <2>1. status[job[d]] \notin Terminal /\ job[d] \in Jobs
    BY <1>1, <1>3 DEF Moves, Starts, Finishes, GivesUp, Terminal
  <2>2. /\ result[job[d]] = None
        /\ \A row \in attempts : row.job # job[d]
    BY <2>1 DEF Unsettled, Terminal
  <2>3. /\ \A j \in Jobs \ {job[d]} : status'[j] = status[j] /\ result'[j] = result[j]
        /\ \A row \in attempts' \ attempts : row \in flushed[d]
        /\ attempts' = attempts \/ status'[job[d]] \in Terminal
        /\ result'[job[d]] # None => status'[job[d]] = "done"
    BY <1>1, <1>3, <2>1, <2>2 DEF Moves, Starts, Finishes, GivesUp, SaveDone, Terminal
  <2>4. Unsettled'
    <3>1. ASSUME NEW row \in attempts' PROVE status'[row.job] \in Terminal
      <4>1. CASE row \in attempts
        BY <1>1, <2>2, <2>3, <4>1 DEF Unsettled, AttemptRows
      <4>2. CASE row \notin attempts
        BY <1>1, <2>3, <4>2
      <4> QED BY <4>1, <4>2
    <3>2. ASSUME NEW j \in Jobs, result'[j] # None PROVE status'[j] = "done"
      BY <2>3, <3>2 DEF Unsettled
    <3> QED BY <3>1, <3>2 DEF Unsettled
  <2>5. OneHistoryPerJob'
    BY <1>1, <2>2, <2>3 DEF OneHistoryPerJob
  <2> QED BY <2>4, <2>5
<1> QED BY <1>2, <1>3

\* Alone, until the first overlap.
Calm == NoOverlap => Alone

\* Every step without an overlap preserves Alone.
LEMMA AloneStep ==
  ASSUME Typed, Uploaded, Historic, Alone, Next, NoOverlap'
  PROVE  Alone'
<1>1. ASSUME NEW d \in Deliveries, DeliveryStep(d) PROVE Alone'
  <2>1. Unsent' /\ Exclusive'
    BY <1>1, ExclusiveDelivery DEF Alone
  <2>2. Local(d)
    BY <1>1, OwnRow DEF Uploaded
  <2>3. \A e \in Deliveries : Stage(e)'
    BY <1>1, <2>2, StagesDelivery DEF Alone, Uploaded
  <2>4. Moves(d)
    BY <1>1, StageStep DEF Alone, Uploaded
  <2>5. Unsettled' /\ OneHistoryPerJob'
    BY <2>4, UnsettledMove DEF Alone
  <2> QED BY <2>1, <2>3, <2>5 DEF Alone
<1>2. ASSUME NEW r \in Requests, ApiStep(r) PROVE Alone'
  <2>1. Unsent' /\ Exclusive'
    BY <1>2, ExclusiveApi DEF Alone
  <2>2. UNCHANGED <<attempts, result, pc, job, seen>>
    BY <1>2, ApiLeavesWorkers
  <2>3. \A j \in Jobs : status[j] # "absent" => status'[j] = status[j]
    <3>1. CASE CommitBatch(r)
      <4>1. \A j \in JobSet(r) : status[j] = "absent"
        BY <3>1 DEF CommitBatch, Alone, Unsent
      <4>2. \A j \in Jobs \ JobSet(r) : status'[j] = status[j]
        BY <3>1 DEF CommitBatch
      <4> QED BY <4>1, <4>2
    <3>2. CASE UNCHANGED status
      BY <3>2
    <3> QED BY <1>2, <3>1, <3>2 DEF ApiStep, StoreOriginal, RejectBatch, Dispatch, Answer,
            DispatchFails, dbVars
  <2>4. ASSUME NEW e \in Deliveries PROVE Stage(e)'
    <3>1. pc[e] # "idle" => status'[job[e]] = status[job[e]]
      BY <2>3, DeliveryTypes DEF Uploaded, Created
    <3> QED BY <2>2, <3>1 DEF Alone, Stage, Looping
  <2>5. Unsettled' /\ OneHistoryPerJob'
    <3>1. \A row \in attempts : row.job \in Jobs
      BY DEF Typed, DatabaseTypes, AttemptRows
    <3> QED BY <2>2, <2>3, <3>1 DEF Alone, Unsettled, OneHistoryPerJob, Terminal
  <2> QED BY <2>1, <2>4, <2>5 DEF Alone
<1> QED BY <1>1, <1>2 DEF Next, DeliveryStep

\* Every step preserves Calm.
LEMMA CalmStep == Typed /\ Uploaded /\ Historic /\ Calm /\ [Next]_vars => Calm'
<1> SUFFICES ASSUME Typed, Uploaded, Historic, Calm, [Next]_vars, NoOverlap' PROVE Alone'
  BY DEF Calm
<1>1. Alone
  BY OverlapsGrow DEF Calm
<1>2. CASE Next
  BY <1>1, <1>2, AloneStep
<1>3. CASE UNCHANGED vars
  BY <1>1, <1>3 DEF vars, dbVars, apiVars, workerVars, Alone, Unsent, Exclusive, Holds, Stage,
     Unsettled, OneHistoryPerJob
<1> QED BY <1>2, <1>3

\* At first nobody holds anything.
LEMMA CalmInit == Init => Calm
BY BatchJobs
   DEF Init, Calm, Alone, Unsent, Exclusive, Holds, Working, Stage, Looping, Unsettled,
       OneHistoryPerJob

\* Calm is an invariant.
LEMMA CalmAlways == Spec => []Calm
BY CalmInit, CalmStep, TypedAlways, UploadedAlways, HistoricAlways, PTL DEF Spec

\* As long as no message has been handed out while its delivery was still
\* running, a job is graded once, whatever crashes and whatever fails.
THEOREM JobsAreGradedOnce == Spec => [](NoOverlap => OneHistoryPerJob)
<1>1. Calm => (NoOverlap => OneHistoryPerJob)
  BY DEF Calm, Alone
<1> QED BY <1>1, CalmAlways, PTL

------------------------------------------------------------------------
(* The pipeline implements JobContract.                                   *)

\* Every step is a step of the contract or leaves the job alone.
LEMMA ContractStep ==
  ASSUME Typed, Uploaded, Historic, Alone, [Next]_vars
  PROVE  [Contract!ContractNext]_(Contract!contractVars)
<1>1. status \in [Jobs -> Statuses] /\ result \in [Jobs -> AttemptRows \cup {None}]
  BY DEF Typed, DatabaseTypes
<1>2. ASSUME NEW d \in Deliveries, DeliveryStep(d), ~UNCHANGED <<status, result>>
      PROVE  Contract!ContractNext
  <2>1. Stage(d) /\ Moves(d)
    BY <1>2, StageStep DEF Alone, Uploaded
  <2>2. job[d] \in Jobs
    BY <1>2, <2>1, DeliveryTypes DEF Moves, Starts, Finishes, GivesUp
  <2>3. status[job[d]] # "done" => result[job[d]] = None
    BY <2>2 DEF Alone, Unsettled
  <2>4. CASE Starts(d)
    BY <2>2, <2>4 DEF Starts, Contract!ContractNext, Contract!StartJob
  <2>5. CASE GivesUp(d)
    BY <2>2, <2>3, <2>5 DEF GivesUp, Contract!ContractNext, Contract!GiveUpJob
  <2>6. CASE Finishes(d)
    <3>1. Correction(d) \in AttemptRows
      BY <2>6, CorrectionIsFlushed, DeliveryTypes DEF Finishes, Typed, Workers
    <3>2. Contract!FinishJob(job[d], Correction(d))
      BY <1>1, <2>2, <2>3, <2>6 DEF Finishes, SaveDone, Contract!FinishJob
    <3> QED BY <2>2, <3>1, <3>2 DEF Contract!ContractNext
  <2> QED BY <1>2, <2>1, <2>4, <2>5, <2>6 DEF Moves
<1>3. ASSUME NEW r \in Requests, ApiStep(r), ~UNCHANGED <<status, result>>
      PROVE  Contract!ContractNext
  <2>1. CommitBatch(r) /\ UNCHANGED result
    BY <1>3, ApiLeavesWorkers
       DEF ApiStep, StoreOriginal, RejectBatch, Dispatch, Answer, DispatchFails, dbVars
  <2>2. JobSet(r) # {}
    BY <1>1, <1>3, <2>1 DEF CommitBatch
  <2>3. JobSet(r) \in SUBSET Jobs /\ \A j \in JobSet(r) : status[j] = "absent"
    BY <2>1, BatchJobs DEF CommitBatch, Alone, Unsent
  <2>4. Contract!CreateJobs(JobSet(r))
    BY <2>1, <2>2, <2>3 DEF CommitBatch, Contract!CreateJobs
  <2> QED BY <2>3, <2>4 DEF Contract!ContractNext
<1>4. CASE UNCHANGED vars
  BY <1>4 DEF vars, dbVars, Contract!contractVars
<1> QED BY <1>2, <1>3, <1>4, StepKinds DEF Contract!contractVars

\* A behaviour without overlaps is a behaviour of the contract: jobs only
\* move forward, are done exactly when they have a result, and keep it.
THEOREM PipelineKeepsContract == Spec /\ []NoOverlap => KeepsContract
<1>1. Init => Contract!ContractInit
  BY DEF Init, Contract!ContractInit
<1>2. Typed /\ Uploaded /\ Historic /\ Calm /\ NoOverlap /\ [Next]_vars
        => [Contract!ContractNext]_(Contract!contractVars)
  BY ContractStep DEF Calm
<1> QED BY <1>1, <1>2, TypedAlways, UploadedAlways, HistoricAlways, CalmAlways, PTL
        DEF Spec, KeepsContract, Contract!ContractSpec

------------------------------------------------------------------------
(* The evidence and the text of a grade.                                  *)

\* Only an attempt writes the storage, under the number it is at.
LEMMA ExchangeStep ==
  ASSUME Typed, NEW d \in Deliveries, DeliveryStep(d)
  PROVE  \/ exchange' = exchange
         \/ /\ pc[d] = "attempt"
            /\ \A n \in Numbers \ {attempt[d]} : exchange'[job[d]][n] = exchange[job[d]][n]
            /\ exchange'[job[d]][attempt[d]] = d
<1>1. exchange \in [Jobs -> [Numbers -> Deliveries \cup {None}]]
  BY DEF Typed, StorageTypes
<1>2. CASE (\E corrected \in BOOLEAN : RunAttempt(d, corrected)) \/ AttemptFails(d)
  BY <1>1, <1>2, DeliveryTypes DEF RunAttempt, AttemptFails
<1>3. CASE (\E j \in Jobs : Receive(d, j)) \/ Expire(d) \/ Ack(d) \/ LoadJob(d) \/ LoadSubmission(d)
  BY <1>3 DEF Receive, Expire, Ack, LoadJob, LoadSubmission, storageVars
<1>4. CASE MarkProcessing(d) \/ StartFails(d) \/ Transcribe(d) \/ KeepText(d) \/ KeepTrace(d)
  BY <1>4 DEF MarkProcessing, StartFails, Transcribe, KeepText, KeepTrace, storageVars
<1>5. CASE TranscribeFails(d) \/ Settle(d) \/ SettleFails(d)
  BY <1>5 DEF TranscribeFails, Settle, SettleFails, storageVars
<1>6. CASE Rescue(d) \/ MarkFailed(d) \/ RescueFails(d) \/ Crash(d)
  BY <1>6 DEF Rescue, MarkFailed, RescueFails, Crash, storageVars
<1> QED BY <1>2, <1>3, <1>4, <1>5, <1>6 DEF DeliveryStep, Progress, Trouble

\* How a delivery comes to a step at which its flushed rows matter.
LEMMA FlushedStep ==
  ASSUME Typed, NEW d \in Deliveries, DeliveryStep(d),
         pc'[d] \in {"attempt", "finish", "exhausted"}
  PROVE  \/ /\ pc[d] \in Before /\ flushed'[d] = flushed[d] /\ exchange' = exchange
         \/ /\ pc[d] = "attempt"
            /\ \E outcome \in Outcomes : flushed'[d] = flushed[d] \cup {Row(d, outcome)}
            /\ exchange'[job[d]][attempt[d]] = d
            /\ UNCHANGED <<text, draft>>
         \/ pc'[d] = pc[d] /\ UNCHANGED <<flushed, exchange, text, draft>>
<1>1. exchange \in [Jobs -> [Numbers -> Deliveries \cup {None}]]
  BY DEF Typed, StorageTypes
<1>2. CASE (\E j \in Jobs : Receive(d, j)) \/ Expire(d) \/ Ack(d) \/ LoadJob(d) \/ LoadSubmission(d)
  BY <1>2, DeliveryTypes DEF Receive, Expire, Ack, LoadJob, LoadSubmission, GoTo, storageVars, dbVars
<1>3. CASE MarkProcessing(d) \/ StartFails(d) \/ Transcribe(d) \/ KeepText(d) \/ KeepTrace(d)
  BY <1>3, DeliveryTypes
     DEF MarkProcessing, StartFails, Transcribe, KeepText, KeepTrace, GoTo, storageVars, Before
<1>4. CASE TranscribeFails(d) \/ AttemptFails(d) \/ Settle(d) \/ SettleFails(d)
  BY <1>4, DeliveryTypes DEF TranscribeFails, AttemptFails, Settle, SettleFails, GoTo
<1>5. CASE Rescue(d) \/ MarkFailed(d) \/ RescueFails(d) \/ Crash(d)
  BY <1>5, DeliveryTypes DEF Rescue, MarkFailed, RescueFails, Crash, GoTo
<1>6. ASSUME NEW corrected \in BOOLEAN, RunAttempt(d, corrected) PROVE
         /\ pc[d] = "attempt"
         /\ \E outcome \in Outcomes : flushed'[d] = flushed[d] \cup {Row(d, outcome)}
         /\ exchange'[job[d]][attempt[d]] = d
         /\ UNCHANGED <<text, draft>>
  BY <1>1, <1>6, DeliveryTypes DEF RunAttempt, GoTo, dbVars, Outcomes
<1> QED BY <1>2, <1>3, <1>4, <1>5, <1>6 DEF DeliveryStep, Progress, Trouble

\* No delivery writes over the evidence of another.
LEMMA EvidenceDelivery ==
  ASSUME Typed, Historic, Alone, Evidence, NEW d \in Deliveries, DeliveryStep(d), Local(d)
  PROVE  Evidence'
<1>1. /\ pc[d] # "idle" => job[d] \in Jobs /\ job'[d] = job[d]
      /\ \A e \in Deliveries : \A row \in flushed[e] :
           row.job = job[e] /\ row.by = e /\ row.number \in Numbers
      /\ \A row \in attempts : row.job \in Jobs /\ row.number \in Numbers
  BY DeliveryTypes DEF Local, Historic, Loop, Typed, DatabaseTypes, AttemptRows
<1>2. /\ \A row \in attempts : exchange'[row.job][row.number] = row.by
      /\ pc[d] \in {"finish", "exhausted"} =>
           \A row \in flushed[d] : exchange'[row.job][row.number] = row.by
  <2>1. CASE exchange' = exchange
    BY <1>1, <2>1 DEF Evidence, EvidenceIsItsOwn, Stored
  <2>2. CASE pc[d] = "attempt"
    <3>1. status[job[d]] = "processing"
      BY <2>2 DEF Alone, Stage, Looping
    <3>2. \A row \in attempts : row.job # job[d]
      BY <3>1 DEF Alone, Unsettled, Terminal
    <3> QED BY <1>1, <2>2, <3>2 DEF Local, Evidence, EvidenceIsItsOwn
  <2> QED BY <2>1, <2>2, ExchangeStep
<1>3. EvidenceIsItsOwn'
  BY <1>2 DEF Local, EvidenceIsItsOwn
<1>4. Stored(d)'
  <2> SUFFICES ASSUME pc'[d] \in {"attempt", "finish", "exhausted"}, NEW row \in flushed'[d]
               PROVE  exchange'[row.job][row.number] = d
    BY DEF Stored
  <2>1. CASE pc[d] \in Before /\ flushed'[d] = flushed[d]
    BY <2>1 DEF Historic, Loop
  <2>2. CASE /\ pc[d] = "attempt"
             /\ \E outcome \in Outcomes : flushed'[d] = flushed[d] \cup {Row(d, outcome)}
             /\ exchange'[job[d]][attempt[d]] = d
    <3>1. CASE row \in flushed[d]
      <4>1. row.number # attempt[d]
        BY <1>1, <2>2, <3>1, DeliveryTypes, AttemptsAssumption DEF Historic, Loop, Prefix, Numbers
      <4> QED BY <1>1, <2>2, <3>1, <4>1, ExchangeStep DEF Evidence, Stored
    <3>2. CASE row \notin flushed[d]
      BY <2>2, <3>2 DEF Row
    <3> QED BY <3>1, <3>2
  <2>3. CASE pc'[d] = pc[d] /\ UNCHANGED <<flushed, exchange>>
    BY <2>3 DEF Evidence, Stored
  <2> QED BY <2>1, <2>2, <2>3, FlushedStep
<1>5. ASSUME NEW e \in Deliveries \ {d} PROVE Stored(e)'
  <2>1. pc'[e] = pc[e] /\ flushed'[e] = flushed[e] /\ job'[e] = job[e]
    BY DEF Local
  <2>2. CASE exchange' = exchange
    BY <2>1, <2>2 DEF Evidence, Stored
  <2>3. CASE pc[d] = "attempt" /\ pc[e] \in {"attempt", "finish", "exhausted"}
    <3>1. job[e] # job[d]
      BY <2>3 DEF Alone, Exclusive, Holds, Working
    <3>2. exchange'[job[e]] = exchange[job[e]]
      BY <1>1, <2>3, <3>1, DeliveryTypes DEF Local
    <3> QED BY <1>1, <2>1, <2>3, <3>2 DEF Evidence, Stored
  <2>4. CASE pc[e] \notin {"attempt", "finish", "exhausted"}
    BY <2>1, <2>4 DEF Stored
  <2> QED BY <2>2, <2>3, <2>4, ExchangeStep
<1> QED BY <1>3, <1>4, <1>5 DEF Evidence

\* Every step without an overlap preserves Evidence.
LEMMA EvidenceStep ==
  Typed /\ Uploaded /\ Historic /\ Calm /\ (NoOverlap => Evidence) /\ [Next]_vars
    => (NoOverlap => Evidence)'
<1> SUFFICES ASSUME Typed, Uploaded, Historic, Calm, NoOverlap => Evidence, [Next]_vars,
                    NoOverlap'
             PROVE  Evidence'
  OBVIOUS
<1>1. Alone /\ Evidence
  BY OverlapsGrow DEF Calm
<1>2. ASSUME NEW d \in Deliveries, DeliveryStep(d) PROVE Evidence'
  <2>1. Local(d)
    BY <1>2, OwnRow DEF Uploaded
  <2> QED BY <1>1, <1>2, <2>1, EvidenceDelivery
<1>3. CASE UNCHANGED <<attempts, exchange, pc, flushed>>
  BY <1>1, <1>3 DEF Evidence, EvidenceIsItsOwn, Stored
<1>4. CASE \E r \in Requests : ApiStep(r)
  BY <1>3, <1>4, ApiLeavesWorkers
<1>5. CASE UNCHANGED vars
  BY <1>3, <1>5 DEF vars, dbVars, storageVars, workerVars
<1> QED BY <1>2, <1>4, <1>5, StepKinds

\* As long as there was no overlap, the stored exchange of a committed attempt is
\* the one that attempt had with the provider: no other delivery has written over it.
THEOREM EvidenceStays == Spec => [](NoOverlap => EvidenceIsItsOwn)
<1>1. Init => (NoOverlap => Evidence)
  BY DEF Init, Evidence, EvidenceIsItsOwn, Stored
<1>2. (NoOverlap => Evidence) => (NoOverlap => EvidenceIsItsOwn)
  BY DEF Evidence
<1> QED BY <1>1, <1>2, EvidenceStep, TypedAlways, UploadedAlways, HistoricAlways, CalmAlways, PTL
        DEF Spec

\* A text is committed with its trace, and the trace of a failure alone.
LEMMA TextStep ==
  ASSUME Typed, NEW d \in Deliveries, DeliveryStep(d)
  PROVE  \/ UNCHANGED <<text, trace>>
         \/ pc[d] = "keep_text" /\ SaveText(d)
         \/ /\ pc[d] = "keep_trace" /\ text' = text
            /\ trace' = [trace EXCEPT ![Sub(d)] = [by |-> d, error |-> TRUE]]
<1>1. CASE (\E j \in Jobs : Receive(d, j)) \/ Expire(d) \/ Ack(d) \/ LoadJob(d) \/ LoadSubmission(d)
  BY <1>1 DEF Receive, Expire, Ack, LoadJob, LoadSubmission, dbVars
<1>2. CASE MarkProcessing(d) \/ StartFails(d) \/ Transcribe(d)
  BY <1>2 DEF MarkProcessing, StartFails, Transcribe, dbVars
<1>3. CASE KeepText(d) \/ KeepTrace(d) \/ TranscribeFails(d)
  BY <1>3 DEF KeepText, KeepTrace, TranscribeFails
<1>4. CASE \/ \E corrected \in BOOLEAN : RunAttempt(d, corrected)
           \/ AttemptFails(d) \/ Settle(d) \/ SettleFails(d)
  BY <1>4 DEF RunAttempt, AttemptFails, Settle, SettleFails, dbVars
<1>5. CASE Rescue(d) \/ MarkFailed(d) \/ RescueFails(d) \/ Crash(d)
  BY <1>5 DEF Rescue, MarkFailed, RescueFails, Crash, dbVars
<1> QED BY <1>1, <1>2, <1>3, <1>4, <1>5 DEF DeliveryStep, Progress, Trouble

\* A delivery keeps knowing the text of its essay.
LEMMA ReadsStep ==
  ASSUME Typed, Historic, NEW d \in Deliveries, Reads(d), DeliveryStep(d)
  PROVE  Reads(d)'
<1>1. /\ text \in [Submissions -> Deliveries \cup {None}]
      /\ pc[d] # "idle" => job[d] \in Jobs /\ Sub(d) \in Submissions
      /\ pc[d] \in Before => flushed[d] = {}
  BY DeliveryTypes, BatchAssumption DEF Typed, DatabaseTypes, Sub, Historic, Loop
<1> USE DEF Reads, Sub, Before
<1>3. CASE (\E j \in Jobs : Receive(d, j)) \/ Expire(d) \/ Ack(d) \/ LoadJob(d)
  BY <1>1, <1>3, DeliveryTypes DEF Receive, Expire, Ack, LoadJob, GoTo, dbVars
<1>4. CASE LoadSubmission(d) \/ MarkProcessing(d) \/ StartFails(d) \/ Transcribe(d)
  BY <1>1, <1>4, DeliveryTypes
     DEF LoadSubmission, MarkProcessing, StartFails, Transcribe, GoTo, dbVars
<1>5. CASE KeepText(d) \/ KeepTrace(d) \/ TranscribeFails(d)
  BY <1>1, <1>5, DeliveryTypes DEF KeepText, KeepTrace, TranscribeFails, SaveText, GoTo
<1>6. ASSUME NEW corrected \in BOOLEAN, RunAttempt(d, corrected) PROVE Reads(d)'
  BY <1>1, <1>6, DeliveryTypes DEF RunAttempt, Row, GoTo, dbVars
<1>7. CASE AttemptFails(d) \/ Settle(d) \/ SettleFails(d)
  BY <1>1, <1>7, DeliveryTypes DEF AttemptFails, Settle, SettleFails, GoTo, dbVars
<1>8. CASE Rescue(d) \/ MarkFailed(d) \/ RescueFails(d) \/ Crash(d)
  BY <1>1, <1>8, DeliveryTypes DEF Rescue, MarkFailed, RescueFails, Crash, GoTo, dbVars
<1> QED BY <1>3, <1>4, <1>5, <1>6, <1>7, <1>8 DEF DeliveryStep, Progress, Trouble

\* No delivery replaces the text of another.
LEMMA TextsDelivery ==
  ASSUME Typed, Historic, Alone, OneJobEach, Texts, Created,
         NEW d \in Deliveries, DeliveryStep(d), Local(d)
  PROVE  Texts'
<1>1. /\ pc[d] # "idle" => job[d] \in Jobs /\ job'[d] = job[d] /\ Sub(d) \in Submissions
      /\ text \in [Submissions -> Deliveries \cup {None}]
      /\ trace \in [Submissions -> Traces \cup {None}]
      /\ result \in [Jobs -> AttemptRows \cup {None}]
      /\ \A j \in Jobs : SubmissionOf[j] \in Submissions
      /\ None \notin Deliveries
  BY DeliveryTypes, BatchAssumption, NoneAssumption DEF Local, Typed, DatabaseTypes, Sub
<1>2. ASSUME NEW e \in Deliveries PROVE Reads(e)'
  <2>1. CASE e = d
    BY <2>1, ReadsStep DEF Texts
  <2>2. CASE e # d
    <3>1. /\ pc'[e] = pc[e] /\ job'[e] = job[e]
          /\ flushed'[e] = flushed[e] /\ draft'[e] = draft[e]
      BY <2>2 DEF Local
    <3>2. CASE UNCHANGED text
      BY <3>1, <3>2 DEF Texts, Reads, Sub
    <3>3. CASE pc[d] = "keep_text" /\ SaveText(d) /\ Holds(e)
      <4>1. job[e] \in Jobs /\ job[e] # job[d]
        BY <2>2, <3>3, DeliveryTypes DEF Alone, Exclusive, Holds, Working
      <4>2. Sub(e) # Sub(d)
        BY <1>1, <3>3, <4>1 DEF OneJobEach, Sub
      <4>3. text'[Sub(e)] = text[Sub(e)]
        BY <1>1, <3>3, <4>1, <4>2 DEF SaveText, Sub
      <4> QED BY <3>1, <4>3 DEF Texts, Reads, Sub
    <3>4. CASE ~Holds(e)
      BY <3>1, <3>4 DEF Reads, Holds, Working
    <3> QED BY <3>2, <3>3, <3>4, TextStep
  <2> QED BY <2>1, <2>2
<1>3. TraceDescribesText'
  <2>1. CASE UNCHANGED <<text, trace>>
    BY <2>1 DEF Texts, TraceDescribesText
  <2>2. CASE pc[d] = "keep_text" /\ SaveText(d)
    BY <1>1, <2>2 DEF Texts, TraceDescribesText, SaveText
  <2>3. CASE /\ pc[d] = "keep_trace" /\ text' = text
             /\ trace' = [trace EXCEPT ![Sub(d)] = [by |-> d, error |-> TRUE]]
    BY <1>1, <2>3 DEF Texts, TraceDescribesText, Reads
  <2> QED BY <2>1, <2>2, <2>3, TextStep
<1>4. ASSUME NEW j \in Jobs, result'[j] # None
      PROVE  result'[j].text = text'[SubmissionOf[j]]
  <2>1. Stage(d) /\ Moves(d)
    BY StageStep DEF Alone
  <2>2. CASE result'[j] = result[j]
    <3>1. result[j].text = text[SubmissionOf[j]] /\ status[j] = "done"
      BY <1>4, <2>2 DEF Texts, GradedTextIsOnRecord, Alone, Unsettled
    <3>2. CASE pc[d] = "keep_text" /\ SaveText(d)
      <4>1. job[d] # j
        BY <3>1, <3>2 DEF Alone, Stage, Looping
      <4> QED BY <1>1, <2>2, <3>1, <3>2, <4>1 DEF OneJobEach, SaveText, Sub
    <3> QED BY <2>2, <3>1, <3>2, TextStep
  <2>3. CASE result'[j] # result[j]
    <3>1. Finishes(d)
      BY <2>1, <2>3 DEF Moves, Starts, GivesUp
    <3>2. /\ Correction(d) \in flushed[d] /\ job[d] \in Jobs
          /\ \A row \in flushed[d] : row.text = text[Sub(d)]
      BY <1>1, <3>1, CorrectionIsFlushed DEF Finishes, Typed, Workers, Texts, Reads
    <3>3. j = job[d] /\ result'[j] = Correction(d)
      BY <1>1, <2>3, <3>1, <3>2 DEF Finishes, SaveDone
    <3>4. text' = text
      BY <3>1, TextStep DEF Finishes
    <3> QED BY <3>2, <3>3, <3>4 DEF Sub
  <2> QED BY <2>2, <2>3
<1> QED BY <1>2, <1>3, <1>4 DEF Texts, GradedTextIsOnRecord

\* Texts, until the first overlap.
CalmTexts == NoOverlap /\ OneJobEach => Texts

\* Every step preserves CalmTexts.
LEMMA TextsStep ==
  Typed /\ Uploaded /\ Historic /\ Calm /\ CalmTexts /\ [Next]_vars => CalmTexts'
<1> SUFFICES ASSUME Typed, Uploaded, Historic, Calm, CalmTexts, [Next]_vars,
                    NoOverlap', OneJobEach
             PROVE  Texts'
  BY DEF CalmTexts, OneJobEach
<1>1. Alone /\ Texts
  BY OverlapsGrow DEF Calm, CalmTexts
<1>2. ASSUME NEW d \in Deliveries, DeliveryStep(d) PROVE Texts'
  <2>1. Local(d)
    BY <1>2, OwnRow DEF Uploaded
  <2> QED BY <1>1, <1>2, <2>1, TextsDelivery DEF Uploaded
<1>3. CASE UNCHANGED <<result, text, trace, pc, job, draft, flushed>>
  BY <1>1, <1>3 DEF Texts, GradedTextIsOnRecord, TraceDescribesText, Reads, Sub
<1>4. CASE \E r \in Requests : ApiStep(r)
  BY <1>3, <1>4, ApiLeavesWorkers
<1>5. CASE UNCHANGED vars
  BY <1>3, <1>5 DEF vars, dbVars, workerVars
<1> QED BY <1>2, <1>4, <1>5, StepKinds

\* CalmTexts is an invariant.
LEMMA TextsAlways == Spec => []CalmTexts
<1>1. Init => CalmTexts
  BY DEF Init, CalmTexts, Texts, GradedTextIsOnRecord, TraceDescribesText, Reads
<1> QED BY <1>1, TextsStep, TypedAlways, UploadedAlways, HistoricAlways, CalmAlways, PTL DEF Spec

\* As long as there was no overlap, and where no essay is graded again, the text a
\* result graded is the text the submission shows.
THEOREM GradesAreOfTheTextOnRecord == Spec => [](NoOverlap /\ OneJobEach => GradedTextIsOnRecord)
<1>1. CalmTexts => (NoOverlap /\ OneJobEach => GradedTextIsOnRecord)
  BY DEF CalmTexts, Texts
<1> QED BY <1>1, TextsAlways, PTL

\* Under the same conditions the trace of a submission is of the transcription
\* that gave its text, and tells of no failure.
THEOREM TracesBelongToTexts == Spec => [](NoOverlap /\ OneJobEach => TraceDescribesText)
<1>1. CalmTexts => (NoOverlap /\ OneJobEach => TraceDescribesText)
  BY DEF CalmTexts, Texts
<1> QED BY <1>1, TextsAlways, PTL
====
