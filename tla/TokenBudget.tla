---- MODULE TokenBudget ----
(***************************************************************************)
(* What the essays of one municipality cost.  A request that grades them   *)
(* (AesService in modules/aes/service.py) checks the model that was named  *)
(* and the tokens recorded this month against the budget, then commits its *)
(* jobs and sends their messages.  A run is one delivery of such a message *)
(* to a worker (modules/aes/worker.py): it transcribes an image and asks   *)
(* the model for a correction, and each answer that the guards send back   *)
(* is asked, and paid, again (modules/aes/providers).                      *)
(*                                                                         *)
(* One answer of a model costs one token.  A token is paid when the answer *)
(* is given and counts against the budget when its attempt is committed.   *)
(***************************************************************************)
EXTENDS Naturals, FiniteSets

CONSTANTS
  Requests,       \* submit_batch, submit_image_batch, recorrect_batch
  Jobs,
  JobsOf,         \* [Requests -> SUBSET Jobs]
  Images,         \* jobs whose essay is an image
  Runs,           \* bound: deliveries, pairs of a job and a name
  AttemptsOf,     \* [Jobs -> CorrectionJob.max_attempts]
  MaxAttempts,    \* bound: the largest of them
  MaxRetries,     \* AES_CORRECTION_MAX_RETRIES and AES_OCR_MAX_RETRIES
  Budgets,        \* bound: values of monthly_token_budget, with None
  MaxRare,        \* bound: failures, crashes, edits, ends of a month
  None

ASSUME BudgetAssumption ==
  /\ MaxAttempts \in Nat \ {0} /\ MaxRetries \in Nat /\ MaxRare \in Nat
  /\ AttemptsOf \in [Jobs -> 1..MaxAttempts]
  /\ Budgets \subseteq Nat \cup {None}
  /\ \A d \in Runs : d[1] \in Jobs
  /\ IsFiniteSet(Requests) /\ IsFiniteSet(Jobs) /\ IsFiniteSet(Runs)
  /\ JobsOf \in [Requests -> SUBSET Jobs]
  /\ \A r, q \in Requests : JobsOf[r] \cap JobsOf[q] # {} => r = q

VARIABLES
  month,      \* of datetime.now(UTC)
  budget,     \* municipios.monthly_token_budget
  request,    \* [Requests -> the handler]
  status,     \* [Jobs -> CorrectionJob.status, "absent" or "unsent" before]
  text,       \* jobs whose essay has a text
  scans,      \* [Jobs -> tokens in transcription_meta]
  rows,       \* committed attempts
  run,        \* [Runs -> the worker]
  paid,       \* history: tokens paid
  lost,       \* history: tokens of which no record is left
  spent       \* rare events so far

spendVars == <<text, scans, rows, run, paid, lost, spent>>
vars == <<month, budget, request, status, spendVars>>

Terminal == {"done", "failed"}

\* The answers one run of an agent may ask for.
MaxAnswers == 1 + MaxRetries

Rows == [run : Runs, number : 1..MaxAttempts, tokens : 0..MaxAnswers, month : Nat]
RequestSteps == {"new", "limit", "sum", "create", "dispatch", "answered", "refused", "error"}
RunSteps == {"idle", "submission", "start", "transcribe", "correct", "finish",
             "exhausted", "rescue", "mark_failed", "over"}
Statuses == {"absent", "unsent", "pending", "processing"} \cup Terminal

TypeOK ==
  /\ month \in Nat
  /\ budget \in Budgets
  /\ request \in [Requests -> [pc : RequestSteps, limit : Budgets, month : Nat,
                               turn : 0..Cardinality(Requests), open : SUBSET Runs]]
  /\ status \in [Jobs -> Statuses]
  /\ text \subseteq Jobs
  /\ scans \in [Jobs -> 0..MaxAnswers]
  /\ rows \subseteq Rows
  /\ run \in [Runs -> [pc : RunSteps, number : 1..MaxAttempts, flushed : SUBSET Rows,
                       seen : Statuses, blank : BOOLEAN]]
  /\ paid \in Nat /\ lost \in Nat /\ spent \in 0..MaxRare

\* A run that has flushed nothing.  What it read is in seen, the status of its
\* job, and in blank, whether the essay had no text.
At(step) == [pc |-> step, number |-> 1, flushed |-> {}, seen |-> "absent", blank |-> FALSE]

Init ==
  /\ month = 1
  /\ budget \in Budgets
  /\ request = [r \in Requests |-> [pc |-> "new", limit |-> budget, month |-> 0, turn |-> 0, open |-> {}]]
  /\ status = [j \in Jobs |-> "absent"]
  /\ text = Jobs \ Images
  /\ scans = [j \in Jobs |-> 0]
  /\ rows = {}
  /\ run = [d \in Runs |-> At("idle")]
  /\ paid = 0 /\ lost = 0 /\ spent = 0

\* The tokens of attempts: one for each of their answers.
Answers(S) == {ak \in S \X (1..MaxAnswers) : ak[2] <= ak[1].tokens}
Tokens(S) == Cardinality(Answers(S))

------------------------------------------------------------------------
(* The request.                                                           *)

Go(r, step) == request' = [request EXCEPT ![r].pc = step]

\* fetch_catalog: from its cache or from the network, which may fail.
CatalogAnswers == {"listed", "unlisted", "failed"}
\* ensure_model_is_known: a catalog that cannot be had refuses nothing.
ModelIsKnown(answer) == answer # "unlisted"

\* The model, and before it the labels, or the images, their number, type and size.
Validate(r) ==
  /\ request[r].pc = "new"
  /\ \E sound \in BOOLEAN, answer \in CatalogAnswers :
       Go(r, IF sound /\ ModelIsKnown(answer) THEN "limit" ELSE "refused")
  /\ UNCHANGED <<month, budget, status, spendVars>>

\* Requests that were let through, in the order in which they were.
Admitted == {r \in Requests : request[r].turn > 0}
NextTurn == Cardinality(Admitted) + 1

\* check_budget, the municipality.
ReadBudget(r) ==
  /\ request[r].pc = "limit"
  /\ \/ /\ budget = None
        /\ request' = [request EXCEPT ![r].pc = "create", ![r].limit = None, ![r].turn = NextTurn]
     \/ /\ budget # None
        /\ request' = [request EXCEPT ![r].pc = "sum", ![r].limit = budget]
  /\ UNCHANGED <<month, budget, status, spendVars>>

\* The attempts this month's rows record.
SpendThisMonth == Tokens({a \in rows : a.month = month})

\* MUTANT: a budget is exceeded when it is passed.
Exceeded(limit) == SpendThisMonth > limit
AtOrAbove(limit) == SpendThisMonth >= limit

Unsettled(d) == status[d[1]] \notin Terminal

\* A run that read its job unsettled, and will write "processing" over whatever
\* the status is by then.
Reopens(d) == run[d].pc \in {"submission", "start"} /\ run[d].seen # "processing"

\* Runs that may still record something: already begun, or to be begun for a
\* job that is not settled or that another run may still reopen.
Live(d) ==
  \/ run[d].pc \notin {"idle", "over"}
  \/ /\ run[d].pc = "idle"
     /\ Unsettled(d) \/ \E e \in Runs : e[1] = d[1] /\ Reopens(e)

\* Those of the requests that were let through so far, and of this one.
RunsOf(q) == {d \in Runs : d[1] \in JobsOf[q]}
Reach(r) == {d \in UNION {RunsOf(q) : q \in Admitted \cup {r}} : Live(d)}

\* check_budget, the sum.
CheckSpend(r) ==
  /\ request[r].pc = "sum"
  /\ \/ /\ AtOrAbove(request[r].limit)
        /\ Go(r, "refused")
     \/ /\ ~AtOrAbove(request[r].limit)
        /\ request' = [request EXCEPT ![r].pc = "create", ![r].month = month,
                                      ![r].turn = NextTurn, ![r].open = Reach(r)]
  /\ UNCHANGED <<month, budget, status, spendVars>>

\* The rows of the batch in one transaction.
SaveBatch(r) == status' = [j \in Jobs |-> IF j \in JobsOf[r] THEN "unsent" ELSE status[j]]

Create(r) ==
  /\ request[r].pc = "create"
  /\ Go(r, "dispatch")
  /\ SaveBatch(r)
  /\ UNCHANGED <<month, budget, spendVars>>

\* One message per job; the request is answered after the last.
Send(j) == status[j] = "unsent" /\ status' = [status EXCEPT ![j] = "pending"]

Dispatch(r) ==
  /\ request[r].pc = "dispatch"
  /\ \E j \in JobsOf[r] :
       /\ Send(j)
       /\ Go(r, IF \E i \in JobsOf[r] \ {j} : status[i] = "unsent" THEN "dispatch" ELSE "answered")
  /\ UNCHANGED <<month, budget, spendVars>>

\* A prompt that is not found, an image that is not stored, a statement that
\* raises; the commit of the batch may have taken effect all the same, and the
\* message whose kiq raises may have been sent.
FailRequest(r) ==
  /\ request[r].pc \in {"limit", "sum", "create", "dispatch"}
  /\ spent < MaxRare
  /\ Go(r, "error")
  /\ spent' = spent + 1
  /\ \/ UNCHANGED status
     \/ request[r].pc = "create" /\ SaveBatch(r)
     \/ request[r].pc = "dispatch" /\ \E j \in JobsOf[r] : Send(j)
  /\ UNCHANGED <<month, budget, text, scans, rows, run, paid, lost>>

HandleRequest(r) ==
  \/ Validate(r) \/ ReadBudget(r) \/ CheckSpend(r)
  \/ Create(r) \/ Dispatch(r) \/ FailRequest(r)

------------------------------------------------------------------------
(* The worker.                                                            *)

\* Everything a step of a run leaves alone.
Elsewhere == UNCHANGED <<month, budget, request>>

\* A message is delivered, for the first time or again while an earlier
\* delivery is still at work: SELECT of the job.
Delivered(d) == run[d].pc = "idle" /\ status[d[1]] \notin {"absent", "unsent"}

LoadJob(d) ==
  /\ Delivered(d)
  /\ run' = [run EXCEPT ![d] = IF Unsettled(d)
                                THEN [At("submission") EXCEPT !.seen = status[d[1]]]
                                ELSE At("over")]
  /\ UNCHANGED <<status, text, scans, rows, paid, lost, spent>>
  /\ Elsewhere

\* SELECT of the submission; raw_text is not read again after this.
LoadSubmission(d) ==
  /\ run[d].pc = "submission"
  /\ run' = [run EXCEPT ![d].pc = "start", ![d].blank = d[1] \notin text]
  /\ UNCHANGED <<status, text, scans, rows, paid, lost, spent>>
  /\ Elsewhere

\* The UPDATE does not look at the status it replaces, and is sent only when the
\* value differs from the one that was read.
SaveProcessing(d) ==
  status' = [status EXCEPT ![d[1]] = IF run[d].seen = "processing" THEN @ ELSE "processing"]

\* job.status = "processing"; commit.
MarkProcessing(d) ==
  /\ run[d].pc = "start"
  /\ SaveProcessing(d)
  /\ run' = [run EXCEPT ![d] = At(IF run[d].blank THEN "transcribe" ELSE "correct")]
  /\ UNCHANGED <<text, scans, rows, paid, lost, spent>>
  /\ Elsewhere

\* The database raises before the try, the commit effective or not: nothing
\* settles the job.
StartFails(d) ==
  /\ Delivered(d) \/ run[d].pc \in {"submission", "start"}
  /\ spent < MaxRare
  /\ spent' = spent + 1
  /\ (run[d].pc = "start" /\ SaveProcessing(d)) \/ UNCHANGED status
  /\ run' = [run EXCEPT ![d] = At("over")]
  /\ UNCHANGED <<text, scans, rows, paid, lost>>
  /\ Elsewhere

\* A transcription as guard_transcricao sees it, and its verdict on the kth
\* of a conversation: a short text is asked about once and then believed.
Transcriptions == {"partial", "wordless", "illegible", "short", "long"}
Allowed(s, k) ==
  \/ s[k] = "long"
  \/ s[k] = "short" /\ \E i \in 1..(k - 1) : s[i] = "short"

\* How the run of an agent ends: after how many answers, each but the last
\* sent back, and whether the last was accepted.
Endings == {e \in [answers : 1..MaxAnswers, accepted : BOOLEAN] :
              e.accepted \/ e.answers = MaxAnswers}
Transcribed == {e \in Endings : \E s \in [1..e.answers -> Transcriptions] :
                  \A k \in 1..e.answers : Allowed(s, k) <=> (k = e.answers /\ e.accepted)}

\* transcription_meta is written over: the trace of an earlier conversation
\* of the same submission goes.
Trace(d, answers) ==
  /\ scans' = [scans EXCEPT ![d[1]] = answers]
  /\ lost' = lost + scans[d[1]]

\* _transcribe_if_needed, and its failure when no transcription is accepted.
Transcribe(d) ==
  /\ run[d].pc = "transcribe"
  /\ \E e \in Transcribed :
       /\ paid' = paid + e.answers
       /\ Trace(d, e.answers)
       /\ \/ /\ e.accepted
             /\ text' = text \cup {d[1]}
             /\ run' = [run EXCEPT ![d].pc = "correct"]
          \/ /\ ~e.accepted
             /\ run' = [run EXCEPT ![d].pc = "rescue"]
             /\ UNCHANGED text
  /\ UNCHANGED <<status, rows, spent>>
  /\ Elsewhere

\* The commit of the text raises although it took effect.
TranscriptionUnconfirmed(d) ==
  /\ run[d].pc = "transcribe" /\ spent < MaxRare
  /\ spent' = spent + 1
  /\ \E e \in Transcribed :
       /\ e.accepted
       /\ paid' = paid + e.answers
       /\ Trace(d, e.answers)
  /\ text' = text \cup {d[1]}
  /\ run' = [run EXCEPT ![d].pc = "rescue"]
  /\ UNCHANGED <<status, rows>>
  /\ Elsewhere

\* The provider of the transcription raises after some answers, whose trace
\* is kept.
TranscriptionBreaks(d) ==
  /\ run[d].pc = "transcribe" /\ spent < MaxRare
  /\ spent' = spent + 1
  /\ \E answers \in 0..MaxRetries :
       /\ paid' = paid + answers
       /\ Trace(d, answers)
  /\ run' = [run EXCEPT ![d].pc = "rescue"]
  /\ UNCHANGED <<status, text, rows>>
  /\ Elsewhere

\* MUTANT: the tokens of the last answer.
LastAnswer(answers) == IF answers = 0 THEN 0 ELSE 1
\* somar_uso_do_modelo, and usage of a run that succeeds: all its answers.
Used(answers) == answers

\* _run_attempt after a call with so many answers: the exchange is stored and
\* the row flushed; another attempt follows, or the job is to be settled.
Record(d, answers, accepted) ==
  LET a == [run |-> d, number |-> run[d].number, tokens |-> Used(answers), month |-> month]
      kept == [run[d] EXCEPT !.flushed = @ \cup {a}] IN
  \/ /\ accepted
     /\ run' = [run EXCEPT ![d] = [kept EXCEPT !.pc = "finish"]]
  \/ /\ ~accepted /\ run[d].number < AttemptsOf[d[1]]
     /\ run' = [run EXCEPT ![d] = [kept EXCEPT !.number = @ + 1]]
  \/ /\ ~accepted /\ run[d].number = AttemptsOf[d[1]]
     /\ run' = [run EXCEPT ![d] = [kept EXCEPT !.pc = "exhausted"]]

\* A correction as the schema and the two guards see it.
Corrections == {"malformed", "misquotes", "repeats", "sound"}
Quotes(c) == c # "misquotes"
Distinct(c) == c # "repeats"
Accepts(c) == c # "malformed" /\ Quotes(c) /\ Distinct(c)
Corrected == {e \in Endings : \E s \in [1..e.answers -> Corrections] :
                \A k \in 1..e.answers : Accepts(s[k]) <=> (k = e.answers /\ e.accepted)}

\* run_agent: answers are asked for until one is accepted, or too many were not.
Correct(d) ==
  /\ run[d].pc = "correct"
  /\ \E e \in Corrected : paid' = paid + e.answers /\ Record(d, e.answers, e.accepted)
  /\ UNCHANGED <<status, text, scans, rows, lost, spent>>
  /\ Elsewhere

\* The provider raises: what was used so far is an attempt all the same.
CorrectionBreaks(d) ==
  /\ run[d].pc = "correct" /\ spent < MaxRare
  /\ spent' = spent + 1
  /\ \E answers \in 0..MaxRetries : paid' = paid + answers /\ Record(d, answers, FALSE)
  /\ UNCHANGED <<status, text, scans, rows, lost>>
  /\ Elsewhere

\* The commit of the attempts, the result and the status.
Save(d) ==
  /\ run[d].pc \in {"finish", "exhausted"}
  /\ status' = [status EXCEPT ![d[1]] = IF run[d].pc = "finish" THEN "done" ELSE "failed"]
  /\ rows' = rows \cup run[d].flushed
  /\ UNCHANGED <<text, scans, paid, lost>>
  /\ Elsewhere

Settle(d) ==
  /\ Save(d)
  /\ run' = [run EXCEPT ![d] = At("over")]
  /\ UNCHANGED spent

\* The commit raises although it took effect.
SettleUnconfirmed(d) ==
  /\ Save(d)
  /\ run' = [run EXCEPT ![d] = At("rescue")]
  /\ spent < MaxRare /\ spent' = spent + 1

Unrecorded(d) == Tokens(run[d].flushed)

\* A conversation may have gone on until the worker's step fails.
Wasted(d) == IF run[d].pc \in {"transcribe", "correct"} THEN 0..MaxAnswers ELSE {0}

Lose(d, step) ==
  /\ spent < MaxRare
  /\ spent' = spent + 1
  /\ \E answers \in Wasted(d) :
       /\ paid' = paid + answers
       /\ lost' = lost + answers + Unrecorded(d)
  /\ run' = [run EXCEPT ![d] = At(step)]
  /\ UNCHANGED <<status, text, scans, rows>>
  /\ Elsewhere

\* A statement, the storage or a commit without effect raises: the transaction
\* is rolled back with the rows it flushed, and the answers just paid have no row.
Raise(d) == run[d].pc \in {"transcribe", "correct", "finish", "exhausted"} /\ Lose(d, "rescue")

\* The except of process_correction_job: SELECT of the job again.
Rescue(d) ==
  /\ run[d].pc = "rescue"
  /\ run' = [run EXCEPT ![d] = [At("mark_failed") EXCEPT !.seen = status[d[1]]]]
  /\ UNCHANGED <<status, text, scans, rows, paid, lost, spent>>
  /\ Elsewhere

\* if job.status != "done": job.status = "failed"; commit.
MarkFailed(d) ==
  /\ run[d].pc = "mark_failed"
  /\ status' = [status EXCEPT ![d[1]] = IF run[d].seen \in Terminal THEN @ ELSE "failed"]
  /\ run' = [run EXCEPT ![d] = At("over")]
  /\ UNCHANGED <<text, scans, rows, paid, lost, spent>>
  /\ Elsewhere

\* The worker is killed, or the database raises again inside the except.
Crash(d) == run[d].pc \notin {"idle", "over"} /\ Lose(d, "over")

Work(d) ==
  \/ LoadJob(d) \/ LoadSubmission(d) \/ MarkProcessing(d) \/ StartFails(d)
  \/ Transcribe(d) \/ TranscriptionUnconfirmed(d) \/ TranscriptionBreaks(d)
  \/ Correct(d) \/ CorrectionBreaks(d)
  \/ Settle(d) \/ SettleUnconfirmed(d) \/ Raise(d)
  \/ Rescue(d) \/ MarkFailed(d) \/ Crash(d)

------------------------------------------------------------------------

NextMonth ==
  /\ spent < MaxRare
  /\ spent' = spent + 1
  /\ month' = month + 1
  /\ UNCHANGED <<budget, request, status, text, scans, rows, run, paid, lost>>

\* The form of the administration.
EditBudget ==
  /\ spent < MaxRare
  /\ spent' = spent + 1
  /\ budget' \in Budgets
  /\ UNCHANGED <<month, request, status, text, scans, rows, run, paid, lost>>

Next ==
  \/ \E r \in Requests : HandleRequest(r)
  \/ \E d \in Runs : Work(d)
  \/ NextMonth \/ EditBudget

Spec == Init /\ [][Next]_vars

------------------------------------------------------------------------

\* The attempts that are not committed yet, and the answers the traces of
\* transcriptions record.
Flushed == UNION {run[d].flushed : d \in Runs}
Scans == {jk \in Jobs \X (1..MaxAnswers) : jk[2] <= scans[jk[1]]}
Scanned == Cardinality(Scans)

\* The most the runs D record: each attempt asks at most MaxAnswers times.
Chances(D) == {dn \in D \X (1..MaxAttempts) : dn[2] <= AttemptsOf[dn[1][1]]}
AtMost(D) == MaxAnswers * Cardinality(Chances(D))

(* By how much a budget can be overrun.  Nothing is reserved when a check  *)
(* lets a request through (service.py:63-79), so what it did not yet see   *)
(* comes on top; but no more than that: the runs that were under way or    *)
(* ahead at the check, each with as many tokens as its attempts allow.     *)
(* Ahead are the deliveries of a job that is not settled, and those of a   *)
(* settled job that a late delivery has read before and will set to        *)
(* processing again (worker.py:195-212): they spend once more.  Retries of *)
(* the guards, failing attempts and overlapping deliveries do not reach    *)
(* further.                                                                *)
OverrunIsWithinReach ==
  \A r \in Requests : request[r].month # 0 =>
    LET earlier == {q \in Admitted : request[q].turn <= request[r].turn}
        charged == {a \in rows : /\ a.month = request[r].month
                                 /\ a.run \in UNION {RunsOf(q) : q \in earlier}}
    IN  Tokens(charged) < request[r].limit + AtMost(request[r].open)

(* Every token that was paid is in a committed attempt, in the trace of a  *)
(* transcription, in the hands of a run, or was lost with a transaction or *)
(* a trace written over; none is counted twice.  This is what              *)
(* _pydantic_ai_support.py:110-114 promises for the answers of a run that  *)
(* ends in an error: each was paid, and is summed.                         *)
EveryTokenIsAccounted == paid = Tokens(rows) + Tokens(Flushed) + Scanned + lost

====
