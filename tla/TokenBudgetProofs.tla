---- MODULE TokenBudgetProofs ----
(***************************************************************************)
(* Proofs about TokenBudget, for any requests, jobs and deliveries, any    *)
(* number of attempts and of retries of the guards, and any number of      *)
(* failures, crashes, edits of the budget and ends of a month.             *)
(***************************************************************************)
EXTENDS TokenBudget, FiniteSetTheorems, TLAPS

------------------------------------------------------------------------
(* The tokens of a set of attempts.                                       *)

\* The bounds are numbers.
LEMMA Bounds ==
  /\ MaxAttempts \in Nat \ {0} /\ MaxAnswers \in Nat \ {0}
  /\ 1..MaxAnswers \subseteq Nat
BY BudgetAssumption, Z3 DEF MaxAnswers

\* The answers of finitely many attempts are finitely many.
LEMMA AnswersFinite ==
  ASSUME NEW S \in SUBSET Rows, IsFiniteSet(S)
  PROVE  IsFiniteSet(Answers(S)) /\ Tokens(S) \in Nat
<1>1. IsFiniteSet(1..MaxAnswers)
  BY Bounds, FS_Interval
<1>2. IsFiniteSet(S \X (1..MaxAnswers))
  BY <1>1, FS_Product
<1>3. IsFiniteSet(Answers(S))
  BY <1>2, FS_Subset DEF Answers
<1> QED BY <1>3, FS_CardinalityType DEF Tokens

\* An attempt counts once.
LEMMA TokensUnion ==
  ASSUME NEW S \in SUBSET Rows, NEW T \in SUBSET Rows, IsFiniteSet(S), IsFiniteSet(T),
         S \cap T = {}
  PROVE  Tokens(S \cup T) = Tokens(S) + Tokens(T)
<1>1. Answers(S \cap T) = Answers(S) \cap Answers(T)
  BY DEF Answers
<1>0. Answers(S \cup T) = Answers(S) \cup Answers(T)
  BY DEF Answers
<1>2. IsFiniteSet(Answers(S)) /\ IsFiniteSet(Answers(T))
  BY AnswersFinite
<1>3. Cardinality(Answers(S) \cup Answers(T)) =
        Cardinality(Answers(S)) + Cardinality(Answers(T)) - Cardinality(Answers(S) \cap Answers(T))
  BY <1>2, FS_Union
<1>4. Cardinality(Answers(S) \cap Answers(T)) = 0
  BY <1>1, FS_EmptySet DEF Answers
<1>5. Cardinality(Answers(S)) \in Nat /\ Cardinality(Answers(T)) \in Nat
  BY <1>2, FS_CardinalityType
<1>6. Cardinality(Answers(S \cup T)) = Cardinality(Answers(S)) + Cardinality(Answers(T))
  <2>1. Cardinality(Answers(S) \cup Answers(T)) =
          Cardinality(Answers(S)) + Cardinality(Answers(T))
    BY <1>3, <1>4, <1>5
  <2> QED BY <1>0, <2>1
<1> QED BY <1>6 DEF Tokens

\* One attempt has as many as it records.
LEMMA TokensOne ==
  ASSUME NEW a \in Rows
  PROVE  Tokens({a}) = a.tokens
<1>1. a.tokens \in 0..MaxAnswers /\ a.tokens \in Nat
  BY Bounds DEF Rows
<1>2. Answers({a}) = {a} \X (1..a.tokens)
  BY <1>1, Bounds DEF Answers
<1>3. IsFiniteSet(1..a.tokens) /\ Cardinality(1..a.tokens) = a.tokens
  BY <1>1, FS_Interval
<1>4. IsFiniteSet({a}) /\ Cardinality({a}) = 1
  BY FS_Singleton
<1>5. Cardinality({a} \X (1..a.tokens)) = Cardinality({a}) * Cardinality(1..a.tokens)
  BY <1>3, <1>4, FS_Product
<1>6. Cardinality({a}) * Cardinality(1..a.tokens) = a.tokens
  BY <1>1, <1>3, <1>4
<1> QED BY <1>2, <1>5, <1>6 DEF Tokens

\* Fewer attempts, no more tokens.
LEMMA TokensMonotone ==
  ASSUME NEW S \in SUBSET Rows, IsFiniteSet(S), NEW T \in SUBSET S
  PROVE  /\ IsFiniteSet(T) /\ Tokens(T) <= Tokens(S)
         /\ Tokens(S \ T) = Tokens(S) - Tokens(T)
<1>1. IsFiniteSet(T) /\ IsFiniteSet(S \ T)
  BY FS_Subset
<1>2. T \cup (S \ T) = S /\ T \cap (S \ T) = {}
  OBVIOUS
<1>3. Tokens(S) = Tokens(T) + Tokens(S \ T)
  BY <1>1, <1>2, TokensUnion
<1>4. Tokens(T) \in Nat /\ Tokens(S \ T) \in Nat /\ Tokens(S) \in Nat
  BY <1>1, AnswersFinite
<1> QED BY <1>1, <1>3, <1>4

LEMMA TokensNone == Tokens({}) = 0
BY FS_EmptySet DEF Tokens, Answers

\* The attempts of finitely many runs are finitely many.
LEMMA ChancesFinite ==
  ASSUME NEW D \in SUBSET Runs
  PROVE  /\ IsFiniteSet(Chances(D)) /\ Cardinality(Chances(D)) \in Nat
         /\ AtMost(D) \in Nat
<1>1. IsFiniteSet(D) /\ IsFiniteSet(1..MaxAttempts)
  BY BudgetAssumption, Bounds, FS_Subset, FS_Interval
<1>2. IsFiniteSet(D \X (1..MaxAttempts))
  BY <1>1, FS_Product
<1>3. IsFiniteSet(Chances(D)) /\ Cardinality(Chances(D)) \in Nat
  BY <1>2, FS_Subset, FS_CardinalityType DEF Chances
<1> QED BY <1>3, Bounds DEF AtMost

\* Attempts that differ by their run and number, and are of the runs in D, have no more
\* than these may record.
LEMMA TokensOfRuns ==
  ASSUME NEW S \in SUBSET Rows, IsFiniteSet(S), NEW D \in SUBSET Runs,
         \A a \in S : a.run \in D /\ a.number <= AttemptsOf[a.run[1]],
         \A a, b \in S : a.run = b.run /\ a.number = b.number => a = b
  PROVE  Tokens(S) <= AtMost(D)
<1> DEFINE T == Chances(D) \X (1..MaxAnswers)
           f == [ak \in Answers(S) |-> <<<<ak[1].run, ak[1].number>>, ak[2]>>]
<1>1. IsFiniteSet(Chances(D)) /\ Cardinality(Chances(D)) \in Nat
  BY ChancesFinite
<1>2. IsFiniteSet(1..MaxAnswers) /\ Cardinality(1..MaxAnswers) = MaxAnswers
  BY Bounds, FS_Interval
<1>3. /\ IsFiniteSet(T)
      /\ Cardinality(T) = Cardinality(Chances(D)) * Cardinality(1..MaxAnswers)
  BY <1>1, <1>2, FS_Product
<1>4. f \in Injection(Answers(S), T)
  <2>1. \A ak \in Answers(S) : <<ak[1].run, ak[1].number>> \in Chances(D)
    BY DEF Answers, Rows, Chances
  <2>2. f \in [Answers(S) -> T]
    BY <2>1 DEF Answers
  <2>3. ASSUME NEW x \in Answers(S), NEW y \in Answers(S), f[x] = f[y] PROVE x = y
    BY <2>3 DEF Answers
  <2> QED BY <2>2, <2>3 DEF Injection, IsInjective
<1>5. Cardinality(Answers(S)) <= Cardinality(T)
  BY <1>3, <1>4, FS_Injection, AnswersFinite
<1>6. Cardinality(Chances(D)) * Cardinality(1..MaxAnswers) = AtMost(D)
  BY <1>1, <1>2, Bounds DEF AtMost
<1> QED BY <1>3, <1>5, <1>6 DEF Tokens

------------------------------------------------------------------------
(* What a request and a run have at each of their steps.                  *)

RequestRecords == [pc : RequestSteps, limit : Budgets, month : Nat,
                   turn : 0..Cardinality(Requests), open : SUBSET Runs]
RunRecords == [pc : RunSteps, number : 1..MaxAttempts, flushed : SUBSET Rows,
               seen : Statuses, blank : BOOLEAN]

\* A job whose message was sent.
Sent == {"pending", "processing"} \cup Terminal

\* Of the variables k of the request r, when the jobs have the statuses st: nothing is
\* created before the check, and whoever has a month was let through a budget.
RequestFits(r, k, st) ==
  /\ k.pc \in {"new", "limit", "sum"} => k.turn = 0 /\ k.month = 0
  /\ k.pc \in {"new", "limit", "sum", "create"} => \A j \in JobsOf[r] : st[j] = "absent"
  /\ k.pc = "sum" => k.limit \in Nat
  /\ k.month # 0 => k.turn # 0 /\ k.limit \in Nat

\* Of the variables k of the run d: the attempts it has flushed are its own and have
\* the numbers it has behind it, and none is left when its loop has ended.
RunFits(d, k, st) ==
  /\ k.pc # "idle" => st[d[1]] \in Sent
  /\ k.number <= AttemptsOf[d[1]]
  /\ k.pc \notin {"correct", "finish", "exhausted"} => k.flushed = {}
  /\ \A a \in k.flushed : /\ a.run = d /\ a.number <= AttemptsOf[d[1]]
                          /\ k.pc = "correct" => a.number < k.number
  /\ \A a, b \in k.flushed : a.number = b.number => a = b

\* The steps of a run whose attempts may be committed: it asks for no more.
Past == {"rescue", "mark_failed", "over"}

\* Committed attempts are of such runs, each with a number of its own.
RowsFit ==
  /\ IsFiniteSet(rows) /\ IsFiniteSet(Flushed)
  /\ \A a \in rows : run[a.run].pc \in Past /\ a.number <= AttemptsOf[a.run[1]]
  /\ \A a, b \in rows : a.run = b.run /\ a.number = b.number => a = b

Sound ==
  /\ TypeOK
  /\ \A r \in Requests : /\ RequestFits(r, request[r], status)
                         /\ request[r].turn <= Cardinality(Admitted)
  /\ \A d \in Runs : RunFits(d, run[d], status)
  /\ RowsFit

\* The variables of a request and of a run have their types.
LEMMA Records ==
  ASSUME Sound
  PROVE  /\ \A r \in Requests : request[r] \in RequestRecords /\ RequestFits(r, request[r], status)
         /\ \A d \in Runs : run[d] \in RunRecords /\ RunFits(d, run[d], status)
         /\ request \in [Requests -> RequestRecords] /\ run \in [Runs -> RunRecords]
BY DEF Sound, TypeOK, RequestRecords, RunRecords

\* A run is one of a job.
LEMMA JobOfRun == \A d \in Runs : d[1] \in Jobs
BY BudgetAssumption

\* Jobs become visible when they are created, and sent when their message is.
StatusStep ==
  /\ status' \in [Jobs -> Statuses]
  /\ \A j \in Jobs :
       \/ status'[j] = status[j]
       \/ status[j] = "absent" /\ status'[j] = "unsent"
       \/ status[j] = "unsent" /\ status'[j] = "pending"
       \/ status[j] \in Sent /\ status'[j] \in Sent

\* A job that was sent stays so.
LEMMA SentStays ==
  ASSUME StatusStep, NEW j \in Jobs
  PROVE  status[j] \in Sent => status'[j] \in Sent
BY DEF StatusStep, Sent, Terminal

------------------------------------------------------------------------
(* The steps of a request.                                                *)

\* The request has new variables; the worker has done nothing.
Handles(r, new) ==
  /\ new \in RequestRecords /\ RequestFits(r, new, status')
  /\ request' = [request EXCEPT ![r] = new]
  /\ StatusStep /\ spent' \in 0..MaxRare
  /\ \A j \in Jobs : j \notin JobsOf[r] \/ status[j] \in Sent => status'[j] = status[j]
  /\ UNCHANGED <<month, budget, text, scans, rows, run, paid, lost>>

\* It was let through before, it is not yet, or it is now, as the last.
TurnStep(r, new) ==
  \/ new.turn = request[r].turn /\ new.month = request[r].month
       /\ new.limit = request[r].limit /\ new.open = request[r].open
  \/ new.turn = 0 /\ request[r].turn = 0 /\ new.month = 0
  \/ new.turn = NextTurn /\ request[r].turn = 0 /\ new.month = 0
  \/ /\ request[r].pc = "sum" /\ ~AtOrAbove(new.limit)
     /\ new.turn = NextTurn /\ request[r].turn = 0
     /\ new.month = month /\ new.open = Reach(r)

\* The next turn is one of the turns, and later than any.
LEMMA Turns ==
  ASSUME Sound
  PROVE  /\ IsFiniteSet(Admitted) /\ Cardinality(Admitted) \in Nat
         /\ Cardinality(Requests) \in Nat
         /\ \A r \in Requests : request[r].turn \in Nat
         /\ \A r \in Requests : request[r].turn = 0 =>
              NextTurn \in 1..Cardinality(Requests)
<1>1. Admitted \subseteq Requests /\ IsFiniteSet(Requests)
  BY BudgetAssumption DEF Admitted
<1>2. /\ IsFiniteSet(Admitted) /\ Cardinality(Admitted) \in Nat
      /\ Cardinality(Requests) \in Nat
  BY <1>1, FS_Subset, FS_CardinalityType
<1>3. \A r \in Requests : request[r].turn \in Nat
  BY <1>2, Records DEF RequestRecords
<1>4. ASSUME NEW r \in Requests, request[r].turn = 0
      PROVE  NextTurn \in 1..Cardinality(Requests)
  <2>1. r \notin Admitted /\ Admitted \cup {r} \subseteq Requests
    BY <1>1, <1>4 DEF Admitted
  <2>2. Cardinality(Admitted \cup {r}) = Cardinality(Admitted) + 1
    BY <1>2, <2>1, FS_AddElement
  <2>3. Cardinality(Admitted \cup {r}) <= Cardinality(Requests)
    BY <1>1, <2>1, FS_Subset
  <2> QED BY <1>2, <2>2, <2>3 DEF NextTurn
<1> QED BY <1>2, <1>3, <1>4

\* The names of steps.
LEMMA StepNames ==
  /\ {"new", "limit", "sum", "create", "dispatch", "answered", "refused", "error"} = RequestSteps
  /\ {"idle", "submission", "start", "transcribe", "correct", "finish", "exhausted",
      "rescue", "mark_failed", "over"} = RunSteps
BY DEF RequestSteps, RunSteps

\* A step that writes no status.
LEMMA SameStatus ==
  ASSUME Sound, UNCHANGED status
  PROVE  StatusStep
BY DEF Sound, TypeOK, StatusStep

\* A request that only goes on to another step.
LEMMA Goes ==
  ASSUME Sound, NEW r \in Requests, NEW step \in RequestSteps, Go(r, step),
         StatusStep, spent' \in 0..MaxRare,
         \A j \in Jobs : j \notin JobsOf[r] \/ status[j] \in Sent => status'[j] = status[j],
         UNCHANGED <<month, budget, text, scans, rows, run, paid, lost>>,
         RequestFits(r, [request[r] EXCEPT !.pc = step], status')
  PROVE  \E new : Handles(r, new) /\ TurnStep(r, new)
<1> DEFINE new == [request[r] EXCEPT !.pc = step]
<1>1. /\ new \in RequestRecords /\ new.turn = request[r].turn /\ new.month = request[r].month
      /\ new.limit = request[r].limit /\ new.open = request[r].open
  BY Records DEF RequestRecords
<1>2. request' = [request EXCEPT ![r] = new]
  BY Records DEF Go
<1> HIDE DEF new
<1>3. RequestFits(r, new, status')
  BY DEF new
<1> QED BY <1>1, <1>2, <1>3 DEF Handles, TurnStep

LEMMA ValidateStep ==
  ASSUME Sound, NEW r \in Requests, Validate(r)
  PROVE  \E new : Handles(r, new) /\ TurnStep(r, new)
<1>1. PICK step \in {"limit", "refused"} : Go(r, step)
  BY DEF Validate
<1> DEFINE new == [request[r] EXCEPT !.pc = step]
<1>2. /\ new.pc = step /\ new.turn = request[r].turn /\ new.month = request[r].month
      /\ new.limit = request[r].limit
  BY Records DEF RequestRecords
<1> HIDE DEF new
<1>3. RequestFits(r, request[r], status) /\ request[r].pc = "new" /\ UNCHANGED status
  BY Records DEF Validate
<1>4. RequestFits(r, new, status')
  BY <1>2, <1>3 DEF RequestFits
<1>5. StatusStep /\ step \in RequestSteps /\ spent' \in 0..MaxRare
  BY <1>1, SameStatus, StepNames DEF Validate, spendVars, Sound, TypeOK
<1> QED BY <1>1, <1>4, <1>5, Goes DEF Validate, spendVars, new

LEMMA ReadBudgetStep ==
  ASSUME Sound, NEW r \in Requests, ReadBudget(r)
  PROVE  \E new : Handles(r, new) /\ TurnStep(r, new)
<1>1. RequestFits(r, request[r], status) /\ request[r].pc = "limit" /\ budget \in Budgets
  BY Records DEF ReadBudget, Sound, TypeOK
<1>2. StatusStep /\ spent' \in 0..MaxRare
  BY SameStatus DEF ReadBudget, spendVars, Sound, TypeOK
<1>3. CASE budget = None
  <2> DEFINE new == [request[r] EXCEPT !.pc = "create", !.limit = None, !.turn = NextTurn]
  <2>1. request[r].turn = 0 /\ request[r].month = 0 /\ NextTurn \in 0..Cardinality(Requests)
    BY <1>1, Turns DEF RequestFits
  <2>2. /\ new \in RequestRecords /\ new.pc = "create" /\ new.turn = NextTurn
        /\ new.month = 0
    BY <1>1, <1>3, <2>1, Records, StepNames DEF RequestRecords
  <2>3. request' = [request EXCEPT ![r] = new]
    BY <1>3, Records DEF ReadBudget
  <2> HIDE DEF new
  <2>4. RequestFits(r, new, status')
    BY <1>1, <2>2 DEF RequestFits, ReadBudget
  <2>5. TurnStep(r, new)
    BY <2>1, <2>2 DEF TurnStep
  <2> QED BY <1>2, <2>2, <2>3, <2>4, <2>5 DEF Handles, ReadBudget, spendVars
<1>4. CASE budget # None
  <2> DEFINE new == [request[r] EXCEPT !.pc = "sum", !.limit = budget]
  <2>1. request[r].turn = 0 /\ request[r].month = 0 /\ budget \in Nat
    BY <1>1, <1>4, BudgetAssumption DEF RequestFits
  <2>2. /\ new \in RequestRecords /\ new.pc = "sum" /\ new.turn = 0
        /\ new.month = 0 /\ new.limit = budget
    BY <1>1, <2>1, Records, StepNames DEF RequestRecords
  <2>3. request' = [request EXCEPT ![r] = new]
    BY <1>4, Records DEF ReadBudget
  <2> HIDE DEF new
  <2>4. RequestFits(r, new, status')
    BY <1>1, <2>1, <2>2 DEF RequestFits, ReadBudget
  <2>5. TurnStep(r, new)
    BY <2>1, <2>2 DEF TurnStep
  <2> QED BY <1>2, <2>2, <2>3, <2>4, <2>5 DEF Handles, ReadBudget, spendVars
<1> QED BY <1>3, <1>4

LEMMA CheckSpendStep ==
  ASSUME Sound, NEW r \in Requests, CheckSpend(r)
  PROVE  \E new : Handles(r, new) /\ TurnStep(r, new)
<1>1. RequestFits(r, request[r], status) /\ request[r].pc = "sum" /\ month \in Nat
  BY Records DEF CheckSpend, Sound, TypeOK
<1>2. StatusStep /\ spent' \in 0..MaxRare
  BY SameStatus DEF CheckSpend, spendVars, Sound, TypeOK
<1>3. CASE AtOrAbove(request[r].limit)
  <2> DEFINE new == [request[r] EXCEPT !.pc = "refused"]
  <2>1. /\ new.pc = "refused" /\ new.turn = request[r].turn /\ new.month = request[r].month
        /\ new.limit = request[r].limit
    BY Records DEF RequestRecords
  <2> HIDE DEF new
  <2>2. RequestFits(r, new, status')
    BY <1>1, <2>1 DEF RequestFits
  <2> QED BY <1>2, <1>3, <2>2, StepNames, Goes DEF CheckSpend, spendVars, new
<1>4. CASE ~AtOrAbove(request[r].limit)
  <2> DEFINE new == [request[r] EXCEPT !.pc = "create", !.month = month, !.turn = NextTurn,
                                       !.open = Reach(r)]
  <2>1. /\ request[r].turn = 0 /\ NextTurn \in 0..Cardinality(Requests) /\ NextTurn # 0
        /\ Reach(r) \subseteq Runs
    BY <1>1, Turns DEF RequestFits, Reach, RunsOf
  <2>2. /\ new \in RequestRecords /\ new.pc = "create" /\ new.turn = NextTurn
        /\ new.month = month /\ new.limit = request[r].limit /\ new.open = Reach(r)
    BY <1>1, <2>1, Records, StepNames DEF RequestRecords
  <2>3. request' = [request EXCEPT ![r] = new]
    BY <1>4, Records DEF CheckSpend
  <2> HIDE DEF new
  <2>4. RequestFits(r, new, status')
    BY <1>1, <2>1, <2>2 DEF RequestFits, CheckSpend
  <2>5. TurnStep(r, new)
    BY <1>1, <1>4, <2>1, <2>2 DEF TurnStep
  <2> QED BY <1>2, <2>2, <2>3, <2>4, <2>5 DEF Handles, CheckSpend, spendVars
<1> QED BY <1>3, <1>4

\* What a request makes of the statuses, its commits effective or not.
LEMMA SaveBatchStatus ==
  ASSUME Sound, NEW r \in Requests, request[r].pc = "create", SaveBatch(r)
  PROVE  /\ StatusStep
         /\ \A j \in Jobs : j \notin JobsOf[r] \/ status[j] \in Sent => status'[j] = status[j]
<1>1. /\ \A j \in JobsOf[r] : status[j] = "absent"
      /\ status \in [Jobs -> Statuses] /\ JobsOf[r] \subseteq Jobs
  BY Records, BudgetAssumption DEF RequestFits, Sound, TypeOK
<1> QED BY <1>1 DEF SaveBatch, StatusStep, Statuses, Sent, Terminal

LEMMA SendStatus ==
  ASSUME Sound, NEW r \in Requests, NEW i \in JobsOf[r], Send(i)
  PROVE  /\ StatusStep
         /\ \A j \in Jobs : j \notin JobsOf[r] \/ status[j] \in Sent => status'[j] = status[j]
<1>1. status \in [Jobs -> Statuses] /\ i \in Jobs
  BY BudgetAssumption DEF Sound, TypeOK
<1> QED BY <1>1 DEF Send, StatusStep, Statuses, Sent, Terminal

LEMMA CreateStep ==
  ASSUME Sound, NEW r \in Requests, Create(r)
  PROVE  \E new : Handles(r, new) /\ TurnStep(r, new)
<1>1. RequestFits(r, request[r], status) /\ request[r].pc = "create" /\ SaveBatch(r)
  BY Records DEF Create
<1> DEFINE new == [request[r] EXCEPT !.pc = "dispatch"]
<1>2. /\ new.pc = "dispatch" /\ new.turn = request[r].turn /\ new.month = request[r].month
      /\ new.limit = request[r].limit
  BY Records DEF RequestRecords
<1> HIDE DEF new
<1>3. RequestFits(r, new, status')
  BY <1>1, <1>2 DEF RequestFits
<1>4. spent' \in 0..MaxRare
  BY DEF Create, spendVars, Sound, TypeOK
<1> QED BY <1>1, <1>3, <1>4, SaveBatchStatus, StepNames, Goes DEF Create, spendVars, new

LEMMA DispatchStep ==
  ASSUME Sound, NEW r \in Requests, Dispatch(r)
  PROVE  \E new : Handles(r, new) /\ TurnStep(r, new)
<1>1. PICK i \in JobsOf[r], step \in {"dispatch", "answered"} : Send(i) /\ Go(r, step)
  BY DEF Dispatch
<1>2. RequestFits(r, request[r], status) /\ request[r].pc = "dispatch"
  BY Records DEF Dispatch
<1> DEFINE new == [request[r] EXCEPT !.pc = step]
<1>3. /\ new.pc = step /\ new.turn = request[r].turn /\ new.month = request[r].month
      /\ new.limit = request[r].limit
  BY Records DEF RequestRecords
<1> HIDE DEF new
<1>4. RequestFits(r, new, status')
  BY <1>1, <1>2, <1>3 DEF RequestFits
<1>5. spent' \in 0..MaxRare /\ step \in RequestSteps
  BY StepNames DEF Dispatch, spendVars, Sound, TypeOK
<1> QED BY <1>1, <1>4, <1>5, SendStatus, Goes DEF Dispatch, spendVars, new

LEMMA FailRequestStep ==
  ASSUME Sound, NEW r \in Requests, FailRequest(r)
  PROVE  \E new : Handles(r, new) /\ TurnStep(r, new)
<1>1. /\ RequestFits(r, request[r], status)
      /\ spent \in 0..MaxRare /\ MaxRare \in Nat
  BY Records, BudgetAssumption DEF Sound, TypeOK
<1>2. /\ StatusStep
      /\ \A j \in Jobs : j \notin JobsOf[r] \/ status[j] \in Sent => status'[j] = status[j]
  <2>1. CASE UNCHANGED status
    BY <2>1, SameStatus
  <2>2. CASE request[r].pc = "create" /\ SaveBatch(r)
    BY <2>2, SaveBatchStatus
  <2>3. CASE \E j \in JobsOf[r] : Send(j)
    <3>1. PICK i \in JobsOf[r] : Send(i)
      BY <2>3
    <3> QED BY <3>1, SendStatus
  <2> QED BY <2>1, <2>2, <2>3 DEF FailRequest
<1>3. spent' \in 0..MaxRare
  BY <1>1 DEF FailRequest
<1> DEFINE new == [request[r] EXCEPT !.pc = "error"]
<1>4. /\ new.pc = "error" /\ new.turn = request[r].turn /\ new.month = request[r].month
      /\ new.limit = request[r].limit
  BY Records DEF RequestRecords
<1> HIDE DEF new
<1>5. RequestFits(r, new, status')
  BY <1>1, <1>4 DEF RequestFits
<1> QED BY <1>2, <1>3, <1>5, StepNames, Goes DEF FailRequest, new

LEMMA RequestStep ==
  ASSUME Sound, NEW r \in Requests, HandleRequest(r)
  PROVE  \E new : Handles(r, new) /\ TurnStep(r, new)
BY ValidateStep, ReadBudgetStep, CheckSpendStep, CreateStep, DispatchStep, FailRequestStep
   DEF HandleRequest

------------------------------------------------------------------------
(* The steps of a run.                                                    *)

\* A settled job is reopened only by a run that read it before, and a run reads it
\* unsettled only while it is.
Reopening(d, new) ==
  /\ \A j \in Jobs : status[j] \in Terminal /\ status'[j] \notin Terminal =>
                      j = d[1] /\ Reopens(d)
  /\ new.pc \in {"submission", "start"} /\ new.seen # "processing" =>
       Reopens(d) \/ Unsettled(d)

\* The run has new variables; no request has done anything.
Works(d, new) ==
  /\ new \in RunRecords /\ RunFits(d, new, status')
  /\ run' = [run EXCEPT ![d] = new]
  /\ run[d].pc # "over" /\ (new.pc # "over" => Live(d))
  /\ run[d].pc \in Past => new.pc \in Past
  /\ StatusStep /\ \A j \in Jobs : status[j] = "absent" => status'[j] = "absent"
  /\ Reopening(d, new)
  /\ text' \subseteq Jobs /\ spent' \in 0..MaxRare
  /\ UNCHANGED <<month, budget, request>>

\* What becomes of the tokens: an attempt is flushed, or committed with the others, or
\* they are lost, or are those of a transcription, or none is paid.
Flushes(d, new) ==
  \E a \in Rows : /\ a.run = d /\ a \notin run[d].flushed
                  /\ new.flushed = run[d].flushed \cup {a}
                  /\ paid' = paid + a.tokens
                  /\ UNCHANGED <<rows, scans, lost>>
Commits(d, new) ==
  /\ rows' = rows \cup run[d].flushed /\ Live(d)
  /\ new.flushed = {} /\ new.pc \in Past /\ run[d].pc \notin Past
  /\ UNCHANGED <<paid, scans, lost>>
Wastes(d, new) ==
  \E n \in Nat : /\ new.flushed = {}
                 /\ paid' = paid + n /\ lost' = lost + n + Unrecorded(d)
                 /\ UNCHANGED <<rows, scans>>
Reads(d, new) ==
  \E n \in 0..MaxAnswers : /\ new.flushed = run[d].flushed
                           /\ paid' = paid + n /\ lost' = lost + scans[d[1]]
                           /\ scans' = [scans EXCEPT ![d[1]] = n]
                           /\ UNCHANGED rows
Costless(d, new) ==
  /\ new.flushed = run[d].flushed
  /\ UNCHANGED <<rows, scans, paid, lost>>
Books(d, new) ==
  Flushes(d, new) \/ Commits(d, new) \/ Wastes(d, new) \/ Reads(d, new) \/ Costless(d, new)

\* The types of what the steps of a run read.
LEMMA RunTypes ==
  ASSUME Sound, NEW d \in Runs
  PROVE  /\ run[d] \in RunRecords /\ RunFits(d, run[d], status)
         /\ run[d].flushed \subseteq Rows /\ run[d].number \in 1..MaxAttempts
         /\ d[1] \in Jobs /\ text \subseteq Jobs /\ month \in Nat
         /\ scans \in [Jobs -> 0..MaxAnswers] /\ spent \in 0..MaxRare /\ MaxRare \in Nat
         /\ run \in [Runs -> RunRecords]
         /\ status \in [Jobs -> Statuses]
         /\ AttemptsOf[d[1]] \in 1..MaxAttempts
BY Records, JobOfRun, BudgetAssumption DEF Sound, TypeOK, RunRecords

\* The record of a run that has flushed nothing.
LEMMA Emptied ==
  ASSUME NEW step \in RunSteps
  PROVE  /\ At(step) \in RunRecords /\ At(step).pc = step /\ At(step).flushed = {}
         /\ At(step).number = 1 /\ At(step).seen = "absent"
BY Bounds DEF RunRecords, At, Statuses

\* A run that has flushed nothing, pays nothing and loses nothing.
LEMMA Calm ==
  ASSUME Sound, NEW d \in Runs, run[d].flushed = {}, status[d[1]] \in Sent,
         run[d].pc # "over", NEW new \in RunRecords, run' = [run EXCEPT ![d] = new],
         new.flushed = {}, new.number <= AttemptsOf[d[1]], new.pc # "over" => Live(d),
         run[d].pc \in Past => new.pc \in Past,
         NEW st \in Sent, status' = [status EXCEPT ![d[1]] = st],
         status[d[1]] \in Terminal /\ st \notin Terminal => Reopens(d),
         new.pc \in {"submission", "start"} /\ new.seen # "processing" =>
           Reopens(d) \/ Unsettled(d),
         spent' \in 0..MaxRare,
         UNCHANGED <<text, scans, rows, paid, lost, month, budget, request>>
  PROVE  Works(d, new) /\ Books(d, new)
<1>1. StatusStep /\ \A j \in Jobs : status[j] = "absent" => status'[j] = "absent"
  BY RunTypes DEF StatusStep, Sent, Statuses, Terminal
<1>2. status'[d[1]] \in Sent
  BY RunTypes
<1>3. RunFits(d, new, status')
  BY <1>2 DEF RunFits
<1>4. Reopening(d, new)
  BY RunTypes DEF Reopening
<1>5. Works(d, new)
  BY <1>1, <1>3, <1>4, RunTypes DEF Works
<1> QED BY <1>5 DEF Books, Costless

LEMMA LoadJobStep ==
  ASSUME Sound, NEW d \in Runs, LoadJob(d)
  PROVE  \E new : Works(d, new) /\ Books(d, new)
<1>1. /\ run[d].flushed = {} /\ run[d].pc = "idle" /\ status[d[1]] \in Sent
      /\ status[d[1]] \in Statuses /\ spent \in 0..MaxRare
      /\ UNCHANGED <<text, scans, rows, paid, lost, spent, month, budget, request>>
      /\ 1 <= AttemptsOf[d[1]]
  BY RunTypes DEF LoadJob, Delivered, Elsewhere, Sent, Statuses, RunFits
<1>2. status' = [status EXCEPT ![d[1]] = status[d[1]]]
  BY RunTypes DEF LoadJob
<1>3. CASE Unsettled(d)
  <2> DEFINE new == [At("submission") EXCEPT !.seen = status[d[1]]]
  <2>1. /\ new \in RunRecords /\ new.pc = "submission" /\ new.flushed = {}
        /\ new.number = 1
    BY <1>1, Emptied, StepNames DEF RunRecords
  <2>2. run' = [run EXCEPT ![d] = new] /\ Live(d)
    BY <1>1, <1>3 DEF LoadJob, Live
  <2> HIDE DEF new
  <2> QED BY <1>1, <1>2, <1>3, <2>1, <2>2, Calm DEF Past, Unsettled
<1>4. CASE ~Unsettled(d)
  <2> DEFINE new == At("over")
  <2>1. /\ new \in RunRecords /\ new.pc = "over" /\ new.flushed = {} /\ new.number = 1
    BY Emptied, StepNames
  <2>2. run' = [run EXCEPT ![d] = new]
    BY <1>4 DEF LoadJob
  <2> HIDE DEF new
  <2> QED BY <1>1, <1>2, <2>1, <2>2, Calm DEF Past, Unsettled
<1> QED BY <1>3, <1>4

LEMMA LoadSubmissionStep ==
  ASSUME Sound, NEW d \in Runs, LoadSubmission(d)
  PROVE  \E new : Works(d, new) /\ Books(d, new)
<1>1. /\ run[d].flushed = {} /\ run[d].pc = "submission" /\ status[d[1]] \in Sent
      /\ run[d] \in RunRecords /\ spent \in 0..MaxRare
      /\ UNCHANGED <<text, scans, rows, paid, lost, spent, month, budget, request>>
      /\ run[d].number <= AttemptsOf[d[1]]
  BY RunTypes DEF LoadSubmission, Elsewhere, RunFits
<1>2. status' = [status EXCEPT ![d[1]] = status[d[1]]]
  BY RunTypes DEF LoadSubmission
<1> DEFINE new == [run[d] EXCEPT !.pc = "start", !.blank = d[1] \notin text]
<1>3. /\ new \in RunRecords /\ new.pc = "start" /\ new.flushed = {}
      /\ new.number = run[d].number /\ new.seen = run[d].seen
  BY <1>1, StepNames DEF RunRecords
<1>4. run' = [run EXCEPT ![d] = new] /\ Live(d)
  BY <1>1, RunTypes DEF LoadSubmission, Live
<1> HIDE DEF new
<1>5. new.pc \in {"submission", "start"} /\ new.seen # "processing" => Reopens(d)
  BY <1>1, <1>3 DEF Reopens
<1> QED BY <1>1, <1>2, <1>3, <1>4, <1>5, Calm DEF Past

\* What a start writes: it reopens only what the run read otherwise.
LEMMA SaveProcessingStep ==
  ASSUME Sound, NEW d \in Runs, run[d].pc = "start", SaveProcessing(d)
  PROVE  \E st \in Sent : /\ status' = [status EXCEPT ![d[1]] = st]
                          /\ status[d[1]] \in Terminal /\ st \notin Terminal => Reopens(d)
<1>1. status[d[1]] \in Sent
  BY RunTypes DEF RunFits
<1>2. CASE run[d].seen = "processing"
  BY <1>1, <1>2 DEF SaveProcessing
<1>3. CASE run[d].seen # "processing"
  BY <1>3 DEF SaveProcessing, Sent, Reopens
<1> QED BY <1>2, <1>3

LEMMA MarkProcessingStep ==
  ASSUME Sound, NEW d \in Runs, MarkProcessing(d)
  PROVE  \E new : Works(d, new) /\ Books(d, new)
<1>1. /\ run[d].flushed = {} /\ run[d].pc = "start" /\ status[d[1]] \in Sent
      /\ spent \in 0..MaxRare
      /\ UNCHANGED <<text, scans, rows, paid, lost, spent, month, budget, request>>
      /\ 1 <= AttemptsOf[d[1]] /\ Live(d)
  BY RunTypes DEF MarkProcessing, Elsewhere, RunFits, Live
<1>2. PICK step \in {"transcribe", "correct"} : run' = [run EXCEPT ![d] = At(step)]
  BY DEF MarkProcessing
<1>3. PICK st \in Sent : /\ status' = [status EXCEPT ![d[1]] = st]
                         /\ status[d[1]] \in Terminal /\ st \notin Terminal => Reopens(d)
  BY <1>1, SaveProcessingStep DEF MarkProcessing
<1> DEFINE new == At(step)
<1>4. /\ new \in RunRecords /\ new.pc = step /\ new.flushed = {} /\ new.number = 1
  BY Emptied, StepNames
<1>5. run' = [run EXCEPT ![d] = new]
  BY <1>2
<1> HIDE DEF new
<1> QED BY <1>1, <1>3, <1>4, <1>5, Calm DEF Past

LEMMA StartFailsStep ==
  ASSUME Sound, NEW d \in Runs, StartFails(d)
  PROVE  \E new : Works(d, new) /\ Books(d, new)
<1>1. /\ run[d].flushed = {} /\ run[d].pc \in {"idle", "submission", "start"}
      /\ status[d[1]] \in Sent /\ 1 <= AttemptsOf[d[1]]
      /\ UNCHANGED <<text, scans, rows, paid, lost, month, budget, request>>
  BY RunTypes DEF StartFails, Delivered, Elsewhere, RunFits, Sent, Statuses
<1>2. spent' \in 0..MaxRare
  BY RunTypes DEF StartFails
<1>3. PICK st \in Sent : /\ status' = [status EXCEPT ![d[1]] = st]
                         /\ status[d[1]] \in Terminal /\ st \notin Terminal => Reopens(d)
  <2>1. CASE run[d].pc = "start" /\ SaveProcessing(d)
    BY <2>1, SaveProcessingStep
  <2>2. CASE UNCHANGED status
    BY <1>1, <2>2, RunTypes
  <2> QED BY <2>1, <2>2 DEF StartFails
<1> DEFINE new == At("over")
<1>4. /\ new \in RunRecords /\ new.pc = "over" /\ new.flushed = {} /\ new.number = 1
  BY Emptied, StepNames
<1>5. run' = [run EXCEPT ![d] = new]
  BY DEF StartFails
<1> HIDE DEF new
<1> QED BY <1>1, <1>2, <1>3, <1>4, <1>5, Calm DEF Past

\* A run at work that goes on: the statuses are as before.
LEMMA Carries ==
  ASSUME Sound, NEW d \in Runs, run[d].pc \notin {"idle", "over"}, UNCHANGED status,
         NEW new \in RunRecords, run' = [run EXCEPT ![d] = new],
         run[d].pc \in Past => new.pc \in Past,
         new.pc \notin {"submission", "start"}, new.number <= AttemptsOf[d[1]],
         new.pc \notin {"correct", "finish", "exhausted"} => new.flushed = {},
         \A a \in new.flushed : /\ a.run = d /\ a.number <= AttemptsOf[d[1]]
                                /\ new.pc = "correct" => a.number < new.number,
         \A a, b \in new.flushed : a.number = b.number => a = b,
         text' \subseteq Jobs, spent' \in 0..MaxRare,
         UNCHANGED <<month, budget, request>>
  PROVE  Works(d, new)
<1>1. RunFits(d, new, status')
  BY RunTypes DEF RunFits
<1>2. Reopening(d, new)
  BY DEF Reopening
<1> QED BY <1>1, <1>2, SameStatus DEF Works, Live

LEMMA TranscribeSteps ==
  ASSUME Sound, NEW d \in Runs,
         Transcribe(d) \/ TranscriptionUnconfirmed(d) \/ TranscriptionBreaks(d)
  PROVE  \E new : Works(d, new) /\ Books(d, new)
<1>1. /\ run[d].pc = "transcribe" /\ run[d].flushed = {} /\ UNCHANGED <<status, rows>>
      /\ UNCHANGED <<month, budget, request>> /\ run[d].number <= AttemptsOf[d[1]]
  BY RunTypes DEF Transcribe, TranscriptionUnconfirmed, TranscriptionBreaks, Elsewhere, RunFits
<1>2. PICK n \in 0..MaxAnswers, step \in {"correct", "rescue"} :
        paid' = paid + n /\ Trace(d, n) /\ run' = [run EXCEPT ![d].pc = step]
  <2>1. CASE Transcribe(d)
    BY <2>1, Bounds DEF Transcribe, Transcribed, Endings
  <2>2. CASE TranscriptionBreaks(d)
    <3>1. 0..MaxRetries \subseteq 0..MaxAnswers
      BY BudgetAssumption DEF MaxAnswers
    <3> QED BY <2>2, <3>1 DEF TranscriptionBreaks
  <2>3. CASE TranscriptionUnconfirmed(d)
    BY <2>3, Bounds DEF TranscriptionUnconfirmed, Transcribed, Endings
  <2> QED BY <2>1, <2>2, <2>3
<1>3. text' \subseteq Jobs /\ spent' \in 0..MaxRare
  BY RunTypes DEF Transcribe, TranscriptionUnconfirmed, TranscriptionBreaks
<1> DEFINE new == [run[d] EXCEPT !.pc = step]
<1>4. /\ new \in RunRecords /\ new.pc = step /\ new.flushed = {}
      /\ new.number = run[d].number
  BY <1>1, RunTypes, StepNames DEF RunRecords
<1>5. run' = [run EXCEPT ![d] = new]
  BY <1>2, RunTypes
<1> HIDE DEF new
<1>6. Works(d, new)
  BY <1>1, <1>3, <1>4, <1>5, Carries DEF Past
<1> QED BY <1>1, <1>2, <1>4, <1>6 DEF Books, Reads, Trace

\* An attempt of so many answers.
LEMMA RecordStep ==
  ASSUME Sound, NEW d \in Runs, run[d].pc = "correct", NEW n \in 0..MaxAnswers,
         NEW accepted, Record(d, n, accepted), paid' = paid + n,
         UNCHANGED <<status, text, scans, rows, lost, month, budget, request>>,
         spent' \in 0..MaxRare
  PROVE  \E new : Works(d, new) /\ Books(d, new)
<1> DEFINE a == [run |-> d, number |-> run[d].number, tokens |-> Used(n), month |-> month]
           kept == [run[d] EXCEPT !.flushed = @ \cup {a}]
<1>1. /\ a \in Rows /\ a.run = d /\ a.number = run[d].number /\ a.tokens = n
  BY RunTypes DEF Rows, Used
<1>2. a \notin run[d].flushed
  BY <1>1, RunTypes, Bounds DEF RunFits, Rows
<1>3. /\ kept \in RunRecords /\ kept.flushed = run[d].flushed \cup {a}
      /\ kept.number = run[d].number /\ kept.pc = "correct"
  BY <1>1, RunTypes DEF RunRecords
<1>4. PICK step \in {"correct", "finish", "exhausted"}, number \in 1..AttemptsOf[d[1]] :
        /\ run' = [run EXCEPT ![d] = [kept EXCEPT !.pc = step, !.number = number]]
        /\ step = "correct" => number = run[d].number + 1
  <2> HIDE DEF a
  <2>0. /\ run[d].number \in 1..AttemptsOf[d[1]] /\ AttemptsOf[d[1]] \in Nat
        /\ run[d].number \in Nat
    BY RunTypes, Bounds DEF RunFits
  <2>1. CASE accepted
    <3>1. run' = [run EXCEPT ![d] = [kept EXCEPT !.pc = "finish", !.number = run[d].number]]
      BY <1>3, <2>1, RunTypes DEF Record, a, RunRecords
    <3> QED BY <2>0, <3>1
  <2>2. CASE ~accepted /\ run[d].number < AttemptsOf[d[1]]
    <3>1. run[d].number + 1 \in 1..AttemptsOf[d[1]]
      BY <2>0, <2>2, Bounds
    <3>2. run' = [run EXCEPT ![d] = [kept EXCEPT !.number = @ + 1]]
      BY <2>0, <2>2 DEF Record, a
    <3>3. [kept EXCEPT !.number = @ + 1] =
            [kept EXCEPT !.pc = "correct", !.number = run[d].number + 1]
      <4> HIDE DEF kept
      <4> QED BY <1>3 DEF RunRecords
    <3>4. run' = [run EXCEPT ![d] = [kept EXCEPT !.pc = "correct", !.number = run[d].number + 1]]
      BY <3>2, <3>3
    <3> QED BY <3>1, <3>4
  <2>3. CASE ~accepted /\ run[d].number = AttemptsOf[d[1]]
    <3>1. run' = [run EXCEPT ![d] = [kept EXCEPT !.pc = "exhausted"]]
      BY <2>0, <2>3 DEF Record, a
    <3>2. [kept EXCEPT !.pc = "exhausted"] =
            [kept EXCEPT !.pc = "exhausted", !.number = run[d].number]
      <4> HIDE DEF kept
      <4> QED BY <1>3 DEF RunRecords
    <3>3. run' = [run EXCEPT ![d] = [kept EXCEPT !.pc = "exhausted", !.number = run[d].number]]
      BY <3>1, <3>2
    <3> QED BY <2>0, <3>3
  <2> QED BY <2>1, <2>2, <2>3 DEF Record
<1> DEFINE new == [kept EXCEPT !.pc = step, !.number = number]
<1>5. /\ new \in RunRecords /\ new.pc = step /\ new.number = number
      /\ new.flushed = run[d].flushed \cup {a}
  <2> HIDE DEF kept
  <2>1. number \in 1..MaxAttempts
    BY RunTypes, Bounds
  <2> QED BY <1>3, <2>1, StepNames DEF RunRecords
<1>6. run' = [run EXCEPT ![d] = new]
  BY <1>4
<1> HIDE DEF new, kept, a
<1>7. \A b \in new.flushed : /\ b.run = d /\ b.number <= AttemptsOf[d[1]]
                             /\ new.pc = "correct" => b.number < new.number
  <2> SUFFICES ASSUME NEW b \in new.flushed
               PROVE  /\ b.run = d /\ b.number <= AttemptsOf[d[1]]
                      /\ new.pc = "correct" => b.number < new.number
    OBVIOUS
  <2>1. /\ b.run = d /\ b.number \in Nat /\ run[d].number \in Nat
        /\ b.number <= run[d].number /\ b.number <= AttemptsOf[d[1]]
    BY <1>1, <1>5, RunTypes, Bounds DEF RunFits, Rows
  <2> QED BY <1>4, <1>5, <2>1
<1>8. \A b, c \in new.flushed : b.number = c.number => b = c
  <2>1. \A b \in run[d].flushed : b.number # a.number
    BY <1>1, RunTypes, Bounds DEF RunFits, Rows
  <2> QED BY <1>5, <2>1, RunTypes DEF RunFits
<1>9. Works(d, new)
  <2>1. number <= AttemptsOf[d[1]] /\ run[d].pc \notin Past
    BY RunTypes, Bounds DEF Past
  <2> QED BY <1>4, <1>5, <1>6, <1>7, <1>8, <2>1, RunTypes, Carries
<1> QED BY <1>1, <1>2, <1>5, <1>9 DEF Books, Flushes

LEMMA CorrectSteps ==
  ASSUME Sound, NEW d \in Runs, Correct(d) \/ CorrectionBreaks(d)
  PROVE  \E new : Works(d, new) /\ Books(d, new)
<1>1. spent' \in 0..MaxRare
  <2>1. Correct(d) => UNCHANGED spent
    BY DEF Correct
  <2>2. CorrectionBreaks(d) => spent < MaxRare /\ spent' = spent + 1
    BY DEF CorrectionBreaks
  <2> QED BY <2>1, <2>2, RunTypes
<1>2. CASE Correct(d)
  <2>1. PICK e \in Corrected : paid' = paid + e.answers /\ Record(d, e.answers, e.accepted)
    BY <1>2 DEF Correct
  <2>2. e.answers \in 0..MaxAnswers
    BY Bounds DEF Corrected, Endings
  <2> QED BY <1>1, <1>2, <2>1, <2>2, RecordStep DEF Correct, Elsewhere
<1>3. CASE CorrectionBreaks(d)
  <2>1. PICK n \in 0..MaxRetries : paid' = paid + n /\ Record(d, n, FALSE)
    BY <1>3 DEF CorrectionBreaks
  <2>2. n \in 0..MaxAnswers
    BY BudgetAssumption DEF MaxAnswers
  <2> QED BY <1>1, <1>3, <2>1, <2>2, RecordStep DEF CorrectionBreaks, Elsewhere
<1> QED BY <1>2, <1>3

\* The commit of the attempts; its answer may be lost.
LEMMA SaveStep ==
  ASSUME Sound, NEW d \in Runs, Save(d), NEW step \in {"over", "rescue"},
         run' = [run EXCEPT ![d] = At(step)], spent' \in 0..MaxRare
  PROVE  \E new : Works(d, new) /\ Books(d, new)
<1> DEFINE new == At(step)
           st == IF run[d].pc = "finish" THEN "done" ELSE "failed"
<1>1. /\ new \in RunRecords /\ new.pc = step /\ new.flushed = {} /\ new.number = 1
  BY Emptied, StepNames
<1>2. /\ run' = [run EXCEPT ![d] = new] /\ status' = [status EXCEPT ![d[1]] = st]
      /\ st \in Terminal
  BY DEF Save, Terminal
<1>3. status[d[1]] \in Sent /\ run[d].pc \in {"finish", "exhausted"} /\ 1 <= AttemptsOf[d[1]]
  BY RunTypes DEF Save, RunFits
<1> HIDE DEF new, st
<1>4. StatusStep /\ \A j \in Jobs : status[j] = "absent" => status'[j] = "absent"
  BY <1>2, <1>3, RunTypes DEF StatusStep, Sent, Statuses, Terminal
<1>5. status'[d[1]] \in Sent
  BY <1>3, <1>4, SentStays, RunTypes
<1>6. RunFits(d, new, status')
  BY <1>1, <1>3, <1>5 DEF RunFits
<1>7. Reopening(d, new)
  BY <1>1, <1>2, RunTypes DEF Reopening
<1>8. Live(d) /\ run[d].pc \notin Past /\ new.pc \in Past
  BY <1>1, <1>3 DEF Live, Past
<1>9. Works(d, new)
  BY <1>1, <1>2, <1>3, <1>4, <1>6, <1>7, <1>8, RunTypes DEF Works, Save, Elsewhere
<1> QED BY <1>1, <1>8, <1>9 DEF Books, Commits, Save

LEMMA SettleSteps ==
  ASSUME Sound, NEW d \in Runs, Settle(d) \/ SettleUnconfirmed(d)
  PROVE  \E new : Works(d, new) /\ Books(d, new)
<1>1. CASE Settle(d)
  BY <1>1, RunTypes, SaveStep DEF Settle
<1>2. CASE SettleUnconfirmed(d)
  <2>1. spent' \in 0..MaxRare
    BY <1>2, RunTypes DEF SettleUnconfirmed
  <2> QED BY <1>2, <2>1, SaveStep DEF SettleUnconfirmed
<1> QED BY <1>1, <1>2

LEMMA LoseStep ==
  ASSUME Sound, NEW d \in Runs, NEW step \in {"rescue", "over"}, Lose(d, step),
         run[d].pc \notin {"idle", "over"}
  PROVE  \E new : Works(d, new) /\ Books(d, new)
<1> DEFINE new == At(step)
<1>1. /\ new \in RunRecords /\ new.flushed = {} /\ new.pc = step /\ new.number = 1
  BY Emptied, StepNames
<1>2. run' = [run EXCEPT ![d] = new]
  BY DEF Lose
<1> HIDE DEF new
<1>3. spent' \in 0..MaxRare /\ text' \subseteq Jobs /\ 1 <= AttemptsOf[d[1]]
  BY RunTypes DEF Lose
<1>4. Works(d, new)
  <2>1. UNCHANGED <<status, month, budget, request>> /\ (run[d].pc \in Past => new.pc \in Past)
    BY <1>1 DEF Lose, Elsewhere, Past
  <2> QED BY <1>1, <1>2, <1>3, <2>1, Carries
<1>5. PICK n \in Wasted(d) : paid' = paid + n /\ lost' = lost + n + Unrecorded(d)
  BY DEF Lose
<1>6. n \in Nat
  BY Bounds DEF Wasted
<1> QED BY <1>1, <1>4, <1>5, <1>6 DEF Books, Wastes, Lose

LEMMA RescueStep ==
  ASSUME Sound, NEW d \in Runs, Rescue(d)
  PROVE  \E new : Works(d, new) /\ Books(d, new)
<1>1. /\ run[d].flushed = {} /\ run[d].pc = "rescue" /\ status[d[1]] \in Sent
      /\ status[d[1]] \in Statuses /\ spent \in 0..MaxRare
      /\ UNCHANGED <<text, scans, rows, paid, lost, spent, month, budget, request>>
      /\ 1 <= AttemptsOf[d[1]] /\ Live(d)
  BY RunTypes DEF Rescue, Elsewhere, RunFits, Live
<1>2. status' = [status EXCEPT ![d[1]] = status[d[1]]]
  BY RunTypes DEF Rescue
<1> DEFINE new == [At("mark_failed") EXCEPT !.seen = status[d[1]]]
<1>3. /\ new \in RunRecords /\ new.pc = "mark_failed" /\ new.flushed = {}
      /\ new.number = 1
  BY <1>1, Emptied, StepNames DEF RunRecords
<1>4. run' = [run EXCEPT ![d] = new]
  BY DEF Rescue
<1> HIDE DEF new
<1> QED BY <1>1, <1>2, <1>3, <1>4, Calm DEF Past

LEMMA MarkFailedStep ==
  ASSUME Sound, NEW d \in Runs, MarkFailed(d)
  PROVE  \E new : Works(d, new) /\ Books(d, new)
<1>1. /\ run[d].flushed = {} /\ run[d].pc = "mark_failed" /\ status[d[1]] \in Sent
      /\ spent \in 0..MaxRare /\ 1 <= AttemptsOf[d[1]]
      /\ UNCHANGED <<text, scans, rows, paid, lost, spent, month, budget, request>>
  BY RunTypes DEF MarkFailed, Elsewhere, RunFits
<1>2. PICK st \in {status[d[1]], "failed"} : status' = [status EXCEPT ![d[1]] = st]
  BY DEF MarkFailed
<1>3. st \in Sent /\ (status[d[1]] \in Terminal => st \in Terminal)
  BY <1>1, <1>2 DEF Sent, Terminal
<1> DEFINE new == At("over")
<1>4. /\ new \in RunRecords /\ new.pc = "over" /\ new.flushed = {} /\ new.number = 1
  BY Emptied, StepNames
<1>5. run' = [run EXCEPT ![d] = new]
  BY DEF MarkFailed
<1> HIDE DEF new
<1> QED BY <1>1, <1>2, <1>3, <1>4, <1>5, Calm DEF Past

LEMMA WorkStep ==
  ASSUME Sound, NEW d \in Runs, Work(d)
  PROVE  \E new : Works(d, new) /\ Books(d, new)
<1>1. Raise(d) => \E new : Works(d, new) /\ Books(d, new)
  BY LoseStep DEF Raise
<1>2. Crash(d) => \E new : Works(d, new) /\ Books(d, new)
  BY LoseStep DEF Crash
<1> QED BY <1>1, <1>2, LoadJobStep, LoadSubmissionStep, MarkProcessingStep, StartFailsStep,
           TranscribeSteps, CorrectSteps, SettleSteps, RescueStep, MarkFailedStep DEF Work

------------------------------------------------------------------------
(* Every step keeps the types, and what requests and runs have.           *)

\* The attempts that are not committed: those of a run are its own.
LEMMA FlushedOf ==
  ASSUME Sound
  PROVE  /\ Flushed \subseteq Rows /\ rows \subseteq Rows /\ rows \cap Flushed = {}
         /\ \A d \in Runs : run[d].flushed = {a \in Flushed : a.run = d}
<1>1. \A d \in Runs : run[d].flushed \subseteq Rows /\ \A a \in run[d].flushed : a.run = d
  BY RunTypes DEF RunFits
<1>2. \A a \in rows : run[a.run].pc \in Past /\ a.run \in Runs
  BY DEF Sound, TypeOK, RowsFit, Rows
<1>3. \A d \in Runs : run[d].pc \in Past => run[d].flushed = {}
  BY RunTypes DEF RunFits, Past
<1>4. \A d \in Runs : run[d].flushed = {a \in Flushed : a.run = d}
  BY <1>1 DEF Flushed
<1>5. Flushed \subseteq Rows /\ rows \subseteq Rows
  BY <1>1 DEF Flushed, Sound, TypeOK
<1>6. \A a \in Flushed : a \in run[a.run].flushed /\ a.run \in Runs
  BY <1>1 DEF Flushed
<1> QED BY <1>2, <1>3, <1>4, <1>5, <1>6

\* A step of a run changes only these.
LEMMA FlushedStep ==
  ASSUME Sound, NEW d \in Runs, NEW new, Works(d, new)
  PROVE  Flushed' = (Flushed \ run[d].flushed) \cup new.flushed
<1>1. /\ run'[d] = new /\ \A e \in Runs \ {d} : run'[e] = run[e]
  BY RunTypes DEF Works
<1>2. \A e \in Runs \ {d} : run[e].flushed \cap run[d].flushed = {}
  BY FlushedOf
<1> QED BY <1>1, <1>2 DEF Flushed

\* What the books make of the sets.
LEMMA BooksTyped ==
  ASSUME Sound, NEW d \in Runs, NEW new, Works(d, new), Books(d, new)
  PROVE  /\ scans' \in [Jobs -> 0..MaxAnswers] /\ paid' \in Nat /\ lost' \in Nat
         /\ rows' \subseteq rows \cup run[d].flushed
         /\ rows' # rows => new.pc \in Past /\ run[d].pc \notin Past
         /\ IsFiniteSet(Flushed')
<1>1. /\ scans \in [Jobs -> 0..MaxAnswers] /\ paid \in Nat /\ lost \in Nat
      /\ d[1] \in Jobs /\ scans[d[1]] \in Nat
  BY RunTypes, Bounds DEF Sound, TypeOK
<1>2. Unrecorded(d) \in Nat
  <2>1. IsFiniteSet(run[d].flushed)
    BY FlushedOf, FS_Subset DEF Sound, RowsFit
  <2> QED BY <2>1, RunTypes, AnswersFinite DEF Unrecorded
<1>3. IsFiniteSet(Flushed \ run[d].flushed)
  BY FS_Subset DEF Sound, RowsFit
<1>4. ASSUME NEW a, new.flushed = run[d].flushed \cup {a} PROVE IsFiniteSet(Flushed')
  <2>1. Flushed' = Flushed \cup {a}
    BY <1>4, FlushedStep, FlushedOf
  <2> QED BY <2>1, FS_AddElement DEF Sound, RowsFit
<1>5. CASE Flushes(d, new)
  <2>1. PICK a \in Rows : /\ new.flushed = run[d].flushed \cup {a} /\ paid' = paid + a.tokens
                          /\ UNCHANGED <<rows, scans, lost>>
    BY <1>5 DEF Flushes
  <2>2. a.tokens \in Nat
    BY Bounds DEF Rows
  <2> QED BY <1>1, <1>4, <2>1, <2>2
<1>6. ASSUME new.flushed = {} PROVE IsFiniteSet(Flushed')
  BY <1>3, <1>6, FlushedStep
<1>7. ASSUME new.flushed = run[d].flushed PROVE IsFiniteSet(Flushed')
  <2>1. run[d].flushed \subseteq Flushed
    BY FlushedOf
  <2>2. Flushed' = (Flushed \ run[d].flushed) \cup run[d].flushed
    BY <1>7, FlushedStep
  <2>3. Flushed' = Flushed
    BY <2>1, <2>2
  <2> QED BY <2>3 DEF Sound, RowsFit
<1>8. CASE Commits(d, new)
  BY <1>1, <1>6, <1>8 DEF Commits
<1>9. CASE Wastes(d, new)
  BY <1>1, <1>2, <1>6, <1>9 DEF Wastes
<1>10. CASE Reads(d, new)
  <2>1. PICK n \in 0..MaxAnswers : /\ new.flushed = run[d].flushed
                                   /\ paid' = paid + n /\ lost' = lost + scans[d[1]]
                                   /\ scans' = [scans EXCEPT ![d[1]] = n] /\ UNCHANGED rows
    BY <1>10 DEF Reads
  <2>2. n \in Nat
    BY Bounds
  <2>3. paid' \in Nat /\ lost' \in Nat /\ scans' \in [Jobs -> 0..MaxAnswers]
    BY <1>1, <2>1, <2>2
  <2> QED BY <1>7, <2>1, <2>3
<1>11. CASE Costless(d, new)
  BY <1>1, <1>7, <1>11 DEF Costless
<1> QED BY <1>5, <1>8, <1>9, <1>10, <1>11 DEF Books

\* The step of a run keeps the committed attempts apart.
LEMMA RowsStayFit ==
  ASSUME Sound, NEW d \in Runs, NEW new, Works(d, new), Books(d, new)
  PROVE  RowsFit' /\ rows' \subseteq Rows
<1>1. /\ run'[d] = new /\ \A e \in Runs \ {d} : run'[e] = run[e]
      /\ run[d].pc \in Past => new.pc \in Past
  BY RunTypes DEF Works
<1>2. /\ IsFiniteSet(rows) /\ IsFiniteSet(Flushed)
      /\ \A a \in rows : /\ run[a.run].pc \in Past /\ a.run \in Runs
                         /\ a.number <= AttemptsOf[a.run[1]]
      /\ \A a, b \in rows : a.run = b.run /\ a.number = b.number => a = b
  BY DEF Sound, TypeOK, RowsFit, Rows
<1>3. /\ run[d].flushed \subseteq Rows
      /\ \A a \in run[d].flushed : a.run = d /\ a.number <= AttemptsOf[a.run[1]]
      /\ \A a, b \in run[d].flushed : a.number = b.number => a = b
  BY RunTypes DEF RunFits
<1>4. /\ rows' \subseteq rows \cup run[d].flushed /\ IsFiniteSet(Flushed')
      /\ rows' # rows => new.pc \in Past /\ run[d].pc \notin Past
  BY BooksTyped
<1>5. rows' # rows => \A a \in rows : a.run # d
  BY <1>2, <1>4
<1>6. IsFiniteSet(rows')
  <2>1. run[d].flushed \subseteq Flushed
    BY FlushedOf
  <2>2. IsFiniteSet(rows \cup run[d].flushed)
    BY <1>2, <2>1, FS_Subset, FS_Union
  <2> QED BY <1>4, <2>2, FS_Subset
<1>7. \A a \in rows' : run'[a.run].pc \in Past /\ a.number <= AttemptsOf[a.run[1]]
  <2> SUFFICES ASSUME NEW a \in rows'
               PROVE  run'[a.run].pc \in Past /\ a.number <= AttemptsOf[a.run[1]]
    OBVIOUS
  <2>1. CASE a \in rows
    BY <1>1, <1>2, <2>1
  <2>2. CASE a \notin rows
    BY <1>1, <1>3, <1>4, <2>2
  <2> QED BY <2>1, <2>2
<1>8. \A a, b \in rows' : a.run = b.run /\ a.number = b.number => a = b
  <2>1. CASE rows' = rows
    BY <1>2, <2>1
  <2>2. CASE rows' # rows
    BY <1>2, <1>3, <1>4, <1>5, <2>2
  <2> QED BY <2>1, <2>2
<1>9. rows' \subseteq Rows
  BY <1>3, <1>4 DEF Sound, TypeOK
<1> QED BY <1>4, <1>6, <1>7, <1>8, <1>9 DEF RowsFit

LEMMA WorkKeepsSound ==
  ASSUME Sound, NEW d \in Runs, NEW new, Works(d, new), Books(d, new)
  PROVE  Sound'
<1>1. /\ run' \in [Runs -> RunRecords]
      /\ run'[d] = new /\ \A e \in Runs \ {d} : run'[e] = run[e]
  BY RunTypes DEF Works
<1>2. TypeOK'
  <2>1. status' \in [Jobs -> Statuses]
    BY DEF Works, StatusStep
  <2>2. text' \subseteq Jobs /\ spent' \in 0..MaxRare /\ UNCHANGED <<month, budget, request>>
    BY DEF Works
  <2> QED BY <1>1, <2>1, <2>2, BooksTyped, RowsStayFit DEF Sound, TypeOK, RunRecords
<1>3. \A r \in Requests : RequestFits(r, request'[r], status')
  <2> SUFFICES ASSUME NEW r \in Requests PROVE RequestFits(r, request'[r], status')
    OBVIOUS
  <2>1. \A j \in JobsOf[r] : status[j] = "absent" => status'[j] = "absent"
    BY BudgetAssumption DEF Works
  <2>2. RequestFits(r, request[r], status) /\ UNCHANGED request
    BY Records DEF Works
  <2> QED BY <2>1, <2>2 DEF RequestFits
<1>4. \A r \in Requests : request'[r].turn <= Cardinality(Admitted')
  BY DEF Works, Sound, Admitted
<1>5. \A e \in Runs : RunFits(e, run'[e], status')
  <2> SUFFICES ASSUME NEW e \in Runs \ {d} PROVE RunFits(e, run[e], status')
    BY <1>1 DEF Works
  <2>1. status[e[1]] \in Sent => status'[e[1]] \in Sent
    BY RunTypes, SentStays DEF Works
  <2> QED BY <2>1, RunTypes DEF RunFits
<1> QED BY <1>2, <1>3, <1>4, <1>5, RowsStayFit DEF Sound

\* A request that is let through is added to those that were.
LEMMA AdmittedStep ==
  ASSUME Sound, NEW r \in Requests, NEW new, Handles(r, new), TurnStep(r, new)
  PROVE  /\ request'[r] = new /\ \A q \in Requests \ {r} : request'[q] = request[q]
         /\ IF new.turn = 0 THEN Admitted' = Admitted ELSE Admitted' = Admitted \cup {r}
         /\ new.turn # request[r].turn => r \notin Admitted /\ new.turn = NextTurn
         /\ \A q \in Requests : request'[q].turn <= Cardinality(Admitted')
<1>1. request'[r] = new /\ \A q \in Requests \ {r} : request'[q] = request[q]
  BY Records DEF Handles
<1>2. /\ new.turn \in Nat /\ NextTurn \in Nat
      /\ \A q \in Requests : request[q].turn \in Nat
  BY Turns DEF Handles, RequestRecords, NextTurn
<1>3. /\ new.turn = request[r].turn \/ (request[r].turn = 0 /\ new.turn \in {0, NextTurn})
  BY DEF TurnStep
<1>4. IF new.turn = 0 THEN Admitted' = Admitted ELSE Admitted' = Admitted \cup {r}
  BY <1>1, <1>2, <1>3 DEF Admitted
<1>5. new.turn # request[r].turn => r \notin Admitted /\ new.turn = NextTurn
  BY <1>3 DEF Admitted
<1>6. /\ IsFiniteSet(Admitted) /\ Cardinality(Admitted) \in Nat
      /\ \A q \in Requests : request[q].turn <= Cardinality(Admitted)
  BY Turns DEF Sound
<1>7. CASE new.turn = request[r].turn
  <2>1. Admitted' = Admitted
    BY <1>2, <1>4, <1>7 DEF Admitted
  <2> QED BY <1>1, <1>4, <1>5, <1>6, <1>7, <2>1
<1>8. CASE new.turn # request[r].turn
  <2>1. Admitted' = Admitted \cup {r} /\ r \notin Admitted /\ new.turn = Cardinality(Admitted) + 1
    BY <1>4, <1>5, <1>6, <1>8 DEF NextTurn
  <2>2. Cardinality(Admitted') = Cardinality(Admitted) + 1
    BY <1>6, <2>1, FS_AddElement
  <2>3. \A q \in Requests : request'[q].turn <= Cardinality(Admitted')
    BY <1>1, <1>2, <1>6, <2>1, <2>2
  <2> QED BY <1>1, <1>4, <1>5, <2>3
<1> QED BY <1>7, <1>8

LEMMA RequestKeepsSound ==
  ASSUME Sound, NEW r \in Requests, NEW new, Handles(r, new), TurnStep(r, new)
  PROVE  Sound'
<1>1. request' \in [Requests -> RequestRecords]
  BY Records DEF Handles
<1>2. TypeOK'
  BY <1>1 DEF Sound, TypeOK, Handles, StatusStep, RequestRecords
<1>3. \A q \in Requests : RequestFits(q, request'[q], status')
  <2>0. RequestFits(r, request'[r], status')
    BY AdmittedStep DEF Handles
  <2> SUFFICES ASSUME NEW q \in Requests \ {r} PROVE RequestFits(q, request[q], status')
    BY <2>0, AdmittedStep
  <2>1. \A j \in JobsOf[q] : status'[j] = status[j]
    BY BudgetAssumption DEF Handles
  <2> QED BY <2>1, Records DEF RequestFits
<1>4. \A d \in Runs : RunFits(d, run'[d], status')
  <2> SUFFICES ASSUME NEW d \in Runs PROVE RunFits(d, run[d], status')
    BY DEF Handles
  <2>1. status[d[1]] \in Sent => status'[d[1]] \in Sent
    BY RunTypes, SentStays DEF Handles
  <2> QED BY <2>1, RunTypes DEF RunFits
<1>5. RowsFit'
  BY DEF Sound, RowsFit, Flushed, Handles
<1> QED BY <1>2, <1>3, <1>4, <1>5, AdmittedStep DEF Sound

\* The calendar and the form of the administration.
Around ==
  /\ month' \in Nat /\ budget' \in Budgets /\ spent' \in 0..MaxRare
  /\ UNCHANGED <<request, status, text, scans, rows, run, paid, lost>>

\* What a step is.
LEMMA StepKinds ==
  ASSUME Sound, [Next]_vars
  PROVE  \/ Around
         \/ \E r \in Requests : \E new : Handles(r, new) /\ TurnStep(r, new)
         \/ \E d \in Runs : \E new : Works(d, new) /\ Books(d, new)
<1>1. /\ month \in Nat /\ budget \in Budgets /\ spent \in 0..MaxRare /\ MaxRare \in Nat
  BY BudgetAssumption DEF Sound, TypeOK
<1>2. CASE UNCHANGED vars
  BY <1>1, <1>2 DEF vars, spendVars, Around
<1>3. CASE NextMonth
  BY <1>1, <1>3 DEF NextMonth, Around
<1>4. CASE EditBudget
  BY <1>1, <1>4 DEF EditBudget, Around
<1> QED BY <1>2, <1>3, <1>4, RequestStep, WorkStep DEF Next

LEMMA NextSound ==
  ASSUME Sound, [Next]_vars
  PROVE  Sound'
<1>1. CASE Around
  <2>1. UNCHANGED <<request, status, rows, run>>
    BY <1>1 DEF Around
  <2>2. TypeOK'
    BY <1>1 DEF Around, Sound, TypeOK
  <2>3. RowsFit'
    BY <2>1 DEF Sound, RowsFit, Flushed
  <2>4. Admitted' = Admitted
    BY <2>1 DEF Admitted
  <2> QED BY <2>1, <2>2, <2>3, <2>4 DEF Sound
<1> QED BY <1>1, StepKinds, RequestKeepsSound, WorkKeepsSound

LEMMA InitSound ==
  ASSUME Init
  PROVE  Sound
<1>1. IsFiniteSet(Requests) /\ Cardinality(Requests) \in Nat
  BY BudgetAssumption, FS_CardinalityType
<1>2. TypeOK
  <2>1. At("idle") \in RunRecords
    BY Emptied, StepNames
  <2>2. run \in [Runs -> RunRecords]
    BY <2>1 DEF Init
  <2>3. request \in [Requests -> RequestRecords]
    BY <1>1 DEF Init, RequestRecords, RequestSteps
  <2>4. status \in [Jobs -> Statuses] /\ scans \in [Jobs -> 0..MaxAnswers]
    BY Bounds DEF Init, Statuses
  <2> QED BY <2>2, <2>3, <2>4, BudgetAssumption
          DEF Init, TypeOK, RequestRecords, RunRecords
<1>3. Flushed = {} /\ Admitted = {}
  BY DEF Init, Flushed, Admitted, At
<1>4. RowsFit
  BY <1>3, FS_EmptySet DEF Init, RowsFit
<1>5. \A r \in Requests : request[r].turn <= Cardinality(Admitted)
  BY <1>3, FS_EmptySet DEF Init
<1>6. \A r \in Requests : RequestFits(r, request[r], status)
  BY BudgetAssumption DEF Init, RequestFits
<1>7. \A d \in Runs : RunFits(d, run[d], status)
  BY BudgetAssumption DEF Init, RunFits, At
<1> QED BY <1>2, <1>4, <1>5, <1>6, <1>7 DEF Sound

\* The types of the model: the turns of the requests that are let through number them,
\* and no attempt records more answers than the retries of the guards allow.
THEOREM SpendingIsTyped == Spec => []TypeOK
<1>1. Init => Sound
  BY InitSound
<1>2. Sound => TypeOK
  BY DEF Sound
<1> QED BY <1>1, <1>2, NextSound, PTL DEF Spec

------------------------------------------------------------------------
(* Every token is accounted for.                                          *)

\* The answers recorded of transcriptions are finitely many.
LEMMA ScansFinite ==
  ASSUME Sound
  PROVE  IsFiniteSet(Scans) /\ Scanned \in Nat
<1>1. IsFiniteSet(Jobs \X (1..MaxAnswers))
  <2>1. IsFiniteSet(1..MaxAnswers) /\ IsFiniteSet(Jobs)
    BY BudgetAssumption, Bounds, FS_Interval
  <2> QED BY <2>1, FS_Product
<1> QED BY <1>1, FS_Subset, FS_CardinalityType DEF Scans, Scanned

\* The first n numbers of one job.
LEMMA ScansOfOne ==
  ASSUME NEW j, NEW n \in 0..MaxAnswers
  PROVE  IsFiniteSet({j} \X (1..n)) /\ Cardinality({j} \X (1..n)) = n
<1>1. n \in Nat
  BY Bounds
<1>2. IsFiniteSet(1..n) /\ Cardinality(1..n) = n
  BY <1>1, FS_Interval
<1>3. IsFiniteSet({j}) /\ Cardinality({j}) = 1
  BY FS_Singleton
<1>4. /\ IsFiniteSet({j} \X (1..n))
      /\ Cardinality({j} \X (1..n)) = Cardinality({j}) * Cardinality(1..n)
  BY <1>2, <1>3, FS_Product
<1>5. Cardinality({j}) * Cardinality(1..n) = n
  BY <1>1, <1>2, <1>3
<1> QED BY <1>4, <1>5

\* The trace of a transcription replaces that of the one before.
LEMMA ScansStep ==
  ASSUME Sound, NEW j \in Jobs, NEW n \in 0..MaxAnswers, scans' = [scans EXCEPT ![j] = n]
  PROVE  Scanned' = Scanned - scans[j] + n
<1> DEFINE Rest == {jk \in Scans : jk[1] # j}
           Old == {j} \X (1..scans[j])
           New == {j} \X (1..n)
<1>1. scans \in [Jobs -> 0..MaxAnswers] /\ scans[j] \in 0..MaxAnswers /\ scans[j] \in Nat /\ n \in Nat
  BY Bounds DEF Sound, TypeOK
<1>2. Scans = Rest \cup Old
  BY <1>1, Bounds DEF Scans
<1>3. Scans' = Rest \cup New
  BY <1>1, Bounds DEF Scans
<1>4. Rest \cap Old = {} /\ Rest \cap New = {}
  OBVIOUS
<1>5. IsFiniteSet(Rest) /\ Cardinality(Rest) \in Nat
  BY ScansFinite, FS_Subset, FS_CardinalityType
<1>6. /\ IsFiniteSet(Old) /\ Cardinality(Old) = scans[j]
      /\ IsFiniteSet(New) /\ Cardinality(New) = n
  BY <1>1, ScansOfOne
<1> HIDE DEF Rest, Old, New
<1>7. Cardinality({}) = 0
  BY FS_EmptySet
<1>8. Cardinality(Rest \cup Old) = Cardinality(Rest) + Cardinality(Old) - Cardinality(Rest \cap Old)
  BY <1>5, <1>6, FS_Union
<1>9. Cardinality(Rest \cup New) = Cardinality(Rest) + Cardinality(New) - Cardinality(Rest \cap New)
  BY <1>5, <1>6, FS_Union
<1>10. Scanned = Cardinality(Rest) + scans[j]
  <2>1. Cardinality(Rest \cap Old) = 0
    BY <1>4, <1>7
  <2>2. Cardinality(Rest \cup Old) = Cardinality(Rest) + scans[j]
    BY <1>1, <1>5, <1>6, <1>8, <2>1
  <2> QED BY <1>2, <2>2 DEF Scanned
<1>11. Scanned' = Cardinality(Rest) + n
  <2>1. Cardinality(Rest \cap New) = 0
    BY <1>4, <1>7
  <2>2. Cardinality(Rest \cup New) = Cardinality(Rest) + n
    BY <1>1, <1>5, <1>6, <1>9, <2>1
  <2> QED BY <1>3, <2>2 DEF Scanned
<1> QED BY <1>1, <1>5, <1>10, <1>11

\* The tokens are numbers, the committed ones and the others apart.
LEMMA TokenTypes ==
  ASSUME Sound, NEW d \in Runs
  PROVE  /\ Tokens(rows) \in Nat /\ Tokens(Flushed) \in Nat /\ Tokens(run[d].flushed) \in Nat
         /\ run[d].flushed \subseteq Flushed /\ IsFiniteSet(run[d].flushed)
         /\ IsFiniteSet(rows) /\ IsFiniteSet(Flushed)
         /\ Tokens(Flushed \ run[d].flushed) = Tokens(Flushed) - Tokens(run[d].flushed)
         /\ paid \in Nat /\ lost \in Nat /\ Scanned \in Nat
<1>1. /\ Flushed \subseteq Rows /\ rows \subseteq Rows /\ run[d].flushed \subseteq Flushed
      /\ IsFiniteSet(rows) /\ IsFiniteSet(Flushed)
  BY FlushedOf DEF Sound, RowsFit
<1>2. /\ IsFiniteSet(run[d].flushed)
      /\ Tokens(Flushed \ run[d].flushed) = Tokens(Flushed) - Tokens(run[d].flushed)
  BY <1>1, TokensMonotone
<1>3. run[d].flushed \subseteq Rows
  BY <1>1
<1>4. Tokens(rows) \in Nat /\ Tokens(Flushed) \in Nat /\ Tokens(run[d].flushed) \in Nat
  BY <1>1, <1>2, <1>3, AnswersFinite
<1> QED BY <1>1, <1>2, <1>4, ScansFinite DEF Sound, TypeOK

\* What the books come to.
LEMMA Sums ==
  ASSUME Sound, EveryTokenIsAccounted, NEW d \in Runs
  PROVE  /\ paid \in Nat /\ Tokens(rows) \in Nat /\ Tokens(Flushed) \in Nat
         /\ Scanned \in Nat /\ lost \in Nat /\ Tokens(run[d].flushed) \in Nat
         /\ paid = Tokens(rows) + Tokens(Flushed) + Scanned + lost
BY TokenTypes DEF EveryTokenIsAccounted

LEMMA FlushesAccounted ==
  ASSUME Sound, EveryTokenIsAccounted,
         NEW d \in Runs, NEW new, Works(d, new), Flushes(d, new)
  PROVE  EveryTokenIsAccounted'
<1>1. PICK a \in Rows : /\ a.run = d /\ a \notin run[d].flushed
                        /\ new.flushed = run[d].flushed \cup {a}
                        /\ paid' = paid + a.tokens
                        /\ UNCHANGED <<rows, scans, lost>>
  BY DEF Flushes
<1>2. Flushed' = Flushed \cup {a} /\ a \notin Flushed
  BY <1>1, FlushedStep, FlushedOf
<1>3. IsFiniteSet({a}) /\ {a} \subseteq Rows /\ Flushed \subseteq Rows /\ Flushed \cap {a} = {}
  BY <1>2, FS_Singleton, FlushedOf
<1>4. Tokens(Flushed') = Tokens(Flushed) + a.tokens
  <2>1. Tokens(Flushed \cup {a}) = Tokens(Flushed) + Tokens({a})
    BY <1>3, TokenTypes, TokensUnion
  <2> QED BY <1>2, <2>1, TokensOne
<1>5. a.tokens \in Nat
  BY Bounds DEF Rows
<1>6. Scanned' = Scanned
  BY <1>1 DEF Scanned, Scans
<1>7. Tokens(rows)' = Tokens(rows)
  BY <1>1
<1>8. paid + a.tokens = Tokens(rows) + (Tokens(Flushed) + a.tokens) + Scanned + lost
  <2>1. /\ paid \in Nat /\ Tokens(rows) \in Nat /\ Tokens(Flushed) \in Nat
        /\ Scanned \in Nat /\ lost \in Nat
        /\ paid = Tokens(rows) + Tokens(Flushed) + Scanned + lost
    BY Sums
  <2> QED BY <1>5, <2>1
<1> QED BY <1>1, <1>4, <1>6, <1>7, <1>8 DEF EveryTokenIsAccounted

LEMMA CommitsAccounted ==
  ASSUME Sound, EveryTokenIsAccounted,
         NEW d \in Runs, NEW new, Works(d, new), Commits(d, new)
  PROVE  EveryTokenIsAccounted'
<1>1. /\ rows' = rows \cup run[d].flushed /\ UNCHANGED <<paid, scans, lost>>
      /\ Flushed' = Flushed \ run[d].flushed
  BY FlushedStep DEF Commits
<1>2. /\ rows \subseteq Rows /\ run[d].flushed \subseteq Rows /\ rows \cap run[d].flushed = {}
  BY FlushedOf, TokenTypes
<1>3. Tokens(rows \cup run[d].flushed) = Tokens(rows) + Tokens(run[d].flushed)
  BY <1>2, TokenTypes, TokensUnion
<1>4. Tokens(rows') = Tokens(rows) + Tokens(run[d].flushed)
  BY <1>1, <1>3
<1>5. Tokens(Flushed') = Tokens(Flushed) - Tokens(run[d].flushed)
  BY <1>1, TokenTypes
<1>6. Scanned' = Scanned
  BY <1>1 DEF Scanned, Scans
<1> QED BY <1>1, <1>4, <1>5, <1>6, TokenTypes DEF EveryTokenIsAccounted

LEMMA WastesAccounted ==
  ASSUME Sound, EveryTokenIsAccounted,
         NEW d \in Runs, NEW new, Works(d, new), Wastes(d, new)
  PROVE  EveryTokenIsAccounted'
<1>1. PICK n \in Nat : /\ new.flushed = {} /\ paid' = paid + n
                       /\ lost' = lost + n + Tokens(run[d].flushed)
                       /\ UNCHANGED <<rows, scans>>
  BY DEF Wastes, Unrecorded
<1>2. Flushed' = Flushed \ run[d].flushed
  BY <1>1, FlushedStep
<1>3. Tokens(Flushed') = Tokens(Flushed) - Tokens(run[d].flushed)
  BY <1>2, TokenTypes
<1>4. Scanned' = Scanned
  BY <1>1 DEF Scanned, Scans
<1>5. Tokens(rows)' = Tokens(rows)
  BY <1>1
<1>6. paid + n = Tokens(rows) + (Tokens(Flushed) - Tokens(run[d].flushed)) + Scanned
                   + (lost + n + Tokens(run[d].flushed))
  <2>1. /\ paid \in Nat /\ Tokens(rows) \in Nat /\ Tokens(Flushed) \in Nat
        /\ Scanned \in Nat /\ lost \in Nat /\ Tokens(run[d].flushed) \in Nat
        /\ paid = Tokens(rows) + Tokens(Flushed) + Scanned + lost
    BY Sums
  <2> QED BY <2>1
<1> QED BY <1>1, <1>3, <1>4, <1>5, <1>6 DEF EveryTokenIsAccounted

LEMMA ReadsAccounted ==
  ASSUME Sound, EveryTokenIsAccounted,
         NEW d \in Runs, NEW new, Works(d, new), Reads(d, new) \/ Costless(d, new)
  PROVE  EveryTokenIsAccounted'
<1>1. new.flushed = run[d].flushed /\ UNCHANGED rows
  BY DEF Reads, Costless
<1>2. Flushed' = Flushed
  <2>1. Flushed' = (Flushed \ run[d].flushed) \cup run[d].flushed
    BY <1>1, FlushedStep
  <2> QED BY <2>1, TokenTypes
<1>0. Tokens(rows)' = Tokens(rows) /\ Tokens(Flushed)' = Tokens(Flushed)
  BY <1>1, <1>2
<1>3. CASE Reads(d, new)
  <2>1. PICK n \in 0..MaxAnswers : /\ paid' = paid + n /\ lost' = lost + scans[d[1]]
                                   /\ scans' = [scans EXCEPT ![d[1]] = n]
    BY <1>3 DEF Reads
  <2>2. n \in Nat /\ scans[d[1]] \in Nat /\ d[1] \in Jobs
    BY RunTypes, Bounds
  <2>3. Scanned' = Scanned - scans[d[1]] + n
    BY <2>1, <2>2, ScansStep
  <2>4. paid + n = Tokens(rows) + Tokens(Flushed) + (Scanned - scans[d[1]] + n)
                     + (lost + scans[d[1]])
    <3>1. /\ paid \in Nat /\ Tokens(rows) \in Nat /\ Tokens(Flushed) \in Nat
          /\ Scanned \in Nat /\ lost \in Nat
          /\ paid = Tokens(rows) + Tokens(Flushed) + Scanned + lost
      BY Sums
    <3> QED BY <2>2, <3>1
  <2> QED BY <1>0, <2>1, <2>3, <2>4 DEF EveryTokenIsAccounted
<1>4. CASE Costless(d, new)
  <2>1. Scanned' = Scanned /\ UNCHANGED <<paid, lost>>
    BY <1>4 DEF Costless, Scanned, Scans
  <2> QED BY <1>0, <2>1, TokenTypes DEF EveryTokenIsAccounted
<1> QED BY <1>3, <1>4

LEMMA NextAccounted ==
  ASSUME Sound, EveryTokenIsAccounted, [Next]_vars
  PROVE  EveryTokenIsAccounted'
<1>1. CASE UNCHANGED <<scans, rows, run, paid, lost>>
  BY <1>1 DEF EveryTokenIsAccounted, Flushed, Scanned, Scans
<1>2. ASSUME NEW d \in Runs, NEW new, Works(d, new), Books(d, new)
      PROVE  EveryTokenIsAccounted'
  BY <1>2, FlushesAccounted, CommitsAccounted, WastesAccounted, ReadsAccounted DEF Books
<1> QED BY <1>1, <1>2, StepKinds DEF Around, Handles

\* Every token that was paid is in a committed attempt, in the trace of a transcription,
\* in the hands of a run, or was lost, and none is counted twice: whatever fails between
\* the answer and the commit, and however the deliveries overlap.
THEOREM TokensAreAccounted == Spec => []EveryTokenIsAccounted
<1>1. ASSUME Init PROVE EveryTokenIsAccounted
  <2>1. Flushed = {} /\ rows = {} /\ paid = 0 /\ lost = 0
    BY <1>1 DEF Init, Flushed, At
  <2>2. Scans = {}
    BY <1>1, Bounds DEF Init, Scans
  <2>3. Tokens(rows) = 0 /\ Tokens(Flushed) = 0 /\ Scanned = 0
    BY <2>1, <2>2, TokensNone, FS_EmptySet DEF Scanned
  <2> QED BY <2>1, <2>3 DEF EveryTokenIsAccounted
<1>2. Init => Sound
  BY InitSound
<1> QED BY <1>1, <1>2, NextSound, NextAccounted, PTL DEF Spec

------------------------------------------------------------------------
(* A budget is overrun within reach.                                      *)

\* What was let through before a request, and with it.
Earlier(r) == {q \in Admitted : request[q].turn <= request[r].turn}
Charged(r) == {a \in rows : /\ a.month = request[r].month
                            /\ a.run \in UNION {RunsOf(q) : q \in Earlier(r)}}

\* Of a request that was checked: the runs that may still record something were seen, and
\* what the others recorded is below the budget.
Reached(r) ==
  /\ request[r].open \subseteq Runs
  /\ \A q \in Earlier(r) : \A d \in RunsOf(q) : Live(d) => d \in request[r].open
  /\ Tokens({a \in Charged(r) : a.run \notin request[r].open}) < request[r].limit

Bounded == Sound /\ \A r \in Requests : request[r].month # 0 => Reached(r)

\* A run that is not under way and not ahead will never be: it would take another that
\* reopens its job, and then it is ahead.
LEMMA DeadForever ==
  ASSUME Sound, NEW d \in Runs, NEW new, Works(d, new)
  PROVE  \A e \in Runs : Live(e)' => Live(e)
<1> SUFFICES ASSUME NEW e \in Runs, Live(e)' PROVE Live(e)
  OBVIOUS
<1>1. /\ run'[d] = new /\ \A c \in Runs \ {d} : run'[c] = run[c]
      /\ d[1] \in Jobs /\ e[1] \in Jobs
  BY RunTypes DEF Works
<1>2. Reopening(d, new) /\ (new.pc # "over" => Live(d))
  BY DEF Works
<1>3. CASE e = d
  BY <1>1, <1>2, <1>3 DEF Live
<1>4. CASE e # d /\ run[e].pc # "idle"
  BY <1>1, <1>4 DEF Live
<1>5. CASE e # d /\ run[e].pc = "idle" /\ Unsettled(e)'
  <2>1. status'[e[1]] \notin Terminal
    BY <1>5 DEF Unsettled
  <2>2. Unsettled(e) \/ (e[1] = d[1] /\ Reopens(d))
    BY <1>1, <1>2, <2>1 DEF Reopening, Unsettled
  <2> QED BY <1>5, <2>2 DEF Live
<1>6. CASE e # d /\ run[e].pc = "idle" /\ \E c \in Runs : c[1] = e[1] /\ Reopens(c)'
  <2>1. PICK c \in Runs : c[1] = e[1] /\ Reopens(c)'
    BY <1>6
  <2>2. CASE c # d
    BY <1>1, <1>6, <2>1, <2>2 DEF Live, Reopens
  <2>3. CASE c = d
    <3>1. Reopens(d) \/ Unsettled(d)
      BY <1>1, <1>2, <2>1, <2>3 DEF Reopening, Reopens
    <3>2. Unsettled(d) => Unsettled(e)
      BY <2>1, <2>3 DEF Unsettled
    <3> QED BY <1>6, <2>1, <2>3, <3>1, <3>2 DEF Live
  <2> QED BY <2>2, <2>3
<1> QED BY <1>1, <1>3, <1>4, <1>5, <1>6 DEF Live

\* A step of a run records what was in reach.
LEMMA WorkReached ==
  ASSUME Bounded, NEW d \in Runs, NEW new, Works(d, new), Books(d, new),
         NEW r \in Requests, request[r].month # 0
  PROVE  Reached(r)'
<1>1. Sound /\ Reached(r) /\ UNCHANGED request
  BY DEF Bounded, Works
<1>2. Earlier(r)' = Earlier(r) /\ \A q \in Requests : RunsOf(q)' = RunsOf(q)
  BY <1>1 DEF Earlier, Admitted, RunsOf
<1>3. \A q \in Earlier(r)' : \A e \in RunsOf(q) : Live(e)' => e \in request'[r].open
  BY <1>1, <1>2, DeadForever DEF Reached, RunsOf
<1>4. {a \in Charged(r)' : a.run \notin request'[r].open}
        = {a \in Charged(r) : a.run \notin request[r].open}
  <2>1. CASE UNCHANGED rows
    BY <1>1, <1>2, <2>1 DEF Charged
  <2>2. CASE Commits(d, new)
    <3>1. rows' = rows \cup run[d].flushed /\ Live(d)
      BY <2>2 DEF Commits
    <3>2. \A a \in run[d].flushed : a.run = d
      BY <1>1, RunTypes DEF RunFits
    <3>3. d \in UNION {RunsOf(q) : q \in Earlier(r)} => d \in request[r].open
      BY <1>1, <3>1 DEF Reached
    <3> QED BY <1>1, <1>2, <3>1, <3>2, <3>3 DEF Charged
  <2> QED BY <2>1, <2>2 DEF Books, Flushes, Wastes, Reads, Costless
<1>5. Reached(r)' <=>
        /\ request'[r].open \subseteq Runs
        /\ \A q \in Earlier(r)' : \A e \in RunsOf(q) : Live(e)' => e \in request'[r].open
        /\ Tokens({a \in Charged(r)' : a.run \notin request'[r].open}) < request'[r].limit
  BY <1>2 DEF Reached, RunsOf
<1> QED BY <1>1, <1>3, <1>4, <1>5 DEF Reached

\* Statuses that requests write leave every run as alive as it was.
LEMMA AsAlive ==
  ASSUME Sound, NEW r \in Requests, NEW new, Handles(r, new)
  PROVE  \A e \in Runs : Live(e)' => Live(e)
<1> SUFFICES ASSUME NEW e \in Runs, Live(e)' PROVE Live(e)
  OBVIOUS
<1>1. status[e[1]] \in Terminal => status'[e[1]] \in Terminal
  BY RunTypes DEF Handles, Sent
<1>2. Unsettled(e)' => Unsettled(e)
  BY <1>1 DEF Unsettled
<1>3. UNCHANGED run /\ \A c \in Runs : Reopens(c)' => Reopens(c)
  BY DEF Handles, Reopens
<1> QED BY <1>2, <1>3 DEF Live

\* Requests that are let through later are not earlier.
LEMMA HandleReached ==
  ASSUME Bounded, NEW r \in Requests, NEW new, Handles(r, new), TurnStep(r, new),
         NEW q \in Requests, request[q].month # 0, request'[q] = request[q]
  PROVE  Reached(q)'
<1>1. Sound /\ Reached(q) /\ UNCHANGED <<rows, run>>
  BY DEF Bounded, Handles
<1>2. request[q].turn \in Nat /\ request[q].turn # 0
  BY <1>1, Turns, Records DEF RequestFits
<1>3. Earlier(q)' = Earlier(q)
  <2>1. /\ request'[r] = new /\ \A c \in Requests \ {r} : request'[c] = request[c]
        /\ IF new.turn = 0 THEN Admitted' = Admitted ELSE Admitted' = Admitted \cup {r}
        /\ new.turn # request[r].turn => r \notin Admitted /\ new.turn = NextTurn
    BY <1>1, AdmittedStep
  <2>2. CASE new.turn = request[r].turn
    <3>1. Admitted' = Admitted
      BY <1>1, <2>1, <2>2, Turns DEF Admitted
    <3>2. \A c \in Requests : request'[c].turn = request[c].turn
      BY <2>1, <2>2
    <3> QED BY <3>1, <3>2 DEF Earlier, Admitted
  <2>3. CASE new.turn # request[r].turn
    <3>1. /\ new.turn = Cardinality(Admitted) + 1 /\ r \notin Admitted
          /\ Cardinality(Admitted) \in Nat
          /\ request[q].turn <= Cardinality(Admitted)
      BY <1>1, <2>1, <2>3, Turns DEF NextTurn, Sound
    <3>2. ~(new.turn <= request[q].turn)
      BY <1>2, <3>1
    <3>3. Admitted' = Admitted \cup {r} /\ q # r /\ request'[q].turn = request[q].turn
      BY <1>2, <2>1, <3>1 DEF Admitted
    <3> QED BY <2>1, <3>1, <3>2, <3>3 DEF Earlier, Admitted
  <2> QED BY <2>2, <2>3
<1>4. Charged(q)' = Charged(q)
  BY <1>1, <1>3 DEF Charged, RunsOf
<1>5. \A c \in Earlier(q)' : \A e \in RunsOf(c) : Live(e)' => e \in request'[q].open
  BY <1>1, <1>3, AsAlive DEF Reached, RunsOf
<1>6. Reached(q)' <=>
        /\ request'[q].open \subseteq Runs
        /\ \A c \in Earlier(q)' : \A e \in RunsOf(c) : Live(e)' => e \in request'[q].open
        /\ Tokens({a \in Charged(q)' : a.run \notin request'[q].open}) < request'[q].limit
  BY DEF Reached, RunsOf
<1>7. {a \in Charged(q)' : a.run \notin request'[q].open}
        = {a \in Charged(q) : a.run \notin request[q].open}
  BY <1>4
<1> QED BY <1>1, <1>5, <1>6, <1>7 DEF Reached

\* The check itself: all that is recorded this month is below the budget, and what may
\* still come is written down.
LEMMA CheckReached ==
  ASSUME Bounded, NEW r \in Requests, NEW new, Handles(r, new), TurnStep(r, new),
         ~AtOrAbove(new.limit), new.turn = NextTurn, request[r].turn = 0,
         new.month = month, new.open = Reach(r), new.month # 0
  PROVE  Reached(r)'
<1>1. Sound /\ UNCHANGED <<rows, run>> /\ new.limit \in Nat
  BY DEF Bounded, Handles, RequestFits
<1>2. request'[r] = new /\ NextTurn # 0
  BY <1>1, AdmittedStep, Turns DEF NextTurn
<1>3. Admitted' = Admitted \cup {r}
  BY <1>1, <1>2, AdmittedStep
<1>4. Earlier(r)' \subseteq Admitted \cup {r}
  BY <1>3 DEF Earlier
<1>5. \A q \in Earlier(r)' : \A d \in RunsOf(q) : Live(d)' => d \in request'[r].open
  BY <1>1, <1>2, <1>4, AsAlive DEF Reach, RunsOf
<1>6. {a \in Charged(r)' : a.run \notin request'[r].open} \subseteq {a \in rows : a.month = month}
  BY <1>1, <1>2 DEF Charged
<1> DEFINE S == {a \in rows : a.month = month}
           T == {a \in Charged(r)' : a.run \notin request'[r].open}
<1>7. S \subseteq Rows /\ IsFiniteSet(S) /\ T \subseteq S
  BY <1>1, <1>6, FS_Subset DEF Sound, TypeOK, RowsFit
<1>8. Tokens(S) < new.limit
  <2>1. Tokens(S) \in Nat
    BY <1>7, AnswersFinite
  <2> QED BY <1>1, <2>1 DEF AtOrAbove, SpendThisMonth
<1>9. Tokens(T) < new.limit
  <2> HIDE DEF S, T
  <2>1. Tokens(T) <= Tokens(S) /\ IsFiniteSet(T) /\ T \subseteq Rows
    BY <1>7, TokensMonotone
  <2>2. Tokens(T) \in Nat /\ Tokens(S) \in Nat
    BY <1>7, <2>1, AnswersFinite
  <2> QED BY <1>1, <1>8, <2>1, <2>2
<1>10. new.open \subseteq Runs
  BY DEF Handles, RequestRecords
<1>11. Reached(r)' <=>
        /\ request'[r].open \subseteq Runs
        /\ \A q \in Earlier(r)' : \A d \in RunsOf(q) : Live(d)' => d \in request'[r].open
        /\ Tokens({a \in Charged(r)' : a.run \notin request'[r].open}) < request'[r].limit
  BY DEF Reached, RunsOf
<1> QED BY <1>2, <1>5, <1>9, <1>10, <1>11

LEMMA NextBounded ==
  ASSUME Bounded, [Next]_vars
  PROVE  Bounded'
<1>1. Sound /\ Sound'
  BY NextSound DEF Bounded
<1> SUFFICES ASSUME NEW q \in Requests, request'[q].month # 0 PROVE Reached(q)'
  BY <1>1 DEF Bounded
<1>2. CASE Around
  <2>1. UNCHANGED <<request, rows, run, status>>
    BY <1>2 DEF Around
  <2>2. Reached(q)
    BY <2>1 DEF Bounded
  <2> QED BY <2>1, <2>2 DEF Reached, Charged, Earlier, Admitted, Live, Unsettled, Reopens, RunsOf
<1>3. ASSUME NEW d \in Runs, NEW new, Works(d, new), Books(d, new)
      PROVE  Reached(q)'
  BY <1>3, WorkReached DEF Works
<1>4. ASSUME NEW r \in Requests, NEW new, Handles(r, new), TurnStep(r, new)
      PROVE  Reached(q)'
  <2>1. request'[r] = new /\ \A c \in Requests \ {r} : request'[c] = request[c]
    BY <1>1, <1>4, AdmittedStep
  <2>2. CASE q # r
    BY <1>4, <2>1, <2>2, HandleReached
  <2>3. CASE q = r /\ request[r].pc = "sum" /\ new.month = month /\ new.turn = NextTurn
             /\ ~AtOrAbove(new.limit) /\ request[r].turn = 0 /\ new.open = Reach(r)
    BY <1>4, <2>1, <2>3, CheckReached
  <2>4. CASE /\ q = r /\ new.turn = request[r].turn /\ new.month = request[r].month
             /\ new.limit = request[r].limit /\ new.open = request[r].open
    <3>1. request[r].month # 0 /\ Reached(r)
      BY <2>1, <2>4 DEF Bounded
    <3>2. \A c \in Requests : request'[c].turn = request[c].turn
      BY <2>1, <2>4
    <3>3. Earlier(r)' = Earlier(r)
      BY <3>2 DEF Earlier, Admitted
    <3>4. UNCHANGED <<rows, run>> /\ request'[r].month = request[r].month
          /\ request'[r].limit = request[r].limit /\ request'[r].open = request[r].open
      BY <1>4, <2>1, <2>4 DEF Handles
    <3>5. Charged(r)' = Charged(r)
      BY <3>3, <3>4 DEF Charged, RunsOf
    <3>6. \A c \in Earlier(r)' : \A e \in RunsOf(c) : Live(e)' => e \in request'[r].open
      BY <1>1, <1>4, <3>1, <3>3, <3>4, AsAlive DEF Reached, RunsOf
    <3>7. Reached(r)' <=>
            /\ request'[r].open \subseteq Runs
            /\ \A c \in Earlier(r)' : \A e \in RunsOf(c) : Live(e)' => e \in request'[r].open
            /\ Tokens({b \in Charged(r)' : b.run \notin request'[r].open}) < request'[r].limit
      BY DEF Reached, RunsOf
    <3>8. {b \in Charged(r)' : b.run \notin request'[r].open}
            = {b \in Charged(r) : b.run \notin request[r].open}
      BY <3>4, <3>5
    <3> QED BY <2>4, <3>1, <3>4, <3>6, <3>7, <3>8 DEF Reached
  <2> QED BY <1>4, <2>1, <2>2, <2>3, <2>4 DEF TurnStep
<1> QED BY <1>1, <1>2, <1>3, <1>4, StepKinds

\* By how much a budget can be overrun: what is charged to the runs that the check saw,
\* each of which commits once, as many attempts as its job allows of MaxAnswers answers at
\* most, and the rest, which was below the budget and grows no more.  Nothing else reaches
\* the budget of that month, whatever is delivered twice, retried, edited, or settled and
\* set to processing again by a delivery that had read it before.
THEOREM OverrunsAreWithinReach == Spec => []OverrunIsWithinReach
<1>1. ASSUME Init PROVE Bounded
  BY <1>1, InitSound DEF Init, Bounded
<1>2. ASSUME Bounded PROVE OverrunIsWithinReach
  <2> SUFFICES ASSUME NEW r \in Requests, request[r].month # 0
               PROVE  Tokens(Charged(r)) < request[r].limit + AtMost(request[r].open)
    BY DEF OverrunIsWithinReach, Charged, Earlier
  <2> DEFINE D == request[r].open
             S == {a \in Charged(r) : a.run \in D}
             T == {a \in Charged(r) : a.run \notin D}
  <2>1. /\ Sound /\ D \subseteq Runs /\ Tokens(T) < request[r].limit
        /\ request[r].limit \in Nat
    BY <1>2, Records DEF Bounded, Reached, RequestFits
  <2>2. /\ Charged(r) \subseteq rows /\ rows \subseteq Rows /\ IsFiniteSet(rows)
        /\ \A a \in rows : a.number <= AttemptsOf[a.run[1]]
        /\ \A a, b \in rows : a.run = b.run /\ a.number = b.number => a = b
    BY <2>1 DEF Charged, Sound, TypeOK, RowsFit
  <2>3. IsFiniteSet(S) /\ IsFiniteSet(T) /\ S \subseteq Rows /\ T \subseteq Rows
    BY <2>2, FS_Subset
  <2>4. Tokens(S) <= AtMost(D)
    BY <2>1, <2>2, <2>3, TokensOfRuns
  <2>5. Charged(r) = S \cup T /\ S \cap T = {}
    OBVIOUS
  <2>6. AtMost(D) \in Nat
    BY <2>1, ChancesFinite
  <2> HIDE DEF D, S, T
  <2>7. Tokens(Charged(r)) = Tokens(S) + Tokens(T)
    BY <2>3, <2>5, TokensUnion
  <2>8. Tokens(S) \in Nat /\ Tokens(T) \in Nat
    BY <2>3, AnswersFinite
  <2> QED BY <2>1, <2>4, <2>6, <2>7, <2>8 DEF D
<1> QED BY <1>1, <1>2, NextBounded, PTL DEF Spec
====
