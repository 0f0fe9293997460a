---- MODULE AuthRequestsProofs ----
(***************************************************************************)
(* Proofs about AuthRequests, for any users, addresses, sessions and       *)
(* threads, any limits and any number of logins and failures.              *)
(***************************************************************************)
EXTENDS AuthRequests, Integers, FiniteSetTheorems, TLAPS

------------------------------------------------------------------------
(* What a request has at each of its steps.                               *)

LoginSteps == {"count_ip", "count_name", "password", "clear_ip", "clear_name",
               "list", "list_by_scan", "read", "evict"}

Shape(r) ==
  /\ r.route = "login" => r.user \in Users /\ r.from \in Addresses
  /\ r.route \in {"visit", "logout", "refresh"} => r.cookie \in Sessions
  /\ r.pc \in LoginSteps \/ r.back = "evict" => r.route = "login"
  /\ r.pc \in {"cleanup", "sweep", "validate"} \/ r.back = "sweep" =>
       r.route \in {"visit", "logout", "refresh"}
  /\ r.pc \in {"count_ip", "count_name", "clear_ip", "clear_name"} => Limited
  /\ r.pc \in {"token", "terminate", "exists", "write"} => r.session \in Sessions
  /\ IF r.pc \in {"exists", "write"} THEN r.copy \in Records ELSE r.copy = None
  /\ r.back \in {"done", "evict", "sweep", "terminate", "token"}
  /\ IsFiniteSet(r.found)

Typed == TypeOK /\ \A t \in Threads : Shape(task[t])

\* What a step may take in hand: a session that is stored, and of its record a copy that
\* ends it, or one that marks the use of a session that is not ended.
Copied(n) ==
  /\ n.session \in Sessions /\ Get(n.session) # None
  /\ \/ n.copy = [Get(n.session) EXCEPT !.active = FALSE]
     \/ InUse(Get(n.session)) /\ n.copy = [Get(n.session) EXCEPT !.last = clock]

\* Only the steps that count an attempt lead to its password.
Attempts(r, n) ==
  n.pc \in {"count_name", "password"} =>
    \/ r.pc \in {"count_ip", "count_name"} \/ ~Limited
    \/ /\ n.pc = r.pc /\ n.allowed = r.allowed
       /\ n.from = r.from /\ n.user = r.user

\* What a request has in hand before and after a step.
Hand(r, n) ==
  /\ Attempts(r, n)
  /\ n.now \in {0, r.now, clock}
  /\ n.session \in {None, r.session} \/ store'[n.session] # None
  /\ \/ n.copy = None
     \/ /\ n.copy = r.copy /\ n.session = r.session
        /\ n.pc \in {"exists", "write"} => r.pc \in {"exists", "write"}
     \/ Copied(n)

Moves(t) ==
  \E new \in Tasks : task' = [task EXCEPT ![t] = new] /\ Shape(new) /\ Hand(task[t], new)

\* An answered request.
LEMMA NoTaskShape == NoTask \in Tasks /\ Shape(NoTask)
BY FS_EmptySet DEF NoTask, Tasks, Steps, Shape, LoginSteps

\* An answer.
LEMMA FinishMoves ==
  ASSUME Typed, NEW t \in Threads, Finish(t)
  PROVE  Moves(t)
<1>1. NoTask.pc = "done" /\ NoTask.now = 0 /\ NoTask.session = None /\ NoTask.copy = None
  BY DEF NoTask
<1> QED BY <1>1, NoTaskShape DEF Finish, Moves, Hand, Attempts

\* What is read of a session.
LEMMA GetType ==
  ASSUME Typed, NEW s \in Sessions
  PROVE  /\ Get(s) \in Records \cup {None}
         /\ Get(s) # None => store[s] # None /\ Get(s) = store[s].data /\ clock < store[s].until
         /\ None \notin Records
BY NoRecordAssumption DEF Typed, TypeOK, StorageTypes, Get, Exists, Keys

\* The request of a thread.
LEMMA TaskType ==
  ASSUME Typed, NEW t \in Threads
  PROVE  task[t] \in Tasks /\ Shape(task[t]) /\ clock \in Nat
BY DEF Typed, TypeOK, StorageTypes

\* A step on from one command to the next.
LEMMA GotoMoves ==
  ASSUME Typed, NEW t \in Threads, NEW step \in Steps, Goto(t, step),
         step \in LoginSteps => task[t].route = "login",
         step \in {"cleanup", "sweep", "validate"} => task[t].route \in {"visit", "logout", "refresh"},
         step \in {"count_ip", "count_name", "clear_ip", "clear_name"} => Limited,
         step \in {"token", "terminate", "exists", "write"} => task[t].session \in Sessions,
         step \in {"exists", "write"} <=> Updating(t),
         step \notin {"count_name", "password"}
  PROVE  Moves(t)
<1> DEFINE new == [task[t] EXCEPT !.pc = step]
<1>1. new \in Tasks /\ task' = [task EXCEPT ![t] = new]
  <2>1. new \in Tasks
    BY TaskType DEF Tasks
  <2> QED BY <2>1 DEF Goto, Typed, TypeOK
<1>2. /\ new.pc = step /\ new.route = task[t].route /\ new.back = task[t].back
      /\ new.user = task[t].user /\ new.from = task[t].from /\ new.cookie = task[t].cookie
      /\ new.session = task[t].session /\ new.copy = task[t].copy /\ new.found = task[t].found
      /\ new.now = task[t].now
  BY TaskType DEF Tasks
<1> HIDE DEF new
<1>3. Shape(new)
  BY <1>2, TaskType DEF Shape, Updating
<1>4. Hand(task[t], new)
  BY <1>2 DEF Hand, Attempts, Updating
<1> QED BY <1>1, <1>3, <1>4 DEF Moves

\* The loop over the sessions of a user.
LEMMA EnforcingShape ==
  ASSUME NEW r \in Tasks, Shape(r), r.pc = "read"
  PROVE  /\ Enforcing(r) \in Tasks /\ Shape(Enforcing(r))
         /\ Enforcing(r).now = r.now /\ Enforcing(r).session = r.session
         /\ Enforcing(r).copy = r.copy /\ Enforcing(r).pc \in {"read", "evict"}
<1>1. Excess(Cardinality(r.found)) \in Nat
  BY FS_CardinalityType, CapAssumption DEF Excess, Shape
<1> DEFINE new == [r EXCEPT !.pc = "evict", !.excess = Excess(Cardinality(r.found))]
<1>2. new \in Tasks
  BY <1>1 DEF Tasks, Steps
<1>3. /\ new.pc = "evict" /\ new.route = r.route /\ new.back = r.back
      /\ new.user = r.user /\ new.from = r.from /\ new.cookie = r.cookie
      /\ new.session = r.session /\ new.copy = r.copy /\ new.found = r.found
      /\ new.now = r.now
  BY DEF Tasks
<1> HIDE DEF new
<1>4. Shape(new)
  BY <1>3 DEF Shape, LoginSteps
<1> QED BY <1>2, <1>3, <1>4 DEF Enforcing, new

\* The record that a termination will write.
LEMMA EndingShape ==
  ASSUME Typed, NEW r \in Tasks, Shape(r), NEW s \in Sessions, NEW back \in {"done", "evict", "sweep"},
         back = "evict" => r.route = "login",
         back = "sweep" => r.route \in {"visit", "logout", "refresh"},
         NEW q, q.now = r.now, q.session = r.session, q.copy = r.copy,
         r.pc \notin {"exists", "write", "count_name", "password"}, UNCHANGED store
  PROVE  LET n == Ending(r, s, back) IN n \in Tasks /\ Shape(n) /\ Hand(q, n)
<1>1. CASE Get(s) = None
  BY <1>1 DEF Ending, Hand, Attempts
<1>2. CASE Get(s) # None
  <2> DEFINE copy == [Get(s) EXCEPT !.active = FALSE]
             new == [r EXCEPT !.pc = "exists", !.back = back, !.session = s, !.copy = copy]
  <2>1. copy \in Records /\ store[s] # None
    BY <1>2, GetType DEF Records
  <2> HIDE DEF copy
  <2>2. new \in Tasks
    BY <2>1 DEF Tasks, Steps
  <2>3. /\ new.pc = "exists" /\ new.back = back /\ new.session = s /\ new.copy = copy
        /\ new.route = r.route /\ new.user = r.user /\ new.from = r.from
        /\ new.cookie = r.cookie /\ new.found = r.found /\ new.now = r.now
    BY DEF Tasks
  <2> HIDE DEF new
  <2>4. Shape(new)
    BY <2>1, <2>3 DEF Shape, LoginSteps
  <2>5. Hand(q, new)
    BY <1>2, <2>1, <2>3 DEF Hand, Attempts, Copied, copy
  <2>6. Ending(r, s, back) = new
    BY <1>2 DEF Ending, new, copy
  <2> QED BY <2>2, <2>4, <2>5, <2>6
<1> QED BY <1>1, <1>2

\* The steps of a login.
LEMMA CountMoves ==
  ASSUME Typed, NEW t \in Threads, CountAddress(t) \/ CountName(t)
  PROVE  Moves(t)
<1> SUFFICES ASSUME NEW c, NEW step \in {"count_ip", "count_name"},
                    NEW next \in {"count_name", "password"}, CountStep(t, c, step, next)
             PROVE  Moves(t)
  <2>1. CASE CountAddress(t)
    BY <2>1, Zenon DEF CountAddress
  <2>2. CASE CountName(t)
    BY <2>2, Zenon DEF CountName
  <2> QED BY <2>1, <2>2
<1> DEFINE allowed == task[t].allowed /\ Allowed(count'[c])
           new == [task[t] EXCEPT !.pc = next, !.allowed = allowed]
<1>1. allowed \in BOOLEAN
  OBVIOUS
<1>2. task' = [task EXCEPT ![t] = new]
  BY DEF CountStep, Typed, TypeOK
<1> HIDE DEF allowed
<1>3. new \in Tasks
  <2>1. next \in Steps
    BY DEF Steps
  <2> QED BY <1>1, <2>1, TaskType DEF Tasks
<1>4. /\ new.pc = next /\ new.route = task[t].route /\ new.back = task[t].back
      /\ new.user = task[t].user /\ new.from = task[t].from /\ new.cookie = task[t].cookie
      /\ new.session = task[t].session /\ new.copy = task[t].copy /\ new.found = task[t].found
      /\ new.now = task[t].now
  BY TaskType DEF Tasks
<1> HIDE DEF new
<1>5. Shape(new)
  BY <1>4, TaskType DEF Shape, CountStep, At, LoginSteps
<1>6. Hand(task[t], new)
  BY <1>4 DEF Hand, Attempts, CountStep, At
<1> QED BY <1>2, <1>3, <1>5, <1>6 DEF Moves

\* The step on to the sessions of the user.
LEMMA CreationMoves ==
  ASSUME Typed, NEW t \in Threads, task[t].pc \in LoginSteps, BeginCreation(t)
  PROVE  Moves(t)
<1> DEFINE new == [task[t] EXCEPT !.pc = "list", !.now = clock]
<1>1. new \in Tasks /\ task' = [task EXCEPT ![t] = new]
  <2>1. "list" \in Steps
    BY DEF Steps
  <2>2. new \in Tasks
    BY <2>1, TaskType DEF Tasks
  <2> QED BY <2>2 DEF BeginCreation, Typed, TypeOK
<1>2. /\ new.pc = "list" /\ new.route = task[t].route /\ new.back = task[t].back
      /\ new.user = task[t].user /\ new.from = task[t].from /\ new.cookie = task[t].cookie
      /\ new.session = task[t].session /\ new.copy = task[t].copy /\ new.found = task[t].found
      /\ new.now = clock
  BY TaskType DEF Tasks
<1> HIDE DEF new
<1>3. Shape(new)
  BY <1>2, TaskType DEF Shape, LoginSteps
<1>4. Hand(task[t], new)
  BY <1>2 DEF Hand, Attempts
<1> QED BY <1>1, <1>3, <1>4 DEF Moves

\* The steps from the password to the cleared counters.
LEMMA PasswordMoves ==
  ASSUME Typed, NEW t \in Threads,
         Refuse(t) \/ Authenticate(t) \/ ClearAddress(t) \/ ClearName(t)
  PROVE  Moves(t)
<1>1. task[t].pc \in LoginSteps /\ task[t].route = "login"
  BY TaskType DEF Refuse, Authenticate, ClearAddress, ClearName, At, LoginSteps, Shape
<1>2. ASSUME NEW step \in {"clear_ip", "clear_name"}, Goto(t, step), Limited PROVE Moves(t)
  BY <1>1, <1>2, GotoMoves DEF Steps, LoginSteps, Updating
<1>3. CASE ClearAddress(t)
  <2>1. Limited
    BY <1>3, TaskType DEF ClearAddress, At, Shape
  <2> QED BY <1>2, <1>3, <2>1 DEF ClearAddress
<1> QED BY <1>1, <1>2, <1>3, FinishMoves, CreationMoves
        DEF Refuse, Authenticate, ClearName

\* The sessions to look at.
LEMMA ListMoves ==
  ASSUME Typed, NEW t \in Threads, ListSessions(t)
  PROVE  Moves(t)
<1> DEFINE listed == IF At(t, "list") THEN index[task[t].user] ELSE Scan
           r == [task[t] EXCEPT !.pc = "read", !.todo = listed]
<1>1. /\ task[t].route = "login" /\ task[t].user \in Users
      /\ task[t].pc \notin {"exists", "write"}
  BY TaskType DEF ListSessions, LoginSteps, Shape
<1>2. listed \in SUBSET Sessions
  BY <1>1 DEF Scan, Typed, TypeOK, StorageTypes
<1>3. task' = [task EXCEPT ![t] = Enforcing(r)]
  BY DEF ListSessions, Typed, TypeOK
<1> HIDE DEF listed
<1>4. r \in Tasks
  <2>1. "read" \in Steps
    BY DEF Steps
  <2> QED BY <1>2, <2>1, TaskType DEF Tasks
<1>5. /\ r.pc = "read" /\ r.route = task[t].route /\ r.back = task[t].back
      /\ r.user = task[t].user /\ r.from = task[t].from /\ r.cookie = task[t].cookie
      /\ r.session = task[t].session /\ r.copy = task[t].copy /\ r.found = task[t].found
      /\ r.now = task[t].now
  BY TaskType DEF Tasks
<1> HIDE DEF r
<1>6. Shape(r)
  BY <1>1, <1>5, TaskType DEF Shape, LoginSteps
<1>7. Hand(task[t], Enforcing(r))
  BY <1>4, <1>5, <1>6, EnforcingShape DEF Hand, Attempts
<1> QED BY <1>3, <1>4, <1>5, <1>6, <1>7, EnforcingShape DEF Moves

\* One of them is read.
LEMMA ReadMoves ==
  ASSUME Typed, NEW t \in Threads, NEW s \in Sessions, ReadSession(t, s)
  PROVE  Moves(t)
<1> DEFINE data == Get(s)
           active == IF InUse(data) /\ data.user = task[t].user
                     THEN {[session |-> s, last |-> data.last]} ELSE {}
           todo == task[t].todo \ {s}
           found == task[t].found \cup active
           r == [task[t] EXCEPT !.todo = @ \ {s}, !.found = @ \cup active]
<1>1. task[t].pc = "read" /\ task' = [task EXCEPT ![t] = Enforcing(r)]
  <2>1. task[t].pc = "read"
    BY DEF ReadSession, At
  <2>2. task' = [task EXCEPT ![t] = Enforcing(r)]
    BY DEF ReadSession
  <2> QED BY <2>1, <2>2
<1>2. found \in SUBSET [session : Sessions, last : Nat] /\ IsFiniteSet(found)
  <2>1. task[t].found \in SUBSET [session : Sessions, last : Nat] /\ IsFiniteSet(task[t].found)
    BY TaskType DEF Tasks, Shape
  <2>2. CASE active = {}
    BY <2>1, <2>2
  <2>3. CASE InUse(data)
    <3>1. data \in Records
      BY <2>3, GetType DEF InUse
    <3>2. [session |-> s, last |-> data.last] \in [session : Sessions, last : Nat]
      BY <3>1 DEF Records
    <3> QED BY <2>1, <2>2, <3>2, FS_AddElement
  <2> QED BY <2>2, <2>3
<1>3. todo \in SUBSET Sessions
  BY TaskType DEF Tasks
<1> HIDE DEF active
<1>4. r \in Tasks
  BY <1>2, <1>3, TaskType DEF Tasks
<1>5. /\ r.pc = task[t].pc /\ r.route = task[t].route /\ r.back = task[t].back
      /\ r.user = task[t].user /\ r.from = task[t].from /\ r.cookie = task[t].cookie
      /\ r.session = task[t].session /\ r.copy = task[t].copy /\ r.found = found
      /\ r.now = task[t].now
  BY TaskType DEF Tasks
<1> HIDE DEF r
<1>6. Shape(r)
  BY <1>2, <1>5, TaskType DEF Shape
<1>7. Hand(task[t], Enforcing(r))
  BY <1>1, <1>4, <1>5, <1>6, EnforcingShape DEF Hand, Attempts
<1> QED BY <1>1, <1>4, <1>5, <1>6, <1>7, EnforcingShape DEF Moves

\* One session less to end.
LEMMA WithoutShape ==
  ASSUME NEW r \in Tasks, Shape(r), r.excess > 0, NEW old
  PROVE  LET n == Without(r, old) IN
           /\ n \in Tasks /\ Shape(n) /\ n.now = r.now /\ n.session = r.session
           /\ n.copy = r.copy /\ n.pc = r.pc /\ n.route = r.route
<1> DEFINE found == r.found \ {old}
           excess == r.excess - 1
           new == [r EXCEPT !.found = found, !.excess = excess]
<1>1. found \in SUBSET [session : Sessions, last : Nat] /\ IsFiniteSet(found) /\ excess \in Nat
  BY FS_RemoveElement DEF Tasks, Shape
<1> HIDE DEF found, excess
<1>2. new \in Tasks
  BY <1>1 DEF Tasks
<1>3. /\ new.pc = r.pc /\ new.route = r.route /\ new.back = r.back
      /\ new.user = r.user /\ new.from = r.from /\ new.cookie = r.cookie
      /\ new.session = r.session /\ new.copy = r.copy /\ new.found = found
      /\ new.now = r.now
  BY DEF Tasks
<1>4. new = Without(r, old)
  BY DEF Without, found, excess
<1> HIDE DEF new
<1>5. Shape(new)
  BY <1>1, <1>3 DEF Shape
<1> QED BY <1>2, <1>3, <1>4, <1>5

\* The oldest of them is ended.
LEMMA EvictMoves ==
  ASSUME Typed, NEW t \in Threads, EvictOldest(t)
  PROVE  Moves(t)
<1> PICK old \in Oldest(task[t].found) :
      task' = [task EXCEPT ![t] = Ending(Without(task[t], old), old.session, "evict")]
  BY DEF EvictOldest, Typed, TypeOK
<1> DEFINE r == Without(task[t], old)
<1>1. /\ task[t].pc = "evict" /\ task[t].excess > 0 /\ task[t].route = "login" /\ UNCHANGED store
      /\ old.session \in Sessions
  BY TaskType DEF EvictOldest, At, Shape, Oldest, Tasks, LoginSteps, storageVars
<1>2. /\ r \in Tasks /\ Shape(r) /\ r.now = task[t].now /\ r.session = task[t].session
      /\ r.copy = task[t].copy /\ r.pc = "evict" /\ r.route = "login"
  BY <1>1, TaskType, WithoutShape
<1> HIDE DEF r
<1>3. LET n == Ending(r, old.session, "evict") IN n \in Tasks /\ Shape(n) /\ Hand(task[t], n)
  BY <1>1, <1>2, EndingShape
<1> QED BY <1>3 DEF Moves, r

\* A session is stored.
LEMMA CreateMoves ==
  ASSUME Typed, NEW t \in Threads, NEW s \in Sessions, CreateSession(t, s)
  PROVE  Moves(t)
<1> DEFINE new == [task[t] EXCEPT !.pc = "token", !.session = s, !.now = 0, !.found = {}]
<1>1. task' = [task EXCEPT ![t] = new]
  BY DEF CreateSession, Typed, TypeOK
<1>2. new \in Tasks
  <2>1. "token" \in Steps
    BY DEF Steps
  <2> QED BY <2>1, TaskType DEF Tasks
<1>3. /\ new.pc = "token" /\ new.route = task[t].route /\ new.back = task[t].back
      /\ new.user = task[t].user /\ new.from = task[t].from /\ new.cookie = task[t].cookie
      /\ new.session = s /\ new.copy = task[t].copy /\ new.found = {}
      /\ new.now = 0
  BY TaskType DEF Tasks
<1> HIDE DEF new
<1>4. Shape(new)
  <2>1. task[t].pc = "evict"
    BY DEF CreateSession, At
  <2> QED BY <1>3, <2>1, TaskType, FS_EmptySet DEF Shape, LoginSteps
<1>5. store'[s] # None
  <2>1. task[t].user \in Users /\ task[t].now \in Nat
    BY TaskType DEF CreateSession, At, Shape, LoginSteps, Tasks
  <2> DEFINE data == [user |-> task[t].user, active |-> TRUE, last |-> task[t].now]
  <2>2. data \in Records
    BY <2>1 DEF Records
  <2> HIDE DEF data
  <2>3. store'[s] = [data |-> data, until |-> clock + Timeout]
    BY DEF CreateSession, Create, Set, data, Typed, TypeOK, StorageTypes
  <2>4. store'[s] \in Keys
    BY <2>2, <2>3, TaskType, TimeoutAssumption DEF Keys
  <2> QED BY <2>4, NoRecordAssumption
<1>6. new.copy = None
  BY <1>3, TaskType DEF Shape, CreateSession, At
<1>7. Hand(task[t], new)
  BY <1>3, <1>5, <1>6 DEF Hand, Attempts
<1> QED BY <1>1, <1>2, <1>4, <1>7 DEF Moves

\* The steps of the sweep of expired sessions.
LEMMA StartMoves ==
  ASSUME Typed, NEW t \in Threads, StartCleanup(t)
  PROVE  Moves(t)
<1> DEFINE new == [task[t] EXCEPT !.pc = "sweep", !.todo = Scan]
<1>1. task[t].pc = "cleanup" /\ task' = [task EXCEPT ![t] = new]
  BY DEF StartCleanup, At, Typed, TypeOK
<1>2. new \in Tasks
  <2>1. "sweep" \in Steps /\ Scan \in SUBSET Sessions
    BY DEF Steps, Scan
  <2> QED BY <2>1, TaskType DEF Tasks
<1>3. /\ new.pc = "sweep" /\ new.route = task[t].route /\ new.back = task[t].back
      /\ new.user = task[t].user /\ new.from = task[t].from /\ new.cookie = task[t].cookie
      /\ new.session = task[t].session /\ new.copy = task[t].copy /\ new.found = task[t].found
      /\ new.now = task[t].now
  BY TaskType DEF Tasks
<1> HIDE DEF new
<1>4. Shape(new)
  BY <1>1, <1>3, TaskType DEF Shape, LoginSteps
<1>5. Hand(task[t], new)
  BY <1>1, <1>3, TaskType DEF Hand, Attempts, Shape
<1> QED BY <1>1, <1>2, <1>4, <1>5 DEF Moves

\* The loop of the sweep.
LEMMA SweepMoves ==
  ASSUME Typed, NEW t \in Threads, NEW s \in Sessions, SweepSession(t, s)
  PROVE  Moves(t)
<1> DEFINE r == [task[t] EXCEPT !.todo = @ \ {s}]
<1>1. task[t].pc = "sweep" /\ UNCHANGED store
  BY DEF SweepSession, At, storageVars
<1>2. r \in Tasks
  BY TaskType DEF Tasks
<1>3. /\ r.pc = task[t].pc /\ r.route = task[t].route /\ r.back = task[t].back
      /\ r.user = task[t].user /\ r.from = task[t].from /\ r.cookie = task[t].cookie
      /\ r.session = task[t].session /\ r.copy = task[t].copy /\ r.found = task[t].found
      /\ r.now = task[t].now
  BY TaskType DEF Tasks
<1>4. \/ task' = [task EXCEPT ![t] = Ending(r, s, "sweep")]
      \/ task' = [task EXCEPT ![t] = r]
  BY DEF SweepSession, Typed, TypeOK
<1> HIDE DEF r
<1>5. Shape(r) /\ r.route \in {"visit", "logout", "refresh"}
  BY <1>1, <1>3, TaskType DEF Shape
<1>6. Hand(task[t], r)
  BY <1>1, <1>3, TaskType DEF Hand, Attempts, Shape
<1>7. LET n == Ending(r, s, "sweep") IN n \in Tasks /\ Shape(n) /\ Hand(task[t], n)
  BY <1>1, <1>2, <1>3, <1>5, EndingShape
<1> QED BY <1>2, <1>4, <1>5, <1>6, <1>7 DEF Moves

\* The end of the sweep.
LEMMA EndMoves ==
  ASSUME Typed, NEW t \in Threads, EndCleanup(t)
  PROVE  Moves(t)
<1> DEFINE new == [task[t] EXCEPT !.pc = "validate", !.now = 0]
<1>1. task[t].pc = "sweep" /\ task' = [task EXCEPT ![t] = new]
  BY DEF EndCleanup, At, Typed, TypeOK
<1>2. new \in Tasks
  <2>1. "validate" \in Steps
    BY DEF Steps
  <2> QED BY <2>1, TaskType DEF Tasks
<1>3. /\ new.pc = "validate" /\ new.route = task[t].route /\ new.back = task[t].back
      /\ new.user = task[t].user /\ new.from = task[t].from /\ new.cookie = task[t].cookie
      /\ new.session = task[t].session /\ new.copy = task[t].copy /\ new.found = task[t].found
      /\ new.now = 0
  BY TaskType DEF Tasks
<1> HIDE DEF new
<1>4. Shape(new)
  BY <1>1, <1>3, TaskType DEF Shape, LoginSteps
<1>5. Hand(task[t], new)
  BY <1>1, <1>3, TaskType DEF Hand, Attempts, Shape
<1> QED BY <1>1, <1>2, <1>4, <1>5 DEF Moves

\* Another step, for a session.
LEMMA HandTypes ==
  ASSUME NEW r \in Tasks, NEW step \in Steps, NEW s \in Sessions, NEW back \in Steps,
         NEW copy \in Records
  PROVE  /\ [r EXCEPT !.pc = step, !.session = s] \in Tasks
         /\ [r EXCEPT !.pc = step, !.session = s, !.back = back, !.copy = copy] \in Tasks
BY DEF Tasks

\* A session is refused for its age, or marked as in use now.
LEMMA ValidateMoves ==
  ASSUME Typed, NEW t \in Threads, Validate(t)
  PROVE  Moves(t)
<1> DEFINE s == task[t].cookie
           copy == [Get(s) EXCEPT !.last = clock]
           back == AfterValidation[task[t].route]
           old == [task[t] EXCEPT !.pc = "terminate", !.session = s]
           new == [task[t] EXCEPT !.pc = "exists", !.session = s, !.back = back, !.copy = copy]
<1>1. /\ task[t].pc = "validate" /\ InUse(Get(s)) /\ UNCHANGED store
      /\ task' = [task EXCEPT ![t] = old] \/ task' = [task EXCEPT ![t] = new]
  BY DEF Validate, Accept, At, Typed, TypeOK, storageVars
<1>2. /\ s \in Sessions /\ task[t].route \in {"visit", "logout", "refresh"}
      /\ task[t].copy = None
  BY <1>1, TaskType DEF Shape
<1>3. store[s] # None /\ Get(s) # None /\ copy \in Records
  <2>1. Get(s) # None
    BY <1>1 DEF InUse
  <2>2. Get(s) \in Records /\ store[s] # None
    BY <1>2, <2>1, GetType
  <2> QED BY <2>1, <2>2, TaskType DEF Records
<1>4. back \in {"done", "terminate", "token"}
  BY <1>2 DEF AfterValidation
<1>5. ASSUME task' = [task EXCEPT ![t] = old] PROVE Moves(t)
  <2>1. old \in Tasks
    <3>1. "terminate" \in Steps
      BY DEF Steps
    <3> HIDE DEF s
    <3> QED BY <1>2, <1>3, <3>1, TaskType, HandTypes
  <2>2. /\ old.pc = "terminate" /\ old.route = task[t].route /\ old.back = task[t].back
        /\ old.user = task[t].user /\ old.from = task[t].from /\ old.cookie = s
        /\ old.session = s /\ old.copy = None /\ old.found = task[t].found
        /\ old.now = task[t].now
    BY <1>2, TaskType DEF Tasks
  <2> HIDE DEF old
  <2>3. Shape(old)
    BY <1>1, <1>2, <2>2, TaskType DEF Shape, LoginSteps
  <2>4. Hand(task[t], old)
    BY <1>1, <1>3, <2>2 DEF Hand, Attempts
  <2> QED BY <1>5, <2>1, <2>3, <2>4 DEF Moves
<1>6. ASSUME task' = [task EXCEPT ![t] = new] PROVE Moves(t)
  <2> HIDE DEF copy, back
  <2>1. new \in Tasks
    <3>1. "exists" \in Steps /\ back \in Steps
      BY <1>4 DEF Steps
    <3> HIDE DEF s
    <3> QED BY <1>2, <1>3, <3>1, TaskType, HandTypes
  <2>2. /\ new.pc = "exists" /\ new.route = task[t].route /\ new.back = back
        /\ new.user = task[t].user /\ new.from = task[t].from /\ new.cookie = s
        /\ new.session = s /\ new.copy = copy /\ new.found = task[t].found
        /\ new.now = task[t].now
    BY TaskType DEF Tasks
  <2> HIDE DEF new
  <2>3. Shape(new)
    BY <1>2, <1>3, <1>4, <2>2, TaskType DEF Shape, LoginSteps
  <2>4. Copied(new)
    BY <1>1, <1>2, <1>3, <2>2 DEF Copied, copy
  <2>5. Hand(task[t], new)
    BY <1>1, <1>3, <2>2, <2>4 DEF Hand, Attempts
  <2> QED BY <1>6, <2>1, <2>3, <2>5 DEF Moves
<1> QED BY <1>1, <1>5, <1>6

\* An update is over.
LEMMA ReturnMoves ==
  ASSUME Typed, NEW t \in Threads, Updating(t), Return(t, task[t].back)
  PROVE  Moves(t)
<1> DEFINE back == task[t].back
           new == [task[t] EXCEPT !.pc = back, !.back = "done", !.copy = None]
<1>1. /\ back \in {"done", "evict", "sweep", "terminate", "token"}
      /\ task[t].session \in Sessions
      /\ back = "evict" => task[t].route = "login"
      /\ back = "sweep" => task[t].route \in {"visit", "logout", "refresh"}
  BY TaskType DEF Shape, Updating
<1>2. CASE back = "done"
  BY <1>2, FinishMoves DEF Return
<1>3. CASE back # "done"
  <2>1. task' = [task EXCEPT ![t] = new]
    BY <1>3 DEF Return, Typed, TypeOK
  <2>2. new \in Tasks
    <3>1. back \in Steps /\ "done" \in Steps
      BY <1>1 DEF Steps
    <3> HIDE DEF back
    <3> QED BY <3>1, TaskType DEF Tasks
  <2>3. /\ new.pc = back /\ new.route = task[t].route /\ new.back = "done"
        /\ new.user = task[t].user /\ new.from = task[t].from /\ new.cookie = task[t].cookie
        /\ new.session = task[t].session /\ new.copy = None /\ new.found = task[t].found
        /\ new.now = task[t].now
    BY TaskType DEF Tasks
  <2> HIDE DEF new, back
  <2>4. Shape(new)
    BY <1>1, <1>3, <2>3, TaskType DEF Shape, LoginSteps
  <2>5. Hand(task[t], new)
    BY <1>1, <1>3, <2>3 DEF Hand, Attempts
  <2> QED BY <2>1, <2>2, <2>4, <2>5 DEF Moves
<1> QED BY <1>2, <1>3

\* A termination, and the update it shares with the others.
LEMMA UpdateMoves ==
  ASSUME Typed, NEW t \in Threads, Terminate(t) \/ CheckExists(t) \/ WriteCopy(t)
  PROVE  Moves(t)
<1>1. CASE Terminate(t)
  <2>1. task[t].pc = "terminate" /\ task[t].session \in Sessions /\ UNCHANGED store
    BY <1>1, TaskType DEF Terminate, At, Shape, storageVars
  <2>2. LET n == Ending(task[t], task[t].session, "done")
        IN n \in Tasks /\ Shape(n) /\ Hand(task[t], n)
    BY <2>1, TaskType, EndingShape
  <2>3. Finish(t) \/ task' = [task EXCEPT ![t] = Ending(task[t], task[t].session, "done")]
    BY <1>1 DEF Terminate, Typed, TypeOK
  <2> QED BY <2>2, <2>3, FinishMoves DEF Moves
<1>2. CASE CheckExists(t)
  <2>1. Updating(t) /\ task[t].session \in Sessions
    BY <1>2, TaskType DEF CheckExists, At, Updating, Shape
  <2>2. CASE Goto(t, "write")
    BY <2>1, <2>2, GotoMoves DEF Steps, LoginSteps
  <2> QED BY <1>2, <2>1, <2>2, ReturnMoves DEF CheckExists
<1>3. CASE WriteCopy(t)
  BY <1>3, ReturnMoves DEF WriteCopy, At, Updating
<1> QED BY <1>1, <1>2, <1>3

\* A command fails and the handler goes on.
LEMMA FailOverMoves ==
  ASSUME Typed, NEW t \in Threads, FailOver(t)
  PROVE  Moves(t)
<1> DEFINE step == OnFailure[task[t].pc]
           allowed == task[t].allowed \/ (At(t, "count_name") /\ ~FailOpen)
           now == IF At(t, "clear_name") THEN clock ELSE task[t].now
           new == [task[t] EXCEPT !.pc = step, !.allowed = allowed, !.now = now, !.alone = FALSE]
<1>1. task[t].pc \in DOMAIN OnFailure /\ task' = [task EXCEPT ![t] = new]
  BY DEF FailOver, Typed, TypeOK
<1>2. /\ task[t].pc \in {"count_ip", "count_name", "clear_ip", "clear_name", "list",
                         "list_by_scan", "cleanup"}
      /\ task[t].copy = None
  BY <1>1, TaskType DEF OnFailure, Shape
<1>3. /\ step \in {"count_name", "password", "clear_name", "list", "list_by_scan",
                   "evict", "validate"}
      /\ step = "validate" <=> task[t].pc = "cleanup"
      /\ step = "count_name" => task[t].pc = "count_ip"
      /\ step = "clear_name" => task[t].pc = "clear_ip"
      /\ step \in {"count_name", "password"} => task[t].pc \in {"count_ip", "count_name"}
  BY <1>2 DEF OnFailure
<1>4. allowed \in BOOLEAN /\ now \in Nat
  <2>1. task[t].allowed \in BOOLEAN /\ task[t].now \in Nat /\ clock \in Nat
    BY TaskType DEF Tasks
  <2> QED BY <2>1
<1>5. now \in {0, task[t].now, clock}
  OBVIOUS
<1> HIDE DEF step, allowed, now
<1>6. new \in Tasks
  <2>1. step \in Steps
    BY <1>3 DEF Steps
  <2> QED BY <1>4, <2>1, TaskType DEF Tasks
<1>7. /\ new.pc = step /\ new.route = task[t].route /\ new.back = task[t].back
      /\ new.user = task[t].user /\ new.from = task[t].from /\ new.cookie = task[t].cookie
      /\ new.session = task[t].session /\ new.copy = None /\ new.found = task[t].found
      /\ new.now = now
  BY <1>2, TaskType DEF Tasks
<1> HIDE DEF new
<1>8. Shape(new)
  <2>1. step # "validate" => task[t].route = "login"
    BY <1>2, <1>3, TaskType DEF Shape, LoginSteps
  <2>2. step = "validate" => task[t].route \in {"visit", "logout", "refresh"}
    BY <1>2, <1>3, TaskType DEF Shape
  <2>3. step \in {"count_name", "clear_name"} => Limited
    BY <1>3, TaskType DEF Shape
  <2> QED BY <1>3, <1>7, <2>1, <2>2, <2>3, TaskType DEF Shape, LoginSteps
<1>9. Hand(task[t], new)
  BY <1>3, <1>5, <1>7 DEF Hand, Attempts
<1> QED BY <1>1, <1>6, <1>8, <1>9 DEF Moves

\* A loop goes on without a session.
LEMMA SkipMoves ==
  ASSUME Typed, NEW t \in Threads, SkipSession(t)
  PROVE  Moves(t)
<1> PICK s \in task[t].todo :
      LET rest == [task[t] EXCEPT !.todo = @ \ {s}, !.alone = FALSE]
      IN task' = [task EXCEPT ![t] = IF At(t, "read") THEN Enforcing(rest) ELSE rest]
  BY DEF SkipSession
<1> DEFINE r == [task[t] EXCEPT !.todo = @ \ {s}, !.alone = FALSE]
<1>1. /\ task[t].pc \in {"read", "sweep"}
      /\ task' = [task EXCEPT ![t] = IF task[t].pc = "read" THEN Enforcing(r) ELSE r]
  BY DEF SkipSession, At
<1>2. r \in Tasks
  BY TaskType DEF Tasks
<1>3. /\ r.pc = task[t].pc /\ r.route = task[t].route /\ r.back = task[t].back
      /\ r.user = task[t].user /\ r.from = task[t].from /\ r.cookie = task[t].cookie
      /\ r.session = task[t].session /\ r.copy = task[t].copy /\ r.found = task[t].found
      /\ r.now = task[t].now
  BY TaskType DEF Tasks
<1> HIDE DEF r
<1>4. Shape(r) /\ r.copy = None
  BY <1>1, <1>3, TaskType DEF Shape
<1>5. Hand(task[t], r)
  BY <1>1, <1>3, <1>4 DEF Hand, Attempts
<1>6. CASE task[t].pc = "read"
  <2>1. Hand(task[t], Enforcing(r))
    BY <1>2, <1>3, <1>4, <1>6, EnforcingShape DEF Hand, Attempts
  <2> QED BY <1>1, <1>2, <1>3, <1>4, <1>6, <2>1, EnforcingShape DEF Moves
<1> QED BY <1>1, <1>2, <1>4, <1>5, <1>6 DEF Moves

\* A session is not ended, and the request goes on.
LEMMA GiveUpMoves ==
  ASSUME Typed, NEW t \in Threads, GiveUpEnding(t)
  PROVE  Moves(t)
<1>1. CASE Finish(t)
  BY <1>1, FinishMoves
<1>2. ASSUME At(t, "evict"), task[t].excess > 0, NEW old,
             task' = [task EXCEPT ![t] = [Without(task[t], old) EXCEPT !.alone = FALSE]]
      PROVE  Moves(t)
  <2> DEFINE r == Without(task[t], old)
             new == [r EXCEPT !.alone = FALSE]
  <2>1. /\ r \in Tasks /\ Shape(r) /\ r.now = task[t].now /\ r.session = task[t].session
        /\ r.copy = task[t].copy /\ r.pc = "evict"
    BY <1>2, TaskType, WithoutShape DEF At
  <2> HIDE DEF r
  <2>2. new \in Tasks
    BY <2>1 DEF Tasks
  <2>3. /\ new.pc = r.pc /\ new.route = r.route /\ new.back = r.back
        /\ new.user = r.user /\ new.from = r.from /\ new.cookie = r.cookie
        /\ new.session = r.session /\ new.copy = r.copy /\ new.found = r.found
        /\ new.now = r.now
    BY <2>1 DEF Tasks
  <2>4. task' = [task EXCEPT ![t] = new]
    BY <1>2 DEF r
  <2> HIDE DEF new
  <2>5. Shape(new) /\ new.copy = None
    BY <2>1, <2>3 DEF Shape
  <2>6. Hand(task[t], new)
    BY <2>1, <2>3, <2>5 DEF Hand, Attempts
  <2> QED BY <2>2, <2>4, <2>5, <2>6 DEF Moves
<1>3. ASSUME Updating(t), task[t].back # "done",
             task' = [task EXCEPT ![t].pc = task[t].back, ![t].back = "done",
                                  ![t].copy = None, ![t].alone = FALSE]
      PROVE  Moves(t)
  <2> DEFINE back == task[t].back
             new == [task[t] EXCEPT !.pc = back, !.back = "done", !.copy = None, !.alone = FALSE]
  <2>1. /\ back \in {"evict", "sweep", "terminate", "token"}
        /\ task[t].session \in Sessions
        /\ back = "evict" => task[t].route = "login"
        /\ back = "sweep" => task[t].route \in {"visit", "logout", "refresh"}
    BY <1>3, TaskType DEF Shape, Updating
  <2>2. task' = [task EXCEPT ![t] = new]
    BY <1>3 DEF Typed, TypeOK
  <2>3. new \in Tasks
    <3>1. back \in Steps /\ "done" \in Steps
      BY <2>1 DEF Steps
    <3> HIDE DEF back
    <3> QED BY <3>1, TaskType DEF Tasks
  <2>4. /\ new.pc = back /\ new.route = task[t].route /\ new.back = "done"
        /\ new.user = task[t].user /\ new.from = task[t].from /\ new.cookie = task[t].cookie
        /\ new.session = task[t].session /\ new.copy = None /\ new.found = task[t].found
        /\ new.now = task[t].now
    BY TaskType DEF Tasks
  <2> HIDE DEF new, back
  <2>5. Shape(new)
    BY <2>1, <2>4, TaskType DEF Shape, LoginSteps
  <2>6. Hand(task[t], new)
    BY <2>1, <2>4 DEF Hand, Attempts
  <2> QED BY <2>2, <2>3, <2>5, <2>6 DEF Moves
<1>4. CASE At(t, "terminate") /\ Finish(t)
  BY <1>1, <1>4
<1>5. CASE /\ At(t, "evict") /\ task[t].excess > 0
           /\ \E old \in Oldest(task[t].found) :
                task' = [task EXCEPT ![t] = [Without(@, old) EXCEPT !.alone = FALSE]]
  <2>1. PICK old \in Oldest(task[t].found) :
          task' = [task EXCEPT ![t] = [Without(task[t], old) EXCEPT !.alone = FALSE]]
    BY <1>5 DEF Typed, TypeOK
  <2> QED BY <1>2, <1>5, <2>1
<1>6. CASE Updating(t) /\ IF task[t].back = "done" THEN Finish(t)
             ELSE task' = [task EXCEPT ![t].pc = task[t].back, ![t].back = "done",
                                       ![t].copy = None, ![t].alone = FALSE]
  BY <1>1, <1>3, <1>6
<1> QED BY <1>4, <1>5, <1>6 DEF GiveUpEnding

\* What one step makes of every request.
Onward ==
  /\ task' \in [Threads -> Tasks]
  /\ \A t \in Threads : Shape(task'[t]) /\ Hand(task[t], task'[t])

\* A step of one request, seen from all of them.
LEMMA MovesOnward ==
  ASSUME Typed, NEW t \in Threads, Moves(t)
  PROVE  Onward
<1> PICK new \in Tasks : task' = [task EXCEPT ![t] = new] /\ Shape(new) /\ Hand(task[t], new)
  BY DEF Moves
<1>1. task' \in [Threads -> Tasks]
  BY DEF Typed, TypeOK
<1>2. ASSUME NEW v \in Threads PROVE Shape(task'[v]) /\ Hand(task[v], task'[v])
  <2>1. CASE v = t
    BY <2>1 DEF Typed, TypeOK
  <2>2. CASE v # t
    <3>1. task'[v] = task[v]
      BY <2>2 DEF Typed, TypeOK
    <3> QED BY <3>1, TaskType DEF Hand, Attempts
  <2> QED BY <2>1, <2>2
<1> QED BY <1>1, <1>2 DEF Onward

\* A request arrives: the others only lose the mark of being alone.
LEMMA BeginOnward ==
  ASSUME Typed, NEW t \in Threads, NEW new \in Tasks, Shape(new), Begin(t, new),
         new.session = None, new.copy = None, new.now \in {0, clock},
         new.pc # "count_name", new.pc = "password" => ~Limited
  PROVE  Onward
<1> DEFINE alone == new.route = "login" /\ \A v \in Threads : Idle(v)
           mine == [new EXCEPT !.alone = alone]
           other(v) == [task[v] EXCEPT !.alone = FALSE]
<1>1. task' = [u \in Threads |-> IF u = t THEN mine ELSE other(u)]
  BY DEF Begin
<1>2. mine \in Tasks /\ Shape(mine) /\ Hand(task[t], mine)
  <2>1. alone \in BOOLEAN
    OBVIOUS
  <2> HIDE DEF alone
  <2>2. mine \in Tasks
    BY <2>1 DEF Tasks
  <2>3. /\ mine.pc = new.pc /\ mine.route = new.route /\ mine.back = new.back
        /\ mine.user = new.user /\ mine.from = new.from /\ mine.cookie = new.cookie
        /\ mine.session = new.session /\ mine.copy = new.copy /\ mine.found = new.found
        /\ mine.now = new.now
    BY DEF Tasks
  <2> HIDE DEF mine
  <2>4. Shape(mine)
    BY <2>3 DEF Shape
  <2> QED BY <2>2, <2>3, <2>4 DEF Hand, Attempts
<1> HIDE DEF mine
<1>3. ASSUME NEW v \in Threads
      PROVE  other(v) \in Tasks /\ Shape(other(v)) /\ Hand(task[v], other(v))
  <2> DEFINE r == other(v)
  <2>1. r \in Tasks
    BY TaskType DEF Tasks
  <2>2. /\ r.pc = task[v].pc /\ r.route = task[v].route /\ r.back = task[v].back
        /\ r.user = task[v].user /\ r.from = task[v].from /\ r.cookie = task[v].cookie
        /\ r.session = task[v].session /\ r.copy = task[v].copy /\ r.found = task[v].found
        /\ r.now = task[v].now /\ r.allowed = task[v].allowed
    BY TaskType DEF Tasks
  <2> HIDE DEF r
  <2>3. Shape(r)
    BY <2>2, TaskType DEF Shape
  <2>4. Hand(task[v], r)
    BY <2>2, <2>3 DEF Hand, Attempts
  <2> QED BY <2>1, <2>3, <2>4 DEF r
<1> HIDE DEF other
<1> QED BY <1>1, <1>2, <1>3 DEF Onward

\* The three kinds of request that arrive.
LEMMA LoginOnward ==
  ASSUME Typed, NEW t \in Threads, NEW u \in Users, NEW a \in Addresses, Login(t, u, a)
  PROVE  Onward
<1> DEFINE step == IF Limited THEN "count_ip" ELSE "password"
           new == [NoTask EXCEPT !.route = "login", !.user = u, !.from = a, !.pc = step]
<1>1. step \in {"count_ip", "password"} /\ (step = "count_ip" <=> Limited)
  OBVIOUS
<1>2. Begin(t, new)
  BY DEF Login
<1> HIDE DEF step
<1>3. new \in Tasks
  BY <1>1 DEF NoTask, Tasks, Steps
<1>4. /\ new.pc = step /\ new.route = "login" /\ new.back = "done"
      /\ new.user = u /\ new.from = a /\ new.session = None
      /\ new.copy = None /\ new.found = {} /\ new.now = 0
  BY DEF NoTask
<1> HIDE DEF new
<1>5. Shape(new)
  BY <1>1, <1>4, FS_EmptySet DEF Shape, LoginSteps
<1>6. new.pc # "count_name" /\ (new.pc = "password" => ~Limited)
  BY <1>1, <1>4
<1> QED BY <1>2, <1>3, <1>4, <1>5, <1>6, BeginOnward

\* The other requests: a visit, a logout, a refresh.
LEMMA CookieOnward ==
  ASSUME Typed, NEW t \in Threads, NEW s \in Sessions, Visit(t, s) \/ LogoutOrRefresh(t, s)
  PROVE  Onward
<1> DEFINE from(route) == [NoTask EXCEPT !.route = route, !.cookie = s, !.pc = "validate"]
           late == [from("visit") EXCEPT !.pc = "cleanup", !.now = clock]
           Good(new) == /\ new \in Tasks /\ new.pc \in {"validate", "cleanup"}
                        /\ new.route \in {"visit", "logout", "refresh"} /\ new.back = "done"
                        /\ new.cookie = s /\ new.session = None /\ new.copy = None
                        /\ new.found = {} /\ new.now \in {0, clock}
<1>1. ASSUME NEW route \in {"visit", "logout", "refresh"} PROVE Good(from(route))
  BY DEF NoTask, Tasks, Steps
<1>2. Good(late)
  BY TaskType DEF NoTask, Tasks, Steps
<1>3. ASSUME NEW new, Good(new), Begin(t, new) PROVE Onward
  <2>1. Shape(new)
    BY <1>3, FS_EmptySet DEF Shape, LoginSteps
  <2> QED BY <1>3, <2>1, BeginOnward
<1>4. CASE Visit(t, s)
  <2>1. Begin(t, from("visit")) \/ Begin(t, late)
    BY <1>4 DEF Visit
  <2> HIDE DEF Good, from, late
  <2> QED BY <1>1, <1>2, <1>3, <2>1
<1>5. CASE LogoutOrRefresh(t, s)
  <2>1. \E route \in {"logout", "refresh"} : Begin(t, from(route))
    BY <1>5 DEF LogoutOrRefresh
  <2> HIDE DEF Good, from
  <2> QED BY <1>1, <1>3, <2>1
<1> QED BY <1>4, <1>5

\* Every step.
LEMMA NextOnward ==
  ASSUME Typed, [Next]_vars
  PROVE  Onward
<1>1. ASSUME UNCHANGED task PROVE Onward
  BY <1>1, TaskType DEF Typed, TypeOK, Onward, Hand, Attempts
<1>2. ASSUME NEW t \in Threads, LoginStep(t) PROVE Moves(t)
  BY <1>2, CountMoves, PasswordMoves, ListMoves, ReadMoves, EvictMoves, CreateMoves, FinishMoves
     DEF LoginStep, IssueToken
<1>3. ASSUME NEW t \in Threads, CookieStep(t) PROVE Moves(t)
  BY <1>3, StartMoves, SweepMoves, EndMoves, ValidateMoves, UpdateMoves, FinishMoves
     DEF CookieStep, Reject
<1>4. ASSUME NEW t \in Threads, Fail(t) PROVE Moves(t)
  BY <1>4, FailOverMoves, SkipMoves, GiveUpMoves, FinishMoves DEF Fail, Abort
<1>5. Known \subseteq Sessions
  BY DEF Known
<1>6. CASE TimePasses \/ (\E c \in Counters : WindowEnds(c)) \/ UNCHANGED vars
  BY <1>1, <1>6 DEF TimePasses, WindowEnds, vars
<1> QED BY <1>2, <1>3, <1>4, <1>5, <1>6, MovesOnward, LoginOnward, CookieOnward DEF Next

------------------------------------------------------------------------
(* What one step makes of the storage.                                    *)

\* A session is created, an update is written, a token is issued or none of them.
Creates == \E t \in Threads, s \in Sessions : CreateSession(t, s)
Writes == \E t \in Threads : WriteCopy(t)
Issues == \E t \in Threads : IssueToken(t)

\* No other step touches the storage.
LEMMA StorageSteps ==
  ASSUME Typed, [Next]_vars
  PROVE  \/ UNCHANGED <<store, index, tokens>> /\ clock' \in {clock, clock + 1}
         \/ Creates \/ Writes \/ Issues
<1>1. CASE UNCHANGED storageVars
  BY <1>1 DEF storageVars
<1>2. CASE TimePasses
  BY <1>2 DEF TimePasses, Tick
<1>3. ASSUME NEW t \in Threads, LoginStep(t)
      PROVE  UNCHANGED storageVars \/ Creates \/ Issues
  BY <1>3 DEF LoginStep, CountAddress, CountName, CountStep, Refuse, Authenticate, ClearAddress,
              ClearName, ListSessions, ReadSession, EvictOldest, Creates, Issues
<1>4. ASSUME NEW t \in Threads, CookieStep(t)
      PROVE  UNCHANGED storageVars \/ Writes
  BY <1>4 DEF CookieStep, StartCleanup, SweepSession, EndCleanup, Reject, Validate, Terminate,
              CheckExists, Writes
<1>5. ASSUME NEW t \in Threads, Fail(t)
      PROVE  UNCHANGED storageVars
  BY <1>5 DEF Fail
<1>6. ASSUME NEW t \in Threads, NEW u, NEW a, Login(t, u, a)
      PROVE  UNCHANGED storageVars
  BY <1>6 DEF Login, Begin
<1>7. ASSUME NEW t \in Threads, NEW s, Visit(t, s) \/ LogoutOrRefresh(t, s)
      PROVE  UNCHANGED storageVars
  BY <1>7 DEF Visit, LogoutOrRefresh, Begin
<1>8. ASSUME NEW c, WindowEnds(c)
      PROVE  UNCHANGED storageVars
  BY <1>8 DEF WindowEnds
<1>9. CASE UNCHANGED vars
  BY <1>1, <1>9 DEF vars
<1> QED BY <1>1, <1>2, <1>3, <1>4, <1>5, <1>6, <1>7, <1>8, <1>9 DEF Next

\* A creation.
LEMMA CreateStores ==
  ASSUME Typed, NEW t \in Threads, NEW s \in Sessions, CreateSession(t, s)
  PROVE  /\ task[t].user \in Users /\ task[t].now \in Nat
         /\ \A u \in Users : s \notin index[u]
         /\ clock' = clock /\ tokens' = tokens
         /\ \E key \in Keys :
              /\ store' = [store EXCEPT ![s] = key]
              /\ key.data.last = task[t].now /\ key.until = clock + Timeout
              /\ key.data.user = task[t].user
         /\ index' = [index EXCEPT ![task[t].user] = @ \cup {s}]
<1>1. task[t].user \in Users /\ task[t].now \in Nat
  BY TaskType DEF CreateSession, At, Shape, LoginSteps, Tasks
<1> DEFINE data == [user |-> task[t].user, active |-> TRUE, last |-> task[t].now]
           key == [data |-> data, until |-> clock + Timeout]
<1>2. data \in Records /\ data.last = task[t].now /\ data.user = task[t].user
  BY <1>1 DEF Records
<1>3. Create(s, data)
  BY DEF CreateSession
<1> HIDE DEF data
<1>4. key \in Keys /\ key.data = data /\ key.until = clock + Timeout
  BY <1>2, TaskType, TimeoutAssumption DEF Keys
<1>5. store' = [store EXCEPT ![s] = key] /\ index' = [index EXCEPT ![task[t].user] = @ \cup {s}]
  BY <1>2, <1>3 DEF Create, Set
<1> HIDE DEF key
<1> QED BY <1>1, <1>2, <1>4, <1>5 DEF CreateSession

\* An update.
LEMMA WriteStores ==
  ASSUME Typed, NEW t \in Threads, WriteCopy(t)
  PROVE  /\ task[t].session \in Sessions /\ task[t].copy \in Records /\ Updating(t)
         /\ UNCHANGED <<clock, index, tokens>>
         /\ \E key \in Keys :
              /\ store' = [store EXCEPT ![task[t].session] = key]
              /\ key.data = task[t].copy /\ key.until = clock + Timeout
<1>1. task[t].session \in Sessions /\ task[t].copy \in Records /\ Updating(t)
  BY TaskType DEF WriteCopy, At, Shape, Updating
<1> DEFINE key == [data |-> task[t].copy, until |-> clock + Timeout]
<1>2. key \in Keys
  BY <1>1, TaskType, TimeoutAssumption DEF Keys
<1>3. store' = [store EXCEPT ![task[t].session] = key]
  BY DEF WriteCopy, Set
<1> QED BY <1>1, <1>2, <1>3 DEF WriteCopy

\* A token.
LEMMA IssueStores ==
  ASSUME Typed, NEW t \in Threads, IssueToken(t)
  PROVE  /\ task[t].session \in Sessions /\ UNCHANGED <<clock, store, index>>
         /\ tokens' = [tokens EXCEPT ![task[t].session] = clock + Timeout]
BY TaskType DEF IssueToken, At, Shape, CreateToken

\* The storage keeps its types.
LEMMA StorageTyped ==
  ASSUME Typed, [Next]_vars
  PROVE  StorageTypes'
<1>1. StorageTypes /\ clock + Timeout \in Nat /\ clock + 1 \in Nat
  BY TimeoutAssumption DEF Typed, TypeOK, StorageTypes
<1>2. CASE UNCHANGED <<store, index, tokens>> /\ clock' \in {clock, clock + 1}
  BY <1>1, <1>2 DEF StorageTypes
<1>3. ASSUME NEW t \in Threads, NEW s \in Sessions, CreateSession(t, s) PROVE StorageTypes'
  <2>1. store' \in [Sessions -> Keys \cup {None}]
    BY <1>1, <1>3, CreateStores DEF StorageTypes
  <2>2. index' \in [Users -> SUBSET Sessions]
    BY <1>1, <1>3, CreateStores DEF StorageTypes
  <2> QED BY <1>1, <1>3, <2>1, <2>2, CreateStores DEF StorageTypes
<1>4. ASSUME NEW t \in Threads, WriteCopy(t) PROVE StorageTypes'
  <2>1. store' \in [Sessions -> Keys \cup {None}]
    BY <1>1, <1>4, WriteStores DEF StorageTypes
  <2> QED BY <1>1, <1>4, <2>1, WriteStores DEF StorageTypes
<1>5. ASSUME NEW t \in Threads, IssueToken(t) PROVE StorageTypes'
  <2>1. tokens' \in [Sessions -> Nat]
    BY <1>1, <1>5, IssueStores DEF StorageTypes
  <2> QED BY <1>1, <1>5, <2>1, IssueStores DEF StorageTypes
<1> QED BY <1>2, <1>3, <1>4, <1>5, StorageSteps DEF Creates, Writes, Issues

\* The counters of attempts keep theirs.
LEMMA ThrottleTyped ==
  ASSUME Typed, [Next]_vars
  PROVE  ThrottleTypes'
<1>1. ThrottleTypes
  BY DEF Typed, TypeOK
<1>2. CASE UNCHANGED throttleVars
  BY <1>1, <1>2 DEF throttleVars, ThrottleTypes
<1>3. ASSUME NEW c, Increment(c) \/ Clear(c) PROVE ThrottleTypes'
  BY <1>1, <1>3 DEF ThrottleTypes, Increment, Clear
<1>4. ASSUME NEW c, NEW d, LookAtPassword(c, d) PROVE ThrottleTypes'
  BY <1>1, <1>4 DEF ThrottleTypes, LookAtPassword
<1>5. ASSUME NEW t \in Threads, LoginStep(t) PROVE ThrottleTypes'
  BY <1>2, <1>3, <1>4, <1>5
     DEF LoginStep, CountAddress, CountName, CountStep, Refuse, Authenticate, ClearAddress,
         ClearName, ListSessions, ReadSession, EvictOldest, CreateSession, IssueToken
<1>6. ASSUME NEW t \in Threads, CookieStep(t) PROVE ThrottleTypes'
  BY <1>2, <1>6
     DEF CookieStep, StartCleanup, SweepSession, EndCleanup, Reject, Validate, Terminate,
         CheckExists, WriteCopy
<1>7. ASSUME NEW t \in Threads, Fail(t) PROVE ThrottleTypes'
  BY <1>2, <1>7 DEF Fail
<1>8. ASSUME NEW t \in Threads, NEW u, NEW a, Login(t, u, a) PROVE ThrottleTypes'
  BY <1>2, <1>8 DEF Login, Begin
<1>9. ASSUME NEW t \in Threads, NEW s, Visit(t, s) \/ LogoutOrRefresh(t, s) PROVE ThrottleTypes'
  BY <1>2, <1>9 DEF Visit, LogoutOrRefresh, Begin
<1>10. ASSUME NEW c, WindowEnds(c) PROVE ThrottleTypes'
  BY <1>3, <1>10 DEF WindowEnds
<1>11. CASE TimePasses \/ UNCHANGED vars
  BY <1>2, <1>11 DEF TimePasses, vars
<1> QED BY <1>5, <1>6, <1>7, <1>8, <1>9, <1>10, <1>11 DEF Next

\* The rest of the state keeps its types.
LEMMA RestTyped ==
  ASSUME Typed, [Next]_vars
  PROVE  lastCleanup' \in Nat /\ revived' \subseteq Sessions
         /\ spent' \in [logins : Nat, faults : Nat]
<1> DEFINE Same == UNCHANGED <<lastCleanup, revived, spent>>
           Goal == lastCleanup' \in Nat /\ revived' \subseteq Sessions
                   /\ spent' \in [logins : Nat, faults : Nat]
<1>1. CASE Same
  BY <1>1 DEF Typed, TypeOK
<1>2. ASSUME NEW t \in Threads, LoginStep(t) PROVE Same
  BY <1>2
     DEF LoginStep, CountAddress, CountName, CountStep, Refuse, Authenticate, ClearAddress,
         ClearName, ListSessions, ReadSession, EvictOldest, CreateSession, IssueToken
<1>3. ASSUME NEW t \in Threads, CookieStep(t) PROVE Goal
  <2>1. CASE EndCleanup(t)
    <3>1. task[t].now \in Nat
      BY TaskType DEF Tasks
    <3> QED BY <2>1, <3>1 DEF EndCleanup, Typed, TypeOK
  <2>2. CASE WriteCopy(t)
    <3>1. task[t].session \in Sessions
      BY <2>2, WriteStores
    <3> QED BY <2>2, <3>1 DEF WriteCopy, Typed, TypeOK
  <2>3. CASE ~EndCleanup(t) /\ ~WriteCopy(t)
    <3>1. Same
      BY <1>3, <2>3
         DEF CookieStep, StartCleanup, SweepSession, Reject, Validate, Terminate, CheckExists
    <3> QED BY <1>1, <3>1
  <2> QED BY <2>1, <2>2, <2>3
<1>4. ASSUME NEW t \in Threads, Fail(t) PROVE Goal
  BY <1>4 DEF Fail, Typed, TypeOK
<1>5. ASSUME NEW t \in Threads, NEW u, NEW a, Login(t, u, a) PROVE Goal
  <2>1. UNCHANGED <<lastCleanup, revived>> /\ spent' = [spent EXCEPT !.logins = @ + 1]
    BY <1>5 DEF Login, Begin
  <2> QED BY <2>1 DEF Typed, TypeOK
<1>6. ASSUME NEW t \in Threads, NEW s, Visit(t, s) \/ LogoutOrRefresh(t, s) PROVE Same
  BY <1>6 DEF Visit, LogoutOrRefresh, Begin
<1>7. ASSUME NEW c, WindowEnds(c) PROVE Same
  BY <1>7 DEF WindowEnds
<1>8. CASE TimePasses \/ UNCHANGED vars
  BY <1>8 DEF TimePasses, vars, Typed, TypeOK
<1> QED BY <1>1, <1>2, <1>3, <1>4, <1>5, <1>6, <1>7, <1>8 DEF Next

\* The types hold at the start and after every step.
LEMMA TypedInit == Init => Typed
<1> SUFFICES ASSUME Init PROVE Typed
  OBVIOUS
<1>1. StorageTypes /\ ThrottleTypes
  BY DEF Init, StorageInit, StorageTypes, ThrottleInit, ThrottleTypes
<1>2. task \in [Threads -> Tasks] /\ \A t \in Threads : Shape(task[t])
  BY NoTaskShape DEF Init
<1>3. lastCleanup \in Nat /\ revived \subseteq Sessions /\ spent \in [logins : Nat, faults : Nat]
  BY DEF Init
<1> QED BY <1>1, <1>2, <1>3 DEF Typed, TypeOK

\* Every step keeps them.
LEMMA TypedStep == Typed /\ [Next]_vars => Typed'
<1> SUFFICES ASSUME Typed, [Next]_vars PROVE Typed'
  OBVIOUS
<1>1. \A t \in Threads : Shape(task[t])'
  BY NextOnward DEF Onward, Shape, LoginSteps, Limited
<1>2. TypeOK'
  BY NextOnward, StorageTyped, ThrottleTyped, RestTyped DEF Onward, TypeOK
<1> QED BY <1>1, <1>2 DEF Typed

\* Every variable keeps its type, whatever the requests do at the same time, and
\* a request has in hand what its step needs: a loop over a user's sessions has
\* a user, an update has a session and a record (manager.py).
THEOREM RequestsAreTyped == Spec => []TypeOK
<1>1. Typed => TypeOK
  BY DEF Typed
<1> QED BY <1>1, TypedInit, TypedStep, PTL DEF Spec

------------------------------------------------------------------------
(* Sessions and their tokens: what the storage and the requests agree on. *)

Kept(s) ==
  store[s] # None =>
    /\ store[s].data.last <= clock
    /\ store[s].data.last + Timeout <= store[s].until
    /\ \E u \in Users : s \in index[u]

Held(r) ==
  /\ r.now <= clock
  /\ r.session # None => store[r.session] # None
  /\ r.copy # None => r.copy.last <= clock

Stored ==
  /\ Typed /\ TokenHasSession
  /\ \A s \in Sessions : Kept(s)
  /\ \A t \in Threads : Held(task[t])

\* Time goes on, and no session is unknown again.
LEMMA Grows ==
  ASSUME Typed, [Next]_vars
  PROVE  /\ clock \in Nat /\ clock' \in {clock, clock + 1}
         /\ \A s \in Sessions : store[s] # None => store'[s] # None
<1>1. clock \in Nat /\ store \in [Sessions -> Keys \cup {None}] /\ None \notin Keys
  BY NoRecordAssumption DEF Typed, TypeOK, StorageTypes
<1>2. ASSUME NEW t \in Threads, NEW s \in Sessions, CreateSession(t, s)
      PROVE  clock' = clock /\ \A v \in Sessions : store[v] # None => store'[v] # None
  BY <1>1, <1>2, CreateStores
<1>3. ASSUME NEW t \in Threads, WriteCopy(t)
      PROVE  clock' = clock /\ \A v \in Sessions : store[v] # None => store'[v] # None
  BY <1>1, <1>3, WriteStores
<1>4. ASSUME NEW t \in Threads, IssueToken(t)
      PROVE  UNCHANGED <<clock, store>>
  BY <1>4, IssueStores
<1> QED BY <1>1, <1>2, <1>3, <1>4, StorageSteps DEF Creates, Writes, Issues

\* The invariant of the storage holds at the start and after every step.
LEMMA StoredInit == Init => Stored
<1> SUFFICES ASSUME Init PROVE Stored
  OBVIOUS
<1>1. Typed
  BY TypedInit
<1>2. TokenHasSession /\ \A s \in Sessions : Kept(s)
  BY DEF Init, StorageInit, TokenHasSession, Kept
<1>3. \A t \in Threads : Held(task[t])
  BY DEF Init, StorageInit, NoTask, Held
<1> QED BY <1>1, <1>2, <1>3 DEF Stored

\* What is in hand after a step.
LEMMA HeldStep ==
  ASSUME Stored, [Next]_vars, NEW t \in Threads
  PROVE  Held(task[t])'
<1> DEFINE r == task[t]
           n == task'[t]
<1>1. Typed /\ Held(r) /\ r \in Tasks /\ n \in Tasks /\ Hand(r, n)
  BY NextOnward, TaskType DEF Stored, Onward
<1>2. clock \in Nat /\ clock <= clock' /\ clock' \in Nat
  BY <1>1, Grows
<1> HIDE DEF r, n
<1>3. n.now <= clock'
  <2>1. r.now \in Nat /\ r.now <= clock
    BY <1>1 DEF Tasks, Held
  <2> QED BY <1>1, <1>2, <2>1 DEF Hand
<1>4. n.session # None => store'[n.session] # None
  <2>1. n.session = r.session /\ r.session # None => r.session \in Sessions /\ store[r.session] # None
    BY <1>1 DEF Tasks, Held
  <2> QED BY <1>1, <2>1, Grows DEF Hand
<1>5. n.copy # None => n.copy.last <= clock'
  <2>1. CASE n.copy = r.copy
    <3>1. r.copy # None => r.copy \in Records /\ r.copy.last <= clock
      BY <1>1 DEF Tasks, Held
    <3>2. r.copy # None => r.copy.last \in Nat
      BY <3>1 DEF Records
    <3> QED BY <1>2, <2>1, <3>1, <3>2
  <2>2. CASE Copied(n)
    <3> DEFINE data == Get(n.session)
    <3>1. /\ n.session \in Sessions /\ data # None
          /\ n.copy = [data EXCEPT !.active = FALSE] \/ n.copy = [data EXCEPT !.last = clock]
      BY <2>2 DEF Copied
    <3>2. data \in Records /\ store[n.session] # None /\ data = store[n.session].data
      BY <1>1, <3>1, GetType
    <3>3. data.last \in Nat /\ data.last <= clock
      BY <3>1, <3>2 DEF Stored, Kept, Records
    <3> HIDE DEF data
    <3>4. n.copy.last = data.last \/ n.copy.last = clock
      BY <3>1, <3>2 DEF Records
    <3> QED BY <1>2, <3>3, <3>4
  <2> QED BY <1>1, <2>1, <2>2 DEF Hand
<1> QED BY <1>3, <1>4, <1>5 DEF Held, n

\* What is stored after a step.
LEMMA KeptStep ==
  ASSUME Stored, [Next]_vars, NEW s \in Sessions
  PROVE  Kept(s)'
<1>1. Typed /\ Kept(s) /\ Timeout \in Nat /\ clock \in Nat /\ clock' \in {clock, clock + 1}
  BY Grows, TimeoutAssumption DEF Stored
<1>2. store \in [Sessions -> Keys \cup {None}] /\ index \in [Users -> SUBSET Sessions]
  BY <1>1 DEF Typed, TypeOK, StorageTypes
<1>3. ASSUME UNCHANGED <<store, index>> PROVE Kept(s)'
  <2>1. store[s] # None => store[s].data.last \in Nat
    BY <1>2 DEF Keys, Records
  <2> QED BY <1>1, <1>3, <2>1 DEF Kept
<1>4. ASSUME NEW t \in Threads, NEW new \in Sessions, CreateSession(t, new) PROVE Kept(s)'
  <2>1. PICK key \in Keys : /\ store' = [store EXCEPT ![new] = key]
                            /\ key.data.last = task[t].now /\ key.until = clock + Timeout
    BY <1>1, <1>4, CreateStores
  <2>2. /\ task[t].user \in Users /\ task[t].now \in Nat /\ clock' = clock
        /\ index' = [index EXCEPT ![task[t].user] = @ \cup {new}]
    BY <1>1, <1>4, CreateStores
  <2>3. task[t].now <= clock
    BY DEF Stored, Held
  <2>4. CASE s = new
    <3>1. store'[s] = key /\ s \in index'[task[t].user]
      BY <1>2, <2>1, <2>2, <2>4
    <3> QED BY <1>1, <2>1, <2>2, <2>3, <3>1 DEF Kept
  <2>5. CASE s # new
    <3>1. store'[s] = store[s] /\ \A u \in Users : s \in index[u] => s \in index'[u]
      BY <1>2, <2>1, <2>2, <2>5
    <3> QED BY <1>1, <2>2, <3>1 DEF Kept
  <2> QED BY <2>4, <2>5
<1>5. ASSUME NEW t \in Threads, WriteCopy(t) PROVE Kept(s)'
  <2> DEFINE own == task[t].session
             copy == task[t].copy
  <2>1. PICK key \in Keys : /\ store' = [store EXCEPT ![own] = key]
                            /\ key.data = copy /\ key.until = clock + Timeout
    BY <1>1, <1>5, WriteStores
  <2>2. own \in Sessions /\ copy \in Records /\ UNCHANGED <<clock, index>>
    BY <1>1, <1>5, WriteStores
  <2>3. copy.last \in Nat /\ copy.last <= clock /\ store[own] # None
    BY <2>2, NoRecordAssumption DEF Stored, Held, Records
  <2>4. CASE s = own
    <3>1. store'[s] = key
      BY <1>2, <2>1, <2>2, <2>4
    <3>2. \E u \in Users : s \in index[u]
      BY <1>1, <2>3, <2>4 DEF Kept
    <3> HIDE DEF copy
    <3> QED BY <1>1, <2>1, <2>2, <2>3, <3>1, <3>2 DEF Kept
  <2>5. CASE s # own
    <3>1. store'[s] = store[s]
      BY <1>2, <2>1, <2>2, <2>5
    <3> QED BY <1>1, <2>2, <3>1 DEF Kept
  <2> QED BY <2>4, <2>5
<1>6. ASSUME NEW t \in Threads, IssueToken(t) PROVE UNCHANGED <<store, index>>
  BY <1>1, <1>6, IssueStores
<1> QED BY <1>1, <1>3, <1>4, <1>5, <1>6, StorageSteps DEF Creates, Writes, Issues

\* Whose token there is after a step.
LEMMA TokenStep ==
  ASSUME Stored, [Next]_vars
  PROVE  TokenHasSession'
<1>1. Typed /\ TokenHasSession /\ tokens \in [Sessions -> Nat]
  BY DEF Stored, Typed, TypeOK, StorageTypes
<1>2. CASE UNCHANGED tokens
  BY <1>1, <1>2, Grows DEF TokenHasSession
<1>3. ASSUME NEW t \in Threads, IssueToken(t) PROVE TokenHasSession'
  <2>1. /\ task[t].session \in Sessions /\ UNCHANGED store
        /\ tokens' = [tokens EXCEPT ![task[t].session] = clock + Timeout]
    BY <1>1, <1>3, IssueStores
  <2>2. store[task[t].session] # None
    BY <2>1, NoRecordAssumption DEF Stored, Held
  <2> QED BY <1>1, <2>1, <2>2 DEF TokenHasSession
<1>4. UNCHANGED tokens \/ Issues
  BY <1>1, StorageSteps, CreateStores, WriteStores DEF Creates, Writes
<1> QED BY <1>2, <1>3, <1>4 DEF Issues

\* Every step keeps it.
LEMMA StoredStep == Stored /\ [Next]_vars => Stored'
<1> SUFFICES ASSUME Stored, [Next]_vars PROVE Stored'
  OBVIOUS
<1>1. Typed'
  BY TypedStep DEF Stored
<1> QED BY <1>1, HeldStep, KeptStep, TokenStep DEF Stored

\* No use of a session within SESSION_TIMEOUT_MINUTES of the last one it records
\* finds its key gone, however late the copies are written that the requests hold
\* (the expiration that storage.update resets).
THEOREM KeysOutliveUse == Spec => []KeyOutlivesUse
<1>1. Stored => KeyOutlivesUse
  BY DEF Stored, Kept, KeyOutlivesUse
<1> QED BY <1>1, StoredInit, StoredStep, PTL DEF Spec

\* A CSRF token is bound to a session that was stored before, whichever
\* requests run at the same time and whichever commands fail
\* (create_session, refresh_csrf_token).
THEOREM TokensHaveSessions == Spec => []TokenHasSession
<1>1. Stored => TokenHasSession
  BY DEF Stored
<1> QED BY <1>1, StoredInit, StoredStep, PTL DEF Spec

------------------------------------------------------------------------
(* Sessions that were ended.                                              *)

\* No request takes in hand an active copy of a session that was ended.
LEMMA HoldersStep ==
  ASSUME Stored, [Next]_vars, NEW s \in Sessions, Ended(s)
  PROVE  Holders(s)' \subseteq Holders(s)
<1> SUFFICES ASSUME NEW t \in Threads, Updating(t)', task'[t].session = s, task'[t].copy.active
             PROVE  Updating(t) /\ task[t].session = s /\ task[t].copy.active
  BY DEF Holders
<1> DEFINE r == task[t]
           n == task'[t]
<1>1. Typed /\ r \in Tasks /\ n \in Tasks /\ Shape(n) /\ Hand(r, n)
  BY NextOnward, TaskType DEF Stored, Onward
<1>2. n.pc \in {"exists", "write"} /\ n.copy # None
  <2>1. n.pc \in {"exists", "write"}
    BY DEF Updating
  <2> QED BY <1>1, <2>1, NoRecordAssumption DEF Shape
<1>3. ~Copied(n)
  <2>1. Get(s) # None /\ Get(s) = store[s].data /\ ~Get(s).active /\ Get(s) \in Records
    <3>1. Get(s) = store[s].data /\ ~store[s].data.active
      BY DEF Ended, Get
    <3>2. store[s] \in Keys
      BY <1>1 DEF Ended, Exists, Typed, TypeOK, StorageTypes
    <3>3. store[s].data \in Records
      BY <3>2 DEF Keys
    <3> QED BY <3>1, <3>3, NoRecordAssumption
  <2>2. n.session = s
    OBVIOUS
  <2>3. ~InUse(Get(n.session))
    BY <2>1, <2>2 DEF InUse
  <2>4. n.copy # [Get(s) EXCEPT !.active = FALSE]
    <3>1. [Get(s) EXCEPT !.active = FALSE].active = FALSE
      BY <2>1 DEF Records
    <3> QED BY <3>1
  <2> HIDE DEF n
  <2> QED BY <2>2, <2>3, <2>4 DEF Copied
<1>4. n.copy = r.copy /\ n.session = r.session /\ r.pc \in {"exists", "write"}
  BY <1>1, <1>2, <1>3 DEF Hand
<1> QED BY <1>4 DEF Updating

\* Without such a copy nothing makes it active.
LEMMA EndedStep ==
  ASSUME Stored, [Next]_vars, NEW s \in Sessions, Ended(s), Holders(s) = {}
  PROVE  ~Active(s)'
<1>1. Typed /\ store \in [Sessions -> Keys \cup {None}] /\ store[s] # None /\ ~store[s].data.active
  BY DEF Stored, Typed, TypeOK, StorageTypes, Ended, Exists
<1> SUFFICES store'[s] = store[s] \/ ~store'[s].data.active
  BY <1>1 DEF Active, InUse, Get, Exists
<1>2. ASSUME NEW t \in Threads, NEW new \in Sessions, CreateSession(t, new)
      PROVE  store'[s] = store[s]
  <2>1. \E u \in Users : s \in index[u]
    BY <1>1 DEF Stored, Kept
  <2>2. new # s
    BY <1>1, <1>2, <2>1, CreateStores
  <2> QED BY <1>1, <1>2, <2>2, CreateStores
<1>3. ASSUME NEW t \in Threads, WriteCopy(t)
      PROVE  store'[s] = store[s] \/ ~store'[s].data.active
  <2>1. CASE task[t].session = s
    <3>1. ~task[t].copy.active
      BY <1>1, <1>3, <2>1, WriteStores DEF Holders
    <3> QED BY <1>1, <1>3, <2>1, <3>1, WriteStores
  <2>2. CASE task[t].session # s
    BY <1>1, <1>3, <2>2, WriteStores
  <2> QED BY <2>1, <2>2
<1>4. ASSUME NEW t \in Threads, IssueToken(t)
      PROVE  store' = store
  BY <1>1, <1>4, IssueStores
<1> QED BY <1>1, <1>2, <1>3, <1>4, StorageSteps DEF Creates, Writes, Issues

\* Only a request that had read a session before it was ended can revive it, and
\* no later request takes a copy of it that could, for any number of requests and
\* of failures (the is_active test of validate_session).
THEOREM OnlyOverlaps == Spec => OnlyOverlapRevives
<1>1. Stored /\ [Next]_vars =>
        [\A s \in Sessions : Ended(s) =>
           /\ Holders(s)' \subseteq Holders(s)
           /\ Holders(s) = {} => ~Active(s)']_vars
  BY HoldersStep, EndedStep
<1> QED BY <1>1, StoredInit, StoredStep, PTL DEF Spec, OnlyOverlapRevives

------------------------------------------------------------------------
(* Guesses: the passwords looked at since a counter was cleared, and the  *)
(* attempts that were let through and are still to look at one.           *)

\* A request that was counted by c, or should have been, and may go on to the password.
Waits(r, c) ==
  /\ r.allowed
  /\ \/ r.pc \in {"count_name", "password"} /\ r.from = c
     \/ r.pc = "password" /\ r.user = c
Pending(c) == {t \in Threads : Waits(task[t], c)}
Capped(n) == IF n <= LoginMax THEN n ELSE LoginMax

Guessed(c) ==
  guesses[c] + Cardinality(Pending(c)) <=
    Capped(count[c]) + Cardinality(Threads) + spent.faults

Guarded == Typed /\ \A c \in Counters : Guessed(c)

\* The numbers that are compared.
LEMMA Numbers ==
  ASSUME Typed, NEW c \in Counters
  PROVE  /\ guesses[c] \in Nat /\ count[c] \in Nat /\ LoginMax \in Nat /\ spent.faults \in Nat
         /\ Cardinality(Threads) \in Nat
         /\ Cardinality(Pending(c)) \in Nat /\ IsFiniteSet(Pending(c))
         /\ Cardinality(Pending(c)) <= Cardinality(Threads)
<1>1. Pending(c) \subseteq Threads
  BY DEF Pending
<1>2. /\ IsFiniteSet(Pending(c)) /\ Cardinality(Pending(c)) <= Cardinality(Threads)
      /\ Cardinality(Pending(c)) \in Nat /\ Cardinality(Threads) \in Nat
  BY <1>1, ThreadsAssumption, FS_Subset, FS_CardinalityType
<1> QED BY <1>2, LoginMaxAssumption DEF Typed, TypeOK, ThrottleTypes

\* The same numbers after a step.
LEMMA NumbersAfter ==
  ASSUME Typed', NEW c \in Counters
  PROVE  /\ guesses'[c] \in Nat /\ spent'.faults \in Nat
         /\ Cardinality(Pending(c))' \in Nat
         /\ Cardinality(Pending(c))' <= Cardinality(Threads)
<1>1. Pending(c)' \subseteq Threads
  BY DEF Pending
<1>2. /\ Cardinality(Pending(c)') <= Cardinality(Threads)
      /\ Cardinality(Pending(c)') \in Nat
  BY <1>1, ThreadsAssumption, FS_Subset, FS_CardinalityType
<1> QED BY <1>2 DEF Typed, TypeOK, ThrottleTypes

\* How many attempts are pending after a step.
LEMMA FewerPending ==
  ASSUME Typed, Typed', NEW c \in Counters, Pending(c)' \subseteq Pending(c)
  PROVE  Cardinality(Pending(c))' <= Cardinality(Pending(c))
<1>1. Cardinality(Pending(c)') <= Cardinality(Pending(c))
  BY Numbers, FS_Subset
<1> QED BY <1>1

\* One more at most, the request that moved.
LEMMA OneMorePending ==
  ASSUME Typed, Typed', NEW c \in Counters, NEW t, Pending(c)' \subseteq Pending(c) \cup {t}
  PROVE  Cardinality(Pending(c))' <= Cardinality(Pending(c)) + 1
<1> DEFINE more == Pending(c) \cup {t}
<1>1. IsFiniteSet(Pending(c)) /\ Cardinality(Pending(c)) \in Nat
  BY Numbers
<1>2. IsFiniteSet(more) /\ Cardinality(more) <= Cardinality(Pending(c)) + 1
      /\ Cardinality(more) \in Nat
  <2>1. IsFiniteSet(more)
        /\ (Cardinality(more) = Cardinality(Pending(c)) \/ Cardinality(more) = Cardinality(Pending(c)) + 1)
    BY <1>1, FS_AddElement
  <2> HIDE DEF more
  <2> QED BY <1>1, <2>1
<1>3. Cardinality(Pending(c)') <= Cardinality(more) /\ Cardinality(Pending(c)') \in Nat
  BY <1>2, FS_Subset, FS_CardinalityType
<1> QED BY <1>1, <1>2, <1>3

\* One less at least, the request that moved on.
LEMMA OneLessPending ==
  ASSUME Typed, Typed', NEW c \in Counters, NEW t \in Pending(c), t \notin Pending(c)',
         Pending(c)' \subseteq Pending(c)
  PROVE  Cardinality(Pending(c))' + 1 <= Cardinality(Pending(c))
<1> DEFINE less == Pending(c) \ {t}
<1>1. IsFiniteSet(Pending(c)) /\ Cardinality(Pending(c)) \in Nat
  BY Numbers
<1>2. IsFiniteSet(less) /\ Cardinality(less) = Cardinality(Pending(c)) - 1
  BY <1>1, FS_RemoveElement
<1>3. Cardinality(Pending(c)') <= Cardinality(less) /\ Cardinality(Pending(c)') \in Nat
  <2>1. Pending(c)' \subseteq less
    OBVIOUS
  <2> QED BY <1>2, <2>1, FS_Subset, FS_CardinalityType
<1> QED BY <1>1, <1>2, <1>3

\* A step of one request leaves the others as they were.
LEMMA OwnPending ==
  ASSUME Typed, NEW t \in Threads, NEW new, task' = [task EXCEPT ![t] = new], NEW c
  PROVE  /\ Pending(c)' \subseteq Pending(c) \cup {t}
         /\ t \in Pending(c)' <=> Waits(new, c)
         /\ t \in Pending(c) <=> Waits(task[t], c)
<1>1. task'[t] = new /\ \A v \in Threads : v # t => task'[v] = task[v]
  BY DEF Typed, TypeOK
<1>2. \A v \in Threads : v \in Pending(c)' <=> Waits(task'[v], c)
  BY DEF Pending, Waits
<1>3. \A v \in Threads : v \in Pending(c) <=> Waits(task[v], c)
  BY DEF Pending
<1>4. Pending(c)' \subseteq Threads
  BY DEF Pending
<1> QED BY <1>1, <1>2, <1>3, <1>4

\* Nobody comes to the password but by the steps that count.
LEMMA QuietMoves ==
  ASSUME Typed, NEW t \in Threads, NEW c \in Counters, Moves(t),
         task[t].pc \notin {"count_ip", "count_name"}
  PROVE  Pending(c)' \subseteq Pending(c)
<1> PICK new \in Tasks : task' = [task EXCEPT ![t] = new] /\ Hand(task[t], new)
  BY DEF Moves
<1>1. Waits(new, c) => Waits(task[t], c)
  BY DEF Hand, Attempts, Waits, Limited
<1> QED BY <1>1, OwnPending

\* A request that arrives is not at its password yet.
LEMMA QuietBegin ==
  ASSUME Typed, NEW t \in Threads, NEW c \in Counters, NEW new, Begin(t, new),
         new.pc \notin {"count_name", "password"}
  PROVE  Pending(c)' \subseteq Pending(c)
<1> DEFINE mine == [new EXCEPT !.alone = new.route = "login" /\ \A v \in Threads : Idle(v)]
           other(v) == [task[v] EXCEPT !.alone = FALSE]
<1>1. task' = [u \in Threads |-> IF u = t THEN mine ELSE other(u)]
  BY DEF Begin
<1>2. ~Waits(mine, c)
  BY DEF Waits
<1>3. ASSUME NEW v \in Threads PROVE Waits(other(v), c) => Waits(task[v], c)
  BY TaskType DEF Waits, Tasks
<1>4. \A v \in Threads : v \in Pending(c)' <=> Waits(task'[v], c)
  BY DEF Pending, Waits
<1> HIDE DEF mine, other
<1>5. ASSUME NEW v \in Pending(c)' PROVE v \in Pending(c)
  <2>1. v \in Threads
    BY DEF Pending
  <2>2. Waits(task'[v], c)
    BY <1>4, <1>5, <2>1
  <2> QED BY <1>1, <1>2, <1>3, <2>1, <2>2 DEF Pending
<1> QED BY <1>5

\* A step that counts, clears and looks at nothing for c; one that clears c.
Untouched(c) == count'[c] = count[c] /\ guesses'[c] = guesses[c]
Cleared(c) == count'[c] = 0 /\ guesses'[c] = 0

\* The bound of c survives a step that brings nobody to the password.
LEMMA GuessedQuiet ==
  ASSUME Guarded, Typed', NEW c \in Counters, Pending(c)' \subseteq Pending(c),
         Untouched(c) \/ Cleared(c), spent.faults <= spent'.faults
  PROVE  Guessed(c)'
<1>1. Typed /\ Guessed(c)
  BY DEF Guarded
<1>2. Cardinality(Pending(c))' <= Cardinality(Pending(c))
  BY <1>1, FewerPending
<1> DEFINE p == Cardinality(Pending(c))
<1>3. /\ p \in Nat /\ p' \in Nat /\ p' <= p /\ p' <= Cardinality(Threads)
      /\ guesses[c] \in Nat /\ guesses'[c] \in Nat /\ count[c] \in Nat /\ LoginMax \in Nat
      /\ Cardinality(Threads) \in Nat /\ spent.faults \in Nat /\ spent'.faults \in Nat
  <2>1. /\ guesses'[c] \in Nat /\ spent'.faults \in Nat /\ p' \in Nat
        /\ p' <= Cardinality(Threads)
    BY NumbersAfter
  <2> QED BY <1>1, <1>2, <2>1, Numbers
<1>4. CASE Untouched(c)
  <2>1. Capped(count'[c]) = Capped(count[c]) /\ Capped(count[c]) \in Nat
    BY <1>3, <1>4 DEF Capped, Untouched
  <2>2. guesses[c] + p <= Capped(count[c]) + Cardinality(Threads) + spent.faults
    BY <1>1 DEF Guessed
  <2> HIDE DEF p
  <2>3. guesses'[c] + p' <= Capped(count'[c]) + Cardinality(Threads) + spent'.faults
    BY <1>3, <1>4, <2>1, <2>2 DEF Untouched
  <2> QED BY <2>3 DEF Guessed, p, Capped
<1>5. CASE Cleared(c)
  <2>1. Capped(count'[c]) = 0
    BY <1>3, <1>5 DEF Capped, Cleared
  <2> HIDE DEF p
  <2>2. guesses'[c] + p' <= Capped(count'[c]) + Cardinality(Threads) + spent'.faults
    BY <1>3, <1>5, <2>1 DEF Cleared
  <2> QED BY <2>2 DEF Guessed, p, Capped
<1> QED BY <1>4, <1>5

\* An attempt is counted and let through, or it is over the limit.
LEMMA GuessedCount ==
  ASSUME Guarded, Typed', NEW t \in Threads, NEW c \in Counters,
         NEW key, NEW step, NEW next, CountStep(t, key, step, next),
         \/ step = "count_ip" /\ key = task[t].from /\ next = "count_name"
         \/ step = "count_name" /\ key = task[t].user /\ next = "password"
  PROVE  Guessed(c)'
<1>1. Typed /\ Guessed(c)
  BY DEF Guarded
<1>2. step \in {"count_ip", "count_name"} /\ next \in {"count_name", "password"}
  OBVIOUS
<1> DEFINE allowed == task[t].allowed /\ Allowed(count'[key])
           new == [task[t] EXCEPT !.pc = next, !.allowed = allowed]
           p == Cardinality(Pending(c))
<1>3. task' = [task EXCEPT ![t] = new]
  BY <1>1, <1>2 DEF CountStep, Typed, TypeOK
<1>4. /\ new.pc = next /\ new.allowed = allowed /\ new.from = task[t].from
      /\ new.user = task[t].user
  BY <1>1, TaskType DEF Tasks
<1> HIDE DEF new, p
<1>5. task[t].pc = step /\ UNCHANGED <<guesses, spent>> /\ count' = [count EXCEPT ![key] = @ + 1]
  BY <1>2 DEF CountStep, At, Increment
<1>6. Waits(new, c) => Waits(task[t], c) \/ (c = key /\ count'[c] <= LoginMax)
  BY <1>2, <1>4, <1>5 DEF Waits, Allowed
<1>7. CASE c # key \/ ~Waits(new, c) \/ Waits(task[t], c)
  <2>1. Pending(c)' \subseteq Pending(c)
    BY <1>1, <1>3, <1>6, <1>7, OwnPending
  <2>2. CASE c # key
    BY <1>1, <1>5, <2>1, <2>2, GuessedQuiet, Numbers DEF Untouched, Typed, TypeOK, ThrottleTypes
  <2>3. CASE c = key
    <3>1. count'[c] = count[c] + 1
      BY <1>1, <1>5, <2>3 DEF Typed, TypeOK, ThrottleTypes
    <3>2. /\ p \in Nat /\ p' \in Nat /\ p' <= p /\ guesses[c] \in Nat /\ count[c] \in Nat
          /\ LoginMax \in Nat /\ Cardinality(Threads) \in Nat /\ spent.faults \in Nat
      <4>1. p' \in Nat
        BY NumbersAfter DEF p
      <4> QED BY <1>1, <2>1, <4>1, Numbers, FewerPending DEF p
    <3>3. guesses[c] + p <= Capped(count[c]) + Cardinality(Threads) + spent.faults
      BY <1>1 DEF Guessed, p
    <3>4. guesses[c] + p' <= Capped(count'[c]) + Cardinality(Threads) + spent.faults
      BY <3>1, <3>2, <3>3 DEF Capped
    <3> QED BY <1>5, <3>4 DEF Guessed, p, Capped
  <2> QED BY <2>2, <2>3
<1>8. CASE c = key /\ Waits(new, c) /\ ~Waits(task[t], c)
  <2>1. count'[c] = count[c] + 1 /\ count'[c] <= LoginMax
    BY <1>1, <1>5, <1>6, <1>8 DEF Typed, TypeOK, ThrottleTypes
  <2>2. /\ p \in Nat /\ p' \in Nat /\ p' <= p + 1 /\ guesses[c] \in Nat /\ count[c] \in Nat
        /\ LoginMax \in Nat /\ Cardinality(Threads) \in Nat /\ spent.faults \in Nat
    <3>1. p' \in Nat
      BY NumbersAfter DEF p
    <3>2. p' <= p + 1
      BY <1>1, <1>3, OwnPending, OneMorePending DEF p
    <3> QED BY <1>1, <3>1, <3>2, Numbers DEF p
  <2>3. guesses[c] + p <= Capped(count[c]) + Cardinality(Threads) + spent.faults
    BY <1>1 DEF Guessed, p
  <2>4. guesses[c] + p' <= Capped(count'[c]) + Cardinality(Threads) + spent.faults
    BY <2>1, <2>2, <2>3 DEF Capped
  <2> QED BY <1>5, <2>4 DEF Guessed, p, Capped
<1> QED BY <1>7, <1>8

\* A password is looked at: an attempt that was pending no longer is.
LEMMA GuessedLook ==
  ASSUME Guarded, Typed', NEW t \in Threads, NEW c \in Counters, Authenticate(t)
  PROVE  Guessed(c)'
<1>1. Typed /\ Guessed(c)
  BY DEF Guarded
<1>2. PICK new : task' = [task EXCEPT ![t] = new] /\ new.pc \notin {"count_name", "password"}
  <2>1. CASE Goto(t, "clear_ip")
    <3> DEFINE new == [task[t] EXCEPT !.pc = "clear_ip"]
    <3>1. task' = [task EXCEPT ![t] = new]
      BY <1>1, <2>1 DEF Goto, Typed, TypeOK
    <3>2. new.pc = "clear_ip"
      BY <1>1, TaskType DEF Tasks
    <3> QED BY <3>1, <3>2
  <2>2. CASE BeginCreation(t)
    <3> DEFINE new == [task[t] EXCEPT !.pc = "list", !.now = clock]
    <3>1. task' = [task EXCEPT ![t] = new]
      BY <1>1, <2>2 DEF BeginCreation, Typed, TypeOK
    <3>2. new.pc = "list"
      BY <1>1, TaskType DEF Tasks
    <3> QED BY <3>1, <3>2
  <2>3. CASE Finish(t)
    <3>1. NoTask.pc = "done" /\ task' = [task EXCEPT ![t] = NoTask]
      BY <2>3 DEF Finish, NoTask
    <3> QED BY <3>1
  <2> QED BY <2>1, <2>2, <2>3 DEF Authenticate
<1>3. ~Waits(new, c)
  BY <1>2 DEF Waits
<1>4. Pending(c)' \subseteq Pending(c) /\ t \notin Pending(c)'
  BY <1>1, <1>2, <1>3, OwnPending
<1>5. /\ UNCHANGED <<count, spent>> /\ task[t].pc = "password" /\ task[t].allowed
      /\ guesses' = [d \in Counters |-> IF d \in {task[t].user, task[t].from}
                                        THEN guesses[d] + 1 ELSE guesses[d]]
  BY DEF Authenticate, LookAtPassword, At
<1>6. CASE c \notin {task[t].user, task[t].from}
  BY <1>1, <1>4, <1>5, <1>6, GuessedQuiet, Numbers DEF Untouched
<1>7. CASE c \in {task[t].user, task[t].from}
  <2>1. Waits(task[t], c)
    BY <1>5, <1>7 DEF Waits
  <2>2. t \in Pending(c)
    BY <2>1 DEF Pending
  <2> DEFINE p == Cardinality(Pending(c))
  <2>3. /\ p \in Nat /\ p' \in Nat /\ p' + 1 <= p /\ guesses[c] \in Nat /\ count[c] \in Nat
        /\ LoginMax \in Nat /\ Cardinality(Threads) \in Nat /\ spent.faults \in Nat
    <3>1. p' \in Nat
      BY NumbersAfter
    <3>2. p' + 1 <= p
      BY <1>1, <1>4, <2>2, OneLessPending
    <3> QED BY <1>1, <3>1, <3>2, Numbers
  <2>4. guesses[c] + p <= Capped(count[c]) + Cardinality(Threads) + spent.faults
    BY <1>1 DEF Guessed
  <2>5. guesses'[c] = guesses[c] + 1 /\ Capped(count[c]) \in Nat
    BY <1>5, <1>7, <2>3 DEF Capped
  <2> HIDE DEF p
  <2>6. guesses'[c] + p' <= Capped(count[c]) + Cardinality(Threads) + spent.faults
    BY <2>3, <2>4, <2>5
  <2> QED BY <1>5, <2>6 DEF Guessed, p, Capped
<1> QED BY <1>6, <1>7

\* An attempt that the limiter failed to count is one fault.
LEMMA GuessedFault ==
  ASSUME Guarded, Typed', NEW t \in Threads, NEW c \in Counters, FailOver(t),
         UNCHANGED throttleVars, spent'.faults = spent.faults + 1
  PROVE  Guessed(c)'
<1>1. Typed /\ Guessed(c) /\ UNCHANGED <<count, guesses>>
  BY DEF Guarded, throttleVars
<1> DEFINE p == Cardinality(Pending(c))
<1>2. p' <= p + 1
  <2>1. PICK new : task' = [task EXCEPT ![t] = new]
    BY <1>1, FailOverMoves DEF Moves
  <2> QED BY <1>1, <2>1, OwnPending, OneMorePending
<1>3. /\ p \in Nat /\ p' \in Nat /\ guesses[c] \in Nat /\ count[c] \in Nat
      /\ LoginMax \in Nat /\ Cardinality(Threads) \in Nat /\ spent.faults \in Nat
  <2>1. p' \in Nat
    BY NumbersAfter
  <2> QED BY <1>1, <2>1, Numbers
<1>4. Capped(count[c]) \in Nat
  BY <1>3 DEF Capped
<1>5. guesses[c] + p <= Capped(count[c]) + Cardinality(Threads) + spent.faults
  BY <1>1 DEF Guessed
<1> HIDE DEF p
<1>6. guesses[c] + p' <= Capped(count[c]) + Cardinality(Threads) + spent'.faults
  BY <1>2, <1>3, <1>4, <1>5
<1> QED BY <1>1, <1>6 DEF Guessed, p, Capped

\* A counter that is cleared, and the others.
LEMMA ClearedOrNot ==
  ASSUME Typed, NEW c \in Counters, NEW d, Clear(d)
  PROVE  Untouched(c) \/ Cleared(c)
BY DEF Clear, Untouched, Cleared, Typed, TypeOK, ThrottleTypes

\* The steps of a login keep the bound of every counter.
LEMMA GuardedLogin ==
  ASSUME Guarded, Typed', NEW t \in Threads, NEW c \in Counters, LoginStep(t)
  PROVE  Guessed(c)'
<1>1. Typed /\ spent.faults <= spent.faults
  <2>1. Typed
    BY DEF Guarded
  <2>2. spent.faults \in Nat
    BY <2>1, Numbers
  <2> QED BY <2>1, <2>2
<1>2. CASE CountAddress(t)
  <2>1. CountStep(t, task[t].from, "count_ip", "count_name")
    BY <1>2, Zenon DEF CountAddress
  <2> QED BY <2>1, GuessedCount
<1>3. CASE CountName(t)
  <2>1. CountStep(t, task[t].user, "count_name", "password")
    BY <1>3, Zenon DEF CountName
  <2> QED BY <2>1, GuessedCount
<1>4. CASE Authenticate(t)
  BY <1>4, GuessedLook
<1>5. ASSUME Moves(t), task[t].pc \notin {"count_ip", "count_name"}, UNCHANGED spent,
             UNCHANGED throttleVars \/ \E d : Clear(d)
      PROVE  Guessed(c)'
  <2>1. Pending(c)' \subseteq Pending(c)
    BY <1>1, <1>5, QuietMoves
  <2>2. Untouched(c) \/ Cleared(c)
    BY <1>1, <1>5, ClearedOrNot DEF throttleVars, Untouched
  <2> QED BY <1>1, <1>5, <2>1, <2>2, GuessedQuiet
<1>6. CASE Refuse(t) \/ ClearAddress(t) \/ ClearName(t)
  <2>1. task[t].pc \notin {"count_ip", "count_name"} /\ UNCHANGED spent
    BY <1>6 DEF Refuse, ClearAddress, ClearName, At
  <2>2. UNCHANGED throttleVars \/ \E d : Clear(d)
    BY <1>6 DEF Refuse, ClearAddress, ClearName
  <2> QED BY <1>1, <1>5, <1>6, <2>1, <2>2, PasswordMoves
<1>7. ASSUME NEW s \in Sessions,
             ListSessions(t) \/ ReadSession(t, s) \/ EvictOldest(t) \/ CreateSession(t, s) \/ IssueToken(t)
      PROVE  Guessed(c)'
  <2>1. task[t].pc \notin {"count_ip", "count_name"} /\ UNCHANGED <<spent, throttleVars>>
    BY <1>7 DEF ListSessions, ReadSession, EvictOldest, CreateSession, IssueToken, At
  <2>2. Moves(t)
    BY <1>1, <1>7, ListMoves, ReadMoves, EvictMoves, CreateMoves, FinishMoves DEF IssueToken
  <2> QED BY <1>5, <2>1, <2>2
<1>8. CASE ListSessions(t) \/ EvictOldest(t) \/ IssueToken(t)
  <2>1. task[t].pc \notin {"count_ip", "count_name"} /\ UNCHANGED <<spent, throttleVars>>
    BY <1>8 DEF ListSessions, EvictOldest, IssueToken, At
  <2>2. Moves(t)
    BY <1>1, <1>8, ListMoves, EvictMoves, FinishMoves DEF IssueToken
  <2> QED BY <1>5, <2>1, <2>2
<1> QED BY <1>2, <1>3, <1>4, <1>6, <1>7, <1>8 DEF LoginStep

\* So does a command that fails, which is one fault more.
LEMMA GuardedFail ==
  ASSUME Guarded, Typed', NEW t \in Threads, NEW c \in Counters, Fail(t)
  PROVE  Guessed(c)'
<1>1. Typed /\ spent.faults \in Nat /\ UNCHANGED throttleVars
  <2>1. Typed
    BY DEF Guarded
  <2> QED BY <2>1, Numbers DEF Fail
<1>2. spent'.faults = spent.faults + 1
  BY <1>1 DEF Fail, Typed, TypeOK
<1>3. CASE FailOver(t)
  BY <1>1, <1>2, <1>3, GuessedFault
<1>4. CASE SkipSession(t) \/ GiveUpEnding(t) \/ Abort(t)
  <2>1. Moves(t)
    BY <1>1, <1>4, SkipMoves, GiveUpMoves, FinishMoves DEF Abort
  <2>2. task[t].pc \notin {"count_ip", "count_name"}
    BY <1>4 DEF SkipSession, GiveUpEnding, Abort, Updating, At
  <2>3. Pending(c)' \subseteq Pending(c)
    BY <1>1, <2>1, <2>2, QuietMoves
  <2>4. Untouched(c)
    BY <1>1 DEF throttleVars, Untouched
  <2> QED BY <1>1, <1>2, <2>3, <2>4, GuessedQuiet
<1> QED BY <1>3, <1>4 DEF Fail

\* The bounds hold at the start.
LEMMA GuardedInit == Init => Guarded
<1> SUFFICES ASSUME Init PROVE Guarded
  OBVIOUS
<1>1. Typed
  BY TypedInit
<1>2. ASSUME NEW c \in Counters PROVE Guessed(c)
  <2>1. Pending(c) = {}
    BY DEF Init, NoTask, Pending, Waits
  <2>2. Cardinality(Pending(c)) = 0
    BY <2>1, FS_EmptySet
  <2>3. guesses[c] = 0 /\ count[c] = 0 /\ spent.faults = 0
    BY DEF Init, ThrottleInit
  <2> QED BY <1>1, <2>2, <2>3, Numbers DEF Guessed, Capped
<1> QED BY <1>1, <1>2 DEF Guarded

\* Every step keeps them.
LEMMA GuardedStep == Guarded /\ [Next]_vars => Guarded'
<1> SUFFICES ASSUME Guarded, [Next]_vars PROVE Guarded'
  OBVIOUS
<1>1. Typed /\ Typed'
  BY TypedStep DEF Guarded
<1> SUFFICES ASSUME NEW c \in Counters PROVE Guessed(c)'
  BY <1>1 DEF Guarded
<1>2. spent.faults \in Nat /\ spent.faults <= spent.faults
  BY <1>1, Numbers
<1>3. ASSUME Pending(c)' \subseteq Pending(c), spent'.faults = spent.faults,
             UNCHANGED throttleVars \/ \E d : Clear(d)
      PROVE  Guessed(c)'
  <2>1. Untouched(c) \/ Cleared(c)
    BY <1>1, <1>3, ClearedOrNot DEF throttleVars, Untouched
  <2> QED BY <1>1, <1>2, <1>3, <2>1, GuessedQuiet
<1>4. ASSUME NEW t \in Threads, NEW new, Begin(t, new), new.pc \notin {"count_name", "password"},
             spent'.faults = spent.faults
      PROVE  Guessed(c)'
  BY <1>1, <1>3, <1>4, QuietBegin DEF Begin
<1>5. ASSUME NEW t \in Threads, NEW u \in Users, NEW a \in Addresses, Login(t, u, a)
      PROVE  Guessed(c)'
  <2> DEFINE new == [NoTask EXCEPT !.route = "login", !.user = u, !.from = a,
                                   !.pc = IF Limited THEN "count_ip" ELSE "password"]
  <2>1. new.pc = "count_ip"
    BY DEF NoTask, Limited
  <2>2. Begin(t, new) /\ spent' = [spent EXCEPT !.logins = @ + 1]
    BY <1>5 DEF Login
  <2>3. spent'.faults = spent.faults
    BY <1>1, <2>2 DEF Typed, TypeOK
  <2> HIDE DEF new
  <2> QED BY <1>4, <2>1, <2>2, <2>3
<1>6. ASSUME NEW t \in Threads, NEW s \in Sessions, Visit(t, s) \/ LogoutOrRefresh(t, s)
      PROVE  Guessed(c)'
  <2> DEFINE from(route) == [NoTask EXCEPT !.route = route, !.cookie = s, !.pc = "validate"]
             late == [from("visit") EXCEPT !.pc = "cleanup", !.now = clock]
  <2>1. late.pc = "cleanup" /\ \A route : from(route).pc = "validate"
    BY DEF NoTask
  <2>2. UNCHANGED spent /\ (Begin(t, late) \/ \E route : Begin(t, from(route)))
    BY <1>6 DEF Visit, LogoutOrRefresh
  <2> HIDE DEF from, late
  <2> QED BY <1>4, <2>1, <2>2
<1>7. ASSUME NEW t \in Threads, CookieStep(t)
      PROVE  Guessed(c)'
  <2>1. UNCHANGED <<throttleVars, spent>> /\ task[t].pc \notin {"count_ip", "count_name"}
    BY <1>7 DEF CookieStep, StartCleanup, SweepSession, EndCleanup, Reject, Validate, Terminate,
                CheckExists, WriteCopy, At
  <2>2. Moves(t)
    BY <1>1, <1>7, StartMoves, SweepMoves, EndMoves, ValidateMoves, UpdateMoves, FinishMoves
       DEF CookieStep, Reject
  <2>3. Pending(c)' \subseteq Pending(c)
    BY <1>1, <2>1, <2>2, QuietMoves
  <2> QED BY <1>3, <2>1, <2>3
<1>8. CASE TimePasses \/ (\E d \in Counters : WindowEnds(d)) \/ UNCHANGED vars
  <2>1. UNCHANGED <<task, spent>> /\ (UNCHANGED throttleVars \/ \E d : Clear(d))
    BY <1>8 DEF TimePasses, WindowEnds, vars
  <2>2. Pending(c)' = Pending(c)
    BY <2>1 DEF Pending, Waits
  <2> QED BY <1>3, <2>1, <2>2
<1>9. Known \subseteq Sessions
  BY DEF Known
<1> QED BY <1>1, <1>5, <1>6, <1>7, <1>8, <1>9, GuardedLogin, GuardedFail DEF Next

\* The passwords looked at for a name or from an address are bounded, for any
\* number of requests: an attempt that is let through is one the counter counted,
\* one under way when it was cleared, or one a command of the limiter failed for
\* (track_login_attempt).
THEOREM Guesses == Spec => []GuessesAreBounded
<1>1. Guarded => GuessesAreBounded
  <2> SUFFICES ASSUME Guarded, NEW c \in Counters
               PROVE  guesses[c] <= LoginMax + Cardinality(Threads) + spent.faults
    BY DEF GuessesAreBounded
  <2>1. Typed /\ Guessed(c)
    BY DEF Guarded
  <2> DEFINE p == Cardinality(Pending(c))
  <2>2. /\ p \in Nat /\ guesses[c] \in Nat /\ count[c] \in Nat
        /\ LoginMax \in Nat /\ Cardinality(Threads) \in Nat /\ spent.faults \in Nat
    BY <2>1, Numbers
  <2>3. guesses[c] + p <= Capped(count[c]) + Cardinality(Threads) + spent.faults
    BY <2>1 DEF Guessed
  <2> HIDE DEF p
  <2> QED BY <2>2, <2>3 DEF Capped
<1> QED BY <1>1, GuardedInit, GuardedStep, PTL DEF Spec
------------------------------------------------------------------------
(* The limit of sessions: what a login has in hand of its user's          *)
(* sessions while it makes room for one more.                             *)

\* A session is in the list of its user, and a record that is written back names the
\* user it was read with.
Owned ==
  /\ Stored
  /\ \A s \in Sessions : store[s] # None => s \in index[store[s].data.user]
  /\ \A t \in Threads :
       task[t].copy # None => task[t].copy.user = store[task[t].session].data.user

\* Nobody changes whose a session is.
LEMMA UsersStay ==
  ASSUME Owned, [Next]_vars, NEW s \in Sessions, store[s] # None
  PROVE  /\ store'[s] # None /\ store'[s].data.user = store[s].data.user
         /\ store[s].data.user \in Users
<1>1. Typed /\ store \in [Sessions -> Keys \cup {None}]
  BY DEF Owned, Stored, Typed, TypeOK, StorageTypes
<1>2. store'[s] # None /\ store[s].data.user \in Users
  <2>1. store[s] \in Keys
    BY <1>1
  <2> QED BY <1>1, <2>1, Grows DEF Keys, Records
<1>3. ASSUME NEW t \in Threads, NEW new \in Sessions, CreateSession(t, new)
      PROVE  store'[s] = store[s]
  <2>1. \E u \in Users : s \in index[u]
    BY DEF Owned, Stored, Kept
  <2>2. new # s
    BY <1>1, <1>3, <2>1, CreateStores
  <2> QED BY <1>1, <1>3, <2>2, CreateStores
<1>4. ASSUME NEW t \in Threads, WriteCopy(t)
      PROVE  store'[s].data.user = store[s].data.user
  <2>1. task[t].copy # None
    BY <1>1, <1>4, WriteStores, NoRecordAssumption
  <2>2. task[t].copy.user = store[task[t].session].data.user
    BY <2>1 DEF Owned
  <2>3. PICK key \in Keys : /\ store' = [store EXCEPT ![task[t].session] = key]
                            /\ key.data = task[t].copy
    BY <1>1, <1>4, WriteStores
  <2>4. CASE s = task[t].session
    <3>1. store'[s] = key
      BY <1>1, <2>3, <2>4
    <3> QED BY <2>2, <2>3, <2>4, <3>1
  <2>5. CASE s # task[t].session
    BY <1>1, <2>3, <2>5
  <2> QED BY <2>4, <2>5
<1>5. ASSUME NEW t \in Threads, IssueToken(t)
      PROVE  store' = store
  BY <1>1, <1>5, IssueStores
<1> QED BY <1>1, <1>2, <1>3, <1>4, <1>5, StorageSteps DEF Creates, Writes, Issues

\* The lists only grow.
LEMMA ListsGrow ==
  ASSUME Owned, [Next]_vars, NEW u \in Users
  PROVE  index[u] \subseteq index'[u]
<1>1. Typed /\ index \in [Users -> SUBSET Sessions]
  BY DEF Owned, Stored, Typed, TypeOK, StorageTypes
<1>2. ASSUME NEW t \in Threads, NEW s \in Sessions, CreateSession(t, s)
      PROVE  index[u] \subseteq index'[u]
  <2>1. index' = [index EXCEPT ![task[t].user] = @ \cup {s}] /\ task[t].user \in Users
    BY <1>1, <1>2, CreateStores
  <2> QED BY <1>1, <2>1
<1>3. ASSUME NEW t \in Threads, WriteCopy(t) \/ IssueToken(t)
      PROVE  index' = index
  BY <1>1, <1>3, WriteStores, IssueStores
<1> QED BY <1>1, <1>2, <1>3, StorageSteps DEF Creates, Writes, Issues

\* A session that is stored for the first time is in the list at once.
LEMMA NewlyListed ==
  ASSUME Owned, [Next]_vars, NEW s \in Sessions, store[s] = None, store'[s] # None
  PROVE  s \in index'[store'[s].data.user]
<1>1. /\ Typed /\ store \in [Sessions -> Keys \cup {None}]
      /\ index \in [Users -> SUBSET Sessions]
  BY DEF Owned, Stored, Typed, TypeOK, StorageTypes
<1>2. ASSUME NEW t \in Threads, NEW new \in Sessions, CreateSession(t, new)
      PROVE  s \in index'[store'[s].data.user]
  <2>1. PICK key \in Keys : /\ store' = [store EXCEPT ![new] = key]
                            /\ key.data.user = task[t].user
    BY <1>1, <1>2, CreateStores
  <2>2. s = new /\ store'[s] = key
    BY <1>1, <2>1
  <2>3. task[t].user \in Users /\ index' = [index EXCEPT ![task[t].user] = @ \cup {new}]
    BY <1>1, <1>2, CreateStores
  <2> QED BY <1>1, <2>1, <2>2, <2>3
<1>3. ASSUME NEW t \in Threads, WriteCopy(t)
      PROVE  FALSE
  <2>1. task[t].session \in Sessions /\ task[t].session # None
    BY <1>1, <1>3, WriteStores, NoRecordAssumption
  <2>2. store[task[t].session] # None
    BY <2>1 DEF Owned, Stored, Held
  <2>3. task[t].session # s
    BY <2>2
  <2> QED BY <1>1, <1>3, <2>3, WriteStores
<1>4. ASSUME NEW t \in Threads, IssueToken(t)
      PROVE  FALSE
  BY <1>1, <1>4, IssueStores
<1> QED BY <1>2, <1>3, <1>4, <1>1, StorageSteps DEF Creates, Writes, Issues

\* Whose record a request has in hand after a step.
LEMMA CopyStaysOwned ==
  ASSUME Owned, [Next]_vars, NEW t \in Threads, task'[t].copy # None
  PROVE  task'[t].copy.user = store'[task'[t].session].data.user
<1> DEFINE r == task[t]
           n == task'[t]
<1>1. Typed /\ r \in Tasks /\ Shape(r) /\ Hand(r, n) /\ Held(r)
  BY NextOnward, TaskType DEF Owned, Stored, Onward
<1> HIDE DEF n
<1>2. n.copy # None
  BY DEF n
<1>3. /\ n.session \in Sessions /\ store[n.session] # None
      /\ n.copy.user = store[n.session].data.user
  <2>1. CASE n.copy = r.copy /\ n.session = r.session
    <3>1. r.session \in Sessions /\ r.session # None
      BY <1>1, <1>2, <2>1, NoRecordAssumption DEF Shape
    <3> QED BY <1>1, <1>2, <2>1, <3>1 DEF Held, Owned
  <2>2. CASE Copied(n)
    <3>1. /\ n.session \in Sessions /\ store[n.session] # None
          /\ Get(n.session) = store[n.session].data /\ Get(n.session) \in Records
      BY <1>1, <2>2, GetType DEF Copied
    <3> QED BY <2>2, <3>1 DEF Copied, Records
  <2> QED BY <1>1, <1>2, <2>1, <2>2 DEF Hand
<1> QED BY <1>3, UsersStay DEF n

\* It holds at the start and after every step.
LEMMA OwnedInit == Init => Owned
BY StoredInit DEF Init, StorageInit, NoTask, Owned

LEMMA OwnedStep == Owned /\ [Next]_vars => Owned'
<1> SUFFICES ASSUME Owned, [Next]_vars PROVE Owned'
  OBVIOUS
<1>1. Stored'
  BY StoredStep DEF Owned
<1>2. ASSUME NEW s \in Sessions, store'[s] # None
      PROVE  s \in index'[store'[s].data.user]
  <2>1. CASE store[s] = None
    BY <1>2, <2>1, NewlyListed
  <2>2. CASE store[s] # None
    <3>1. /\ s \in index[store[s].data.user] /\ store[s].data.user \in Users
          /\ store'[s].data.user = store[s].data.user
      BY <2>2, UsersStay DEF Owned
    <3> QED BY <3>1, ListsGrow
  <2> QED BY <2>1, <2>2
<1> QED BY <1>1, <1>2, CopyStaysOwned DEF Owned

\* A login that makes room, and the sessions that it knows of: those it has yet to read,
\* those it found in use, and the one that it is ending.
Looking(r) == r.route = "login" /\ (r.pc \in {"read", "evict"} \/ r.back = "evict")
SeenBy(r, s) ==
  \/ s \in r.todo
  \/ \E f \in r.found : f.session = s
  \/ r.back = "evict" /\ r.session = s

\* What a login has at each step: it only writes to end a session, and once it has read
\* all of them, those that it will not end are fewer than the limit.
Counted(r) ==
  /\ r.route = "none" => r.pc = "done"
  /\ r.route = "login" /\ r.pc \notin LoginSteps \cup {"token"} => r.back = "evict"
  /\ r.back = "evict" => r.pc \in {"exists", "write"} /\ ~r.copy.active
  /\ r.pc \in LoginSteps \ {"read", "evict"} => r.todo = {} /\ r.found = {} /\ r.excess = 0
  /\ r.pc = "evict" \/ r.back = "evict" =>
       r.todo = {} /\ Cardinality(r.found) < MaxSessions + r.excess

\* The next variables n of a request with the variables r: it still knows of the sessions
\* of S that it knew of, or it has just listed them.
Follows(r, n, S) ==
  Looking(r) /\ n.user = r.user /\ \A s \in S : SeenBy(r, s) => SeenBy(n, s)
Lists(n) == \A s \in ActiveOf(n.user) : SeenBy(n, s)

\* The session that the step of t ends in the storage, if any.
Ends(t) == IF At(t, "write") /\ ~task[t].copy.active THEN {task[t].session} ELSE {}

\* A step of request t that goes as it should.
Steady(t) ==
  LET r == task[t]
      n == task'[t]
  IN  /\ Counted(n)
      /\ Looking(n) => Lists(n) \/ Follows(r, n, ActiveOf(n.user) \ Ends(t))
      /\ n.alone => r.alone
      /\ ~(n.route = "login" /\ n.pc = "token")

\* One whose command fails: one session more that it does not know of, or all of them.
Slipping(t) ==
  LET r == task[t]
      n == task'[t]
  IN  /\ Counted(n) /\ ~n.alone
      /\ Looking(n) => ~Looking(r) \/ \E x : Follows(r, n, ActiveOf(n.user) \ {x})

\* The request of a thread, with what it has counted.
Ready(t) == Typed /\ Counted(task[t])

\* A request of another kind than a login, and an answer, have nothing to count.
LEMMA NotCounting ==
  ASSUME NEW n, Shape(n), n.route \in {"visit", "logout", "refresh"}
  PROVE  Counted(n) /\ ~Looking(n) /\ n.route # "login"
BY DEF Shape, Counted, Looking, LoginSteps

LEMMA NothingToCount == Counted(NoTask) /\ ~Looking(NoTask) /\ ~NoTask.alone /\ NoTask.route = "none"
BY DEF NoTask, Counted, Looking, LoginSteps

\* An answer.
LEMMA FinishSteady ==
  ASSUME Typed, NEW t \in Threads, Finish(t)
  PROVE  Steady(t) /\ Slipping(t)
<1>1. task'[t] = NoTask
  BY DEF Finish, Typed, TypeOK
<1> QED BY <1>1, NothingToCount DEF Steady, Slipping

\* A step of a request that is no login.
LEMMA CookieSteady ==
  ASSUME Typed, NEW t \in Threads, Moves(t),
         task'[t].route \in {"visit", "logout", "refresh"}, task'[t].alone => task[t].alone
  PROVE  Steady(t)
<1>1. Shape(task'[t])
  BY DEF Moves, Typed, TypeOK
<1> QED BY <1>1, NotCounting DEF Steady

\* The limit leaves room for one session more.
LEMMA ExcessCounts ==
  ASSUME NEW k \in Nat
  PROVE  Excess(k) \in Nat /\ k < MaxSessions + Excess(k)
BY CapAssumption DEF Excess

\* The loop over the sessions of a user ends with a count of those found.
LEMMA EnforcingCounts ==
  ASSUME NEW r \in Tasks, Shape(r), r.pc = "read", r.back # "evict"
  PROVE  LET n == Enforcing(r) IN
           /\ Counted(n) /\ Looking(n) /\ n.user = r.user /\ n.alone = r.alone
           /\ n.pc # "token" /\ \A s : SeenBy(n, s) <=> SeenBy(r, s)
<1>0. r.route = "login" /\ Cardinality(r.found) \in Nat
  BY FS_CardinalityType DEF Shape, LoginSteps
<1>1. CASE r.todo # {}
  BY <1>0, <1>1 DEF Enforcing, Counted, Looking, LoginSteps
<1>2. CASE r.todo = {}
  <2> DEFINE more == Excess(Cardinality(r.found))
             new == [r EXCEPT !.pc = "evict", !.excess = more]
  <2>1. /\ new.pc = "evict" /\ new.route = "login" /\ new.back = r.back /\ new.user = r.user
        /\ new.session = r.session /\ new.todo = {} /\ new.found = r.found
        /\ new.excess = more /\ new.alone = r.alone
    BY <1>0, <1>2 DEF Tasks
  <2>2. Cardinality(r.found) < MaxSessions + more
    BY <1>0, ExcessCounts
  <2>3. Enforcing(r) = new
    BY <1>2 DEF Enforcing
  <2> HIDE DEF new, more
  <2>4. Counted(new) /\ Looking(new)
    BY <2>1, <2>2 DEF Counted, Looking, LoginSteps
  <2>5. \A s : SeenBy(new, s) <=> SeenBy(r, s)
    BY <1>2, <2>1 DEF SeenBy
  <2> QED BY <2>1, <2>3, <2>4, <2>5
<1> QED BY <1>1, <1>2

\* The steps of a login up to the list of sessions.
LEMMA ApproachSteady ==
  ASSUME NEW t \in Threads, Ready(t),
         \/ CountAddress(t) \/ CountName(t) \/ Refuse(t) \/ Authenticate(t)
         \/ ClearAddress(t) \/ ClearName(t)
  PROVE  Steady(t)
<1> DEFINE r == task[t]
<1>0. Typed /\ r \in Tasks /\ Shape(r) /\ Counted(r)
  BY TaskType DEF Ready
<1>1. ASSUME r.pc \in LoginSteps \ {"read", "evict"}, NEW n \in Tasks,
             n.pc \in LoginSteps \ {"read", "evict"}, n.route = r.route, n.back = r.back,
             n.todo = r.todo, n.found = r.found, n.excess = r.excess, n.alone = r.alone,
             task'[t] = n
      PROVE  Steady(t)
  <2>1. r.back # "evict" /\ r.route = "login"
    BY <1>0, <1>1 DEF Counted, Shape, LoginSteps
  <2> QED BY <1>0, <1>1, <2>1 DEF Steady, Counted, Looking, LoginSteps
<1>2. ASSUME NEW c, NEW step \in {"count_ip", "count_name"},
             NEW next \in {"count_name", "password"}, CountStep(t, c, step, next)
      PROVE  Steady(t)
  <2> DEFINE allowed == r.allowed /\ Allowed(count'[c])
             n == [r EXCEPT !.pc = next, !.allowed = allowed]
  <2>1. task'[t] = n /\ r.pc = step
    BY <1>0, <1>2 DEF CountStep, At, Typed, TypeOK
  <2>2. allowed \in BOOLEAN /\ next \in Steps
    BY DEF Steps
  <2> HIDE DEF allowed
  <2>3. /\ n \in Tasks /\ n.pc = next /\ n.route = r.route /\ n.back = r.back
        /\ n.todo = r.todo /\ n.found = r.found /\ n.excess = r.excess /\ n.alone = r.alone
    BY <1>0, <2>2 DEF Tasks
  <2> HIDE DEF n
  <2> QED BY <1>1, <2>1, <2>3 DEF LoginSteps
<1>3. ASSUME NEW step \in {"clear_ip", "clear_name"}, Goto(t, step),
             r.pc \in LoginSteps \ {"read", "evict"}
      PROVE  Steady(t)
  <2> DEFINE n == [r EXCEPT !.pc = step]
  <2>1. task'[t] = n
    BY <1>0, <1>3 DEF Goto, Typed, TypeOK
  <2>2. step \in Steps
    BY DEF Steps
  <2>3. /\ n \in Tasks /\ n.pc = step /\ n.route = r.route /\ n.back = r.back
        /\ n.todo = r.todo /\ n.found = r.found /\ n.excess = r.excess /\ n.alone = r.alone
    BY <1>0, <2>2 DEF Tasks
  <2> HIDE DEF n
  <2> QED BY <1>1, <1>3, <2>1, <2>3 DEF LoginSteps
<1>4. ASSUME BeginCreation(t), r.pc \in LoginSteps \ {"read", "evict"}
      PROVE  Steady(t)
  <2> DEFINE n == [r EXCEPT !.pc = "list", !.now = clock]
  <2>1. task'[t] = n
    BY <1>0, <1>4 DEF BeginCreation, Typed, TypeOK
  <2>2. "list" \in Steps /\ clock \in Nat
    BY <1>0, TaskType DEF Steps
  <2>3. /\ n \in Tasks /\ n.pc = "list" /\ n.route = r.route /\ n.back = r.back
        /\ n.todo = r.todo /\ n.found = r.found /\ n.excess = r.excess /\ n.alone = r.alone
    BY <1>0, <2>2 DEF Tasks
  <2> HIDE DEF n
  <2> QED BY <1>1, <1>4, <2>1, <2>3 DEF LoginSteps
<1>5. CASE CountAddress(t)
  BY <1>2, <1>5, Zenon DEF CountAddress
<1>6. CASE CountName(t)
  BY <1>2, <1>6, Zenon DEF CountName
<1>7. CASE Refuse(t)
  BY <1>0, <1>7, FinishSteady DEF Refuse
<1>8. CASE Authenticate(t) \/ ClearAddress(t) \/ ClearName(t)
  <2>1. r.pc \in LoginSteps \ {"read", "evict"}
    BY <1>8 DEF Authenticate, ClearAddress, ClearName, At, LoginSteps
  <2> QED BY <1>0, <1>3, <1>4, <1>8, <2>1, FinishSteady DEF Authenticate, ClearAddress, ClearName
<1> QED BY <1>5, <1>6, <1>7, <1>8

\* The list has every session of the user that is in use.
LEMMA ListSteady ==
  ASSUME NEW t \in Threads, Ready(t), Owned, ListSessions(t)
  PROVE  Steady(t)
<1> DEFINE r == task[t]
           listed == IF At(t, "list") THEN index[r.user] ELSE Scan
           q == [r EXCEPT !.pc = "read", !.todo = listed]
<1>0. Typed /\ r \in Tasks /\ Shape(r) /\ Counted(r)
  BY TaskType DEF Ready
<1>1. /\ r.pc \in {"list", "list_by_scan"} /\ r.route = "login" /\ r.user \in Users
      /\ r.back # "evict"
  BY <1>0 DEF ListSessions, LoginSteps, Shape, Counted
<1>2. listed \in SUBSET Sessions
  BY <1>0, <1>1 DEF Scan, Typed, TypeOK, StorageTypes
<1>3. task'[t] = Enforcing(q)
  BY <1>0 DEF ListSessions, Typed, TypeOK
<1>4. \A s \in ActiveOf(r.user) : s \in listed
  BY DEF Owned, ActiveOf, Active, InUse, Get, Exists, Scan
<1> HIDE DEF listed
<1>5. q \in Tasks
  <2>1. "read" \in Steps
    BY DEF Steps
  <2> QED BY <1>0, <1>2, <2>1 DEF Tasks
<1>6. /\ q.pc = "read" /\ q.route = r.route /\ q.back = r.back /\ q.user = r.user
      /\ q.from = r.from /\ q.cookie = r.cookie /\ q.session = r.session /\ q.copy = r.copy
      /\ q.found = r.found /\ q.todo = listed /\ q.alone = r.alone
  BY <1>0 DEF Tasks
<1> HIDE DEF q
<1>7. Shape(q)
  BY <1>0, <1>1, <1>6 DEF Shape, LoginSteps
<1>8. \A s \in ActiveOf(q.user) : SeenBy(q, s)
  BY <1>4, <1>6 DEF SeenBy
<1> DEFINE n == Enforcing(q)
<1>9. /\ Counted(n) /\ n.user = q.user /\ n.alone = q.alone /\ n.pc # "token"
      /\ \A s : SeenBy(n, s) <=> SeenBy(q, s)
  BY <1>1, <1>5, <1>6, <1>7, EnforcingCounts
<1> HIDE DEF n
<1> QED BY <1>3, <1>6, <1>8, <1>9 DEF Steady, Lists, n

\* A session that was read and is in use is one of those found.
LEMMA ReadSteady ==
  ASSUME NEW t \in Threads, Ready(t), NEW s \in Sessions, ReadSession(t, s)
  PROVE  Steady(t)
<1> DEFINE r == task[t]
           data == Get(s)
           active == IF InUse(data) /\ data.user = r.user
                     THEN {[session |-> s, last |-> data.last]} ELSE {}
           q == [r EXCEPT !.todo = @ \ {s}, !.found = @ \cup active]
<1>0. Typed /\ r \in Tasks /\ Shape(r) /\ Counted(r)
  BY TaskType DEF Ready
<1>1. r.pc = "read" /\ task'[t] = Enforcing(q) /\ r.back # "evict" /\ r.route = "login"
  <2>1. r.pc = "read" /\ task' = [task EXCEPT ![t] = Enforcing(q)]
    BY DEF ReadSession, At
  <2> QED BY <1>0, <2>1 DEF Typed, TypeOK, Counted, Shape, LoginSteps
<1>2. /\ r.found \cup active \in SUBSET [session : Sessions, last : Nat]
      /\ IsFiniteSet(r.found \cup active)
  <2>1. r.found \in SUBSET [session : Sessions, last : Nat] /\ IsFiniteSet(r.found)
    BY <1>0 DEF Tasks, Shape
  <2>2. CASE active = {}
    BY <2>1, <2>2
  <2>3. CASE InUse(data)
    <3>1. data \in Records
      BY <1>0, <2>3, GetType DEF InUse
    <3>2. [session |-> s, last |-> data.last] \in [session : Sessions, last : Nat]
      BY <3>1 DEF Records
    <3> QED BY <2>1, <2>2, <3>2, FS_AddElement
  <2> QED BY <2>2, <2>3
<1>3. s \in ActiveOf(r.user) => \E f \in active : f.session = s
  <2> SUFFICES ASSUME s \in ActiveOf(r.user) PROVE \E f \in active : f.session = s
    OBVIOUS
  <2>1. InUse(data) /\ data.user = r.user
    BY DEF ActiveOf, Active, InUse, Get
  <2>2. active = {[session |-> s, last |-> data.last]}
    BY <2>1
  <2> QED BY <2>2
<1>4. r.todo \ {s} \in SUBSET Sessions
  BY <1>0 DEF Tasks
<1> HIDE DEF active
<1>5. q \in Tasks
  BY <1>0, <1>2, <1>4 DEF Tasks
<1>6. /\ q.pc = r.pc /\ q.route = r.route /\ q.back = r.back /\ q.user = r.user
      /\ q.from = r.from /\ q.cookie = r.cookie /\ q.session = r.session /\ q.copy = r.copy
      /\ q.found = r.found \cup active /\ q.todo = r.todo \ {s} /\ q.alone = r.alone
  BY <1>0 DEF Tasks
<1> HIDE DEF q
<1>7. Shape(q)
  BY <1>0, <1>2, <1>6 DEF Shape
<1>8. \A x \in ActiveOf(r.user) : SeenBy(r, x) => SeenBy(q, x)
  BY <1>1, <1>3, <1>6 DEF SeenBy
<1> DEFINE n == Enforcing(q)
<1>9. /\ Counted(n) /\ n.user = q.user /\ n.alone = q.alone /\ n.pc # "token"
      /\ \A x : SeenBy(n, x) <=> SeenBy(q, x)
  BY <1>1, <1>5, <1>6, <1>7, EnforcingCounts
<1> HIDE DEF n
<1>10. Looking(r)
  BY <1>1 DEF Looking
<1> QED BY <1>1, <1>6, <1>8, <1>9, <1>10 DEF Steady, Follows, n

\* One session less to end.
LEMMA WithoutCounts ==
  ASSUME NEW r \in Tasks, Shape(r), Counted(r), r.pc = "evict", r.excess > 0,
         NEW old \in r.found
  PROVE  LET q == Without(r, old) IN
           /\ q.found = r.found \ {old} /\ q.excess = r.excess - 1
           /\ q.pc = "evict" /\ q.todo = {} /\ q.route = "login" /\ q.back = r.back
           /\ q.user = r.user /\ q.session = r.session /\ q.alone = r.alone /\ q.copy = r.copy
           /\ Cardinality(q.found) < MaxSessions + q.excess
           /\ r.back # "evict" /\ r.route = "login" /\ r.todo = {}
<1> DEFINE found == r.found \ {old}
           less == r.excess - 1
           q == [r EXCEPT !.found = found, !.excess = less]
<1>1. r.route = "login" /\ r.back # "evict" /\ r.todo = {}
  BY DEF Shape, Counted, LoginSteps
<1>2. Cardinality(found) = Cardinality(r.found) - 1 /\ Cardinality(r.found) \in Nat
  BY FS_RemoveElement, FS_CardinalityType DEF Shape
<1>3. Cardinality(found) < MaxSessions + less
  <2>1. Cardinality(r.found) < MaxSessions + r.excess
    BY DEF Counted
  <2>2. r.excess \in Nat
    BY DEF Tasks
  <2> QED BY <1>2, <2>1, <2>2, CapAssumption
<1>4. q = Without(r, old)
  BY DEF Without
<1> HIDE DEF found, less
<1>5. /\ q.found = found /\ q.excess = less /\ q.pc = r.pc /\ q.todo = r.todo
      /\ q.route = r.route /\ q.back = r.back /\ q.user = r.user /\ q.session = r.session
      /\ q.alone = r.alone /\ q.copy = r.copy
  BY DEF Tasks
<1> HIDE DEF q
<1> QED BY <1>1, <1>3, <1>4, <1>5 DEF found, less

\* The oldest session is in hand until it is ended; one that is gone is not in use.
LEMMA EvictSteady ==
  ASSUME NEW t \in Threads, Ready(t), EvictOldest(t)
  PROVE  Steady(t)
<1> DEFINE r == task[t]
<1>0. Typed /\ r \in Tasks /\ Shape(r) /\ Counted(r)
  BY TaskType DEF Ready
<1> PICK old \in Oldest(task[t].found) :
      task' = [task EXCEPT ![t] = Ending(Without(task[t], old), old.session, "evict")]
  BY <1>0 DEF EvictOldest, Typed, TypeOK
<1> DEFINE q == Without(r, old)
           n == Ending(q, old.session, "evict")
           on == ActiveOf(r.user)
<1>1. r.pc = "evict" /\ r.excess > 0 /\ old \in r.found
  BY DEF EvictOldest, At, Oldest
<1>2. /\ q.found = r.found \ {old} /\ q.pc = "evict" /\ q.todo = {} /\ q.route = "login"
      /\ q.back = r.back /\ q.user = r.user /\ q.alone = r.alone
      /\ Cardinality(q.found) < MaxSessions + q.excess
      /\ r.back # "evict" /\ r.route = "login" /\ r.todo = {}
  BY <1>0, <1>1, WithoutCounts
<1>3. Looking(r) /\ q \in Tasks
  BY <1>0, <1>1, <1>2, WithoutShape DEF Looking
<1>4. task'[t] = n
  BY <1>0 DEF Typed, TypeOK
<1>5. ASSUME NEW s \in on, SeenBy(r, s)
      PROVE  s = old.session \/ \E f \in q.found : f.session = s
  BY <1>2, <1>5 DEF SeenBy
<1>6. CASE Get(old.session) = None
  <2>1. n = q
    BY <1>6 DEF Ending
  <2>2. \A s \in on : s # old.session
    BY <1>6 DEF ActiveOf, Active, InUse
  <2> HIDE DEF q, n, on
  <2>3. Counted(q)
    BY <1>2 DEF Counted, LoginSteps
  <2>4. \A s \in on : SeenBy(r, s) => SeenBy(q, s)
    BY <1>5, <2>2 DEF SeenBy
  <2> QED BY <1>2, <1>3, <1>4, <2>1, <2>3, <2>4 DEF Steady, Follows, on
<1>7. CASE Get(old.session) # None
  <2> DEFINE ended == [Get(old.session) EXCEPT !.active = FALSE]
             new == [q EXCEPT !.pc = "exists", !.back = "evict", !.session = old.session,
                              !.copy = ended]
  <2>1. n = new
    BY <1>7 DEF Ending
  <2>2. ~ended.active
    <3>1. old.session \in Sessions
      BY <1>0, <1>1 DEF Tasks
    <3>2. Get(old.session) \in Records
      BY <1>0, <1>7, <3>1, GetType
    <3> QED BY <3>2 DEF Records
  <2> HIDE DEF q, ended, n, on
  <2>3. /\ new.pc = "exists" /\ new.back = "evict" /\ new.session = old.session
        /\ new.copy = ended /\ new.found = q.found /\ new.todo = q.todo /\ new.user = q.user
        /\ new.excess = q.excess /\ new.alone = q.alone /\ new.route = q.route
    BY <1>3 DEF Tasks
  <2> HIDE DEF new
  <2>4. Counted(new)
    BY <1>2, <2>2, <2>3 DEF Counted, LoginSteps
  <2>5. \A s \in on : SeenBy(r, s) => SeenBy(new, s)
    BY <1>5, <2>3 DEF SeenBy
  <2> QED BY <1>2, <1>3, <1>4, <2>1, <2>3, <2>4, <2>5 DEF Steady, Follows, on
<1> QED BY <1>6, <1>7

\* The end of an update: what it was to end is not in use then.
LEMMA ReturnSteady ==
  ASSUME NEW t \in Threads, Ready(t), Updating(t), Return(t, task[t].back),
         task[t].back = "evict" => task[t].session \notin ActiveOf(task[t].user) \ Ends(t)
  PROVE  Steady(t)
<1> DEFINE r == task[t]
           back == r.back
           n == [r EXCEPT !.pc = back, !.back = "done", !.copy = None]
           on == ActiveOf(r.user) \ Ends(t)
<1>0. Typed /\ r \in Tasks /\ Shape(r) /\ Counted(r) /\ r.pc \in {"exists", "write"}
  BY TaskType DEF Ready, Updating
<1>1. CASE back = "done"
  BY <1>0, <1>1, FinishSteady DEF Return
<1>2. CASE back # "done"
  <2>1. task'[t] = n
    BY <1>0, <1>2 DEF Return, Typed, TypeOK
  <2>2. /\ n.pc = back /\ n.back = "done" /\ n.found = r.found /\ n.todo = r.todo
        /\ n.user = r.user /\ n.excess = r.excess /\ n.alone = r.alone /\ n.route = r.route
    BY <1>0 DEF Tasks
  <2> HIDE DEF n
  <2>3. CASE back = "evict"
    <3>1. r.route = "login" /\ r.todo = {} /\ Cardinality(r.found) < MaxSessions + r.excess
      BY <1>0, <2>3 DEF Shape, Counted
    <3>2. Counted(n) /\ Looking(r)
      BY <2>2, <2>3, <3>1 DEF Counted, Looking, LoginSteps
    <3>3. \A s \in on : SeenBy(r, s) => SeenBy(n, s)
      BY <2>2, <2>3 DEF SeenBy
    <3> QED BY <2>1, <2>2, <2>3, <3>2, <3>3 DEF Steady, Follows
  <2>4. CASE back # "evict"
    <3>1. r.route \in {"visit", "logout", "refresh"}
      BY <1>0, <2>4 DEF Counted, Tasks, LoginSteps
    <3>2. Moves(t)
      BY <1>0, ReturnMoves
    <3> QED BY <1>0, <2>1, <2>2, <3>1, <3>2, CookieSteady
  <2> QED BY <2>3, <2>4
<1> QED BY <1>1, <1>2

\* A session whose key is gone is not written, and one that was written is ended.
LEMMA UpdateSteady ==
  ASSUME NEW t \in Threads, Ready(t), CheckExists(t) \/ WriteCopy(t)
  PROVE  Steady(t)
<1> DEFINE r == task[t]
           n == [r EXCEPT !.pc = "write"]
<1>0. /\ Typed /\ r \in Tasks /\ Shape(r) /\ Counted(r) /\ r.pc \in {"exists", "write"}
      /\ Updating(t)
  BY TaskType DEF Ready, CheckExists, WriteCopy, At, Updating
<1>1. CASE CheckExists(t) /\ Exists(r.session)
  <2>1. task'[t] = n
    BY <1>0, <1>1 DEF CheckExists, Goto, Typed, TypeOK
  <2>2. /\ n.pc = "write" /\ n.back = r.back /\ n.found = r.found /\ n.todo = r.todo
        /\ n.user = r.user /\ n.excess = r.excess /\ n.alone = r.alone /\ n.route = r.route
        /\ n.session = r.session /\ n.copy = r.copy
    BY <1>0 DEF Tasks
  <2> HIDE DEF n
  <2>3. CASE r.route = "login"
    <3>1. r.back = "evict"
      BY <1>0, <2>3 DEF Counted, LoginSteps
    <3>2. Counted(n) /\ Looking(r)
      BY <1>0, <2>2, <2>3, <3>1 DEF Counted, Looking, LoginSteps
    <3>3. \A s : SeenBy(r, s) => SeenBy(n, s)
      BY <2>2 DEF SeenBy
    <3> QED BY <2>1, <2>2, <3>2, <3>3 DEF Steady, Follows
  <2>4. CASE r.route # "login"
    <3>1. r.route \in {"visit", "logout", "refresh"}
      BY <1>0, <2>4 DEF Counted, Tasks
    <3>2. Moves(t)
      BY <1>0, <1>1, UpdateMoves
    <3> QED BY <1>0, <2>1, <2>2, <3>1, <3>2, CookieSteady
  <2> QED BY <2>3, <2>4
<1>2. CASE CheckExists(t) /\ ~Exists(r.session)
  <2>1. r.session \notin ActiveOf(r.user)
    BY <1>2 DEF ActiveOf, Active, InUse, Get
  <2>2. Return(t, r.back)
    BY <1>2 DEF CheckExists
  <2> QED BY <1>0, <2>1, <2>2, ReturnSteady
<1>3. CASE WriteCopy(t)
  <2>1. r.back = "evict" => r.session \in Ends(t)
    BY <1>0, <1>3 DEF Ends, Counted, WriteCopy
  <2>2. Return(t, r.back)
    BY <1>3 DEF WriteCopy
  <2> QED BY <1>0, <2>1, <2>2, ReturnSteady
<1> QED BY <1>1, <1>2, <1>3

\* The steps of the other requests.
LEMMA VisitSteady ==
  ASSUME NEW t \in Threads, Ready(t),
         \/ StartCleanup(t) \/ EndCleanup(t) \/ Reject(t) \/ Validate(t) \/ Terminate(t)
         \/ \E s \in Sessions : SweepSession(t, s)
  PROVE  Steady(t)
<1> DEFINE r == task[t]
           n == task'[t]
<1>0. Typed /\ r \in Tasks /\ Shape(r) /\ Counted(r)
  BY TaskType DEF Ready
<1>1. CASE Finish(t)
  BY <1>0, <1>1, FinishSteady
<1>2. r.route \in {"visit", "logout", "refresh"}
  <2>1. r.pc \in {"cleanup", "sweep", "validate", "terminate"}
    BY DEF StartCleanup, EndCleanup, Reject, Validate, Terminate, SweepSession, At
  <2>2. CASE r.pc = "terminate"
    BY <1>0, <2>2 DEF Counted, Tasks, LoginSteps
  <2> QED BY <1>0, <2>1, <2>2 DEF Shape
<1>3. ASSUME NEW q, NEW s, NEW back, task'[t] = Ending(q, s, back), q \in Tasks,
             q.route = r.route, q.alone = r.alone
      PROVE  n.route = r.route /\ n.alone = r.alone
  BY <1>3 DEF Ending, Tasks
<1>4. ASSUME ~Finish(t) PROVE n.route = r.route /\ n.alone = r.alone
  <2>1. CASE StartCleanup(t)
    BY <1>0, <2>1 DEF StartCleanup, Typed, TypeOK, Tasks
  <2>2. CASE EndCleanup(t)
    BY <1>0, <2>2 DEF EndCleanup, Typed, TypeOK, Tasks
  <2>3. CASE Validate(t)
    BY <1>0, <2>3 DEF Validate, Accept, Typed, TypeOK, Tasks
  <2>4. CASE Terminate(t)
    <3>1. task'[t] = Ending(r, r.session, "done")
      BY <1>0, <1>4, <2>4 DEF Terminate, Typed, TypeOK
    <3> QED BY <1>0, <1>3, <3>1
  <2>5. ASSUME NEW s \in Sessions, SweepSession(t, s)
        PROVE  n.route = r.route /\ n.alone = r.alone
    <3> DEFINE q == [r EXCEPT !.todo = @ \ {s}]
    <3>1. task'[t] = Ending(q, s, "sweep") \/ task'[t] = q
      BY <1>0, <2>5 DEF SweepSession, Typed, TypeOK
    <3>2. q \in Tasks /\ q.route = r.route /\ q.alone = r.alone
      BY <1>0 DEF Tasks
    <3> HIDE DEF q
    <3> QED BY <1>3, <3>1, <3>2
  <2> QED BY <1>4, <2>1, <2>2, <2>3, <2>4, <2>5 DEF Reject
<1>5. Moves(t)
  BY <1>0, StartMoves, SweepMoves, EndMoves, ValidateMoves, UpdateMoves, FinishMoves DEF Reject
<1> QED BY <1>0, <1>1, <1>2, <1>4, <1>5, CookieSteady

\* A command that fails: a list that is not to be had leaves a login blind.
LEMMA FailOverSlips ==
  ASSUME NEW t \in Threads, Ready(t), FailOver(t)
  PROVE  Slipping(t)
<1> DEFINE r == task[t]
           step == OnFailure[r.pc]
           allowed == r.allowed \/ (At(t, "count_name") /\ ~FailOpen)
           now == IF At(t, "clear_name") THEN clock ELSE r.now
           n == [r EXCEPT !.pc = step, !.allowed = allowed, !.now = now, !.alone = FALSE]
<1>0. Typed /\ r \in Tasks /\ Shape(r) /\ Counted(r)
  BY TaskType DEF Ready
<1>1. /\ r.pc \in {"count_ip", "count_name", "clear_ip", "clear_name", "list", "list_by_scan",
                   "cleanup"}
      /\ step \in {"count_name", "password", "clear_name", "list", "list_by_scan", "evict",
                   "validate"}
      /\ step = "evict" => r.pc = "list_by_scan"
      /\ step = "validate" <=> r.pc = "cleanup"
  BY DEF FailOver, OnFailure
<1>2. task'[t] = n
  BY <1>0 DEF FailOver, Typed, TypeOK
<1> HIDE DEF step, allowed, now
<1>3. /\ n.pc = step /\ n.back = r.back /\ n.found = r.found /\ n.todo = r.todo
      /\ n.user = r.user /\ n.excess = r.excess /\ ~n.alone /\ n.route = r.route
      /\ n.copy = r.copy
  BY <1>0 DEF Tasks
<1> HIDE DEF n
<1>4. r.back # "evict"
  BY <1>0, <1>1 DEF Counted
<1>5. ~Looking(r)
  BY <1>1, <1>4 DEF Looking
<1>6. Counted(n)
  <2>1. CASE r.pc = "cleanup"
    BY <1>0, <1>1, <1>3, <1>4, <2>1 DEF Counted, Shape, LoginSteps
  <2>2. CASE r.pc # "cleanup"
    <3>1. r.route = "login" /\ r.todo = {} /\ r.found = {} /\ r.excess = 0
      BY <1>0, <1>1, <2>2 DEF Counted, Shape, LoginSteps
    <3>2. Cardinality(r.found) < MaxSessions + r.excess
      BY <3>1, FS_EmptySet, CapAssumption
    <3> QED BY <1>1, <1>3, <1>4, <2>2, <3>1, <3>2 DEF Counted, LoginSteps
  <2> QED BY <2>1, <2>2
<1> QED BY <1>2, <1>3, <1>5, <1>6 DEF Slipping

\* A session that could not be read is one that the login does not know of.
LEMMA SkipSlips ==
  ASSUME NEW t \in Threads, Ready(t), SkipSession(t)
  PROVE  Slipping(t)
<1> PICK s \in task[t].todo :
      LET rest == [task[t] EXCEPT !.todo = @ \ {s}, !.alone = FALSE]
      IN task' = [task EXCEPT ![t] = IF At(t, "read") THEN Enforcing(rest) ELSE rest]
  BY DEF SkipSession
<1> DEFINE r == task[t]
<1>0. Typed /\ r \in Tasks /\ Shape(r) /\ Counted(r)
  BY TaskType DEF Ready
<1> DEFINE q == [r EXCEPT !.todo = @ \ {s}, !.alone = FALSE]
<1>1. r.pc \in {"read", "sweep"} /\ task'[t] = IF r.pc = "read" THEN Enforcing(q) ELSE q
  BY <1>0 DEF SkipSession, At, Typed, TypeOK
<1>2. q \in Tasks
  <2>1. r.todo \ {s} \in SUBSET Sessions
    BY <1>0 DEF Tasks
  <2> QED BY <1>0, <2>1 DEF Tasks
<1>3. /\ q.pc = r.pc /\ q.route = r.route /\ q.back = r.back /\ q.user = r.user
      /\ q.from = r.from /\ q.cookie = r.cookie /\ q.session = r.session /\ q.copy = r.copy
      /\ q.found = r.found /\ q.todo = r.todo \ {s} /\ ~q.alone
  BY <1>0 DEF Tasks
<1> HIDE DEF q
<1>4. Shape(q)
  BY <1>0, <1>3 DEF Shape
<1>5. CASE r.pc = "read"
  <2> DEFINE n == Enforcing(q)
  <2>1. r.back # "evict" /\ r.route = "login" /\ Looking(r)
    BY <1>0, <1>5 DEF Counted, Shape, LoginSteps, Looking
  <2>2. /\ Counted(n) /\ n.user = q.user /\ n.alone = q.alone
        /\ \A x : SeenBy(n, x) <=> SeenBy(q, x)
    BY <1>2, <1>3, <1>4, <1>5, <2>1, EnforcingCounts
  <2> HIDE DEF n
  <2>3. Follows(r, n, ActiveOf(n.user) \ {s})
    BY <1>3, <2>1, <2>2 DEF Follows, SeenBy
  <2> QED BY <1>1, <1>3, <1>5, <2>2, <2>3 DEF Slipping, n
<1>6. CASE r.pc = "sweep"
  <2>1. q.route \in {"visit", "logout", "refresh"}
    BY <1>0, <1>3, <1>6 DEF Shape
  <2> QED BY <1>1, <1>3, <1>4, <1>6, <2>1, NotCounting DEF Slipping
<1> QED BY <1>1, <1>5, <1>6

\* A session that could not be ended is one that the login does not count with any more.
LEMMA GiveUpSlips ==
  ASSUME NEW t \in Threads, Ready(t), GiveUpEnding(t)
  PROVE  Slipping(t)
<1> DEFINE r == task[t]
<1>0. Typed /\ r \in Tasks /\ Shape(r) /\ Counted(r)
  BY TaskType DEF Ready
<1>1. CASE Finish(t)
  BY <1>0, <1>1, FinishSteady
<1>2. ASSUME r.pc = "evict", r.excess > 0, NEW old \in Oldest(r.found),
             task' = [task EXCEPT ![t] = [Without(@, old) EXCEPT !.alone = FALSE]]
      PROVE  Slipping(t)
  <2> DEFINE q == Without(r, old)
             n == [q EXCEPT !.alone = FALSE]
  <2>1. task'[t] = n
    BY <1>0, <1>2 DEF Typed, TypeOK
  <2>2. old \in r.found
    BY <1>2 DEF Oldest
  <2>3. /\ q.found = r.found \ {old} /\ q.pc = "evict" /\ q.todo = {} /\ q.route = "login"
        /\ q.back = r.back /\ q.user = r.user
        /\ Cardinality(q.found) < MaxSessions + q.excess
        /\ r.back # "evict" /\ r.route = "login" /\ r.todo = {}
    BY <1>0, <1>2, <2>2, WithoutCounts
  <2>4. q \in Tasks /\ Looking(r)
    BY <1>0, <1>2, <2>3, WithoutShape DEF Looking
  <2> HIDE DEF q
  <2>5. /\ n.pc = q.pc /\ n.back = q.back /\ n.found = q.found /\ n.todo = q.todo
        /\ n.user = q.user /\ n.excess = q.excess /\ ~n.alone /\ n.route = q.route
    BY <2>4 DEF Tasks
  <2> HIDE DEF n
  <2>6. Counted(n)
    BY <2>3, <2>5 DEF Counted, LoginSteps
  <2>7. Follows(r, n, ActiveOf(n.user) \ {old.session})
    BY <2>3, <2>4, <2>5 DEF Follows, SeenBy
  <2> QED BY <2>1, <2>5, <2>6, <2>7 DEF Slipping
<1>3. ASSUME Updating(t), ~r.copy.active, r.back # "done",
             task' = [task EXCEPT ![t].pc = r.back, ![t].back = "done",
                                  ![t].copy = None, ![t].alone = FALSE]
      PROVE  Slipping(t)
  <2> DEFINE back == r.back
             n == [r EXCEPT !.pc = back, !.back = "done", !.copy = None, !.alone = FALSE]
  <2>0. r.pc \in {"exists", "write"}
    BY <1>3 DEF Updating
  <2>1. task'[t] = n
    BY <1>0, <1>3 DEF Typed, TypeOK
  <2>2. /\ n.pc = back /\ n.back = "done" /\ n.found = r.found /\ n.todo = r.todo
        /\ n.user = r.user /\ n.excess = r.excess /\ ~n.alone /\ n.route = r.route
    BY <1>0 DEF Tasks
  <2> HIDE DEF n
  <2>3. CASE back = "evict"
    <3>1. r.route = "login" /\ r.todo = {} /\ Cardinality(r.found) < MaxSessions + r.excess
      BY <1>0, <2>3 DEF Shape, Counted
    <3>2. Counted(n) /\ Looking(r)
      BY <2>2, <2>3, <3>1 DEF Counted, Looking, LoginSteps
    <3>3. Follows(r, n, ActiveOf(n.user) \ {r.session})
      BY <2>2, <3>1, <3>2 DEF Follows, SeenBy
    <3> QED BY <2>1, <2>2, <3>2, <3>3 DEF Slipping
  <2>4. CASE back # "evict"
    <3>1. r.route \in {"visit", "logout", "refresh"}
      BY <1>0, <2>0, <2>4 DEF Counted, Tasks, LoginSteps
    <3>2. Counted(n) /\ ~Looking(n)
      BY <1>0, <2>0, <2>2, <2>4, <3>1 DEF Counted, Looking, Shape, LoginSteps
    <3> QED BY <2>1, <2>2, <3>2 DEF Slipping
  <2> QED BY <2>3, <2>4
<1>4. CASE r.pc = "evict" /\ r.excess > 0 /\ \E old \in Oldest(r.found) :
             task' = [task EXCEPT ![t] = [Without(@, old) EXCEPT !.alone = FALSE]]
  BY <1>2, <1>4, Zenon
<1>5. CASE Updating(t) /\ ~r.copy.active
             /\ IF r.back = "done" THEN Finish(t)
                ELSE task' = [task EXCEPT ![t].pc = r.back, ![t].back = "done",
                                          ![t].copy = None, ![t].alone = FALSE]
  BY <1>1, <1>3, <1>5
<1> QED BY <1>1, <1>4, <1>5 DEF GiveUpEnding, At

------------------------------------------------------------------------
(* Room: why the sessions A of a user stay within the limit and the slack *)
(* k.  L are the logins that make room for one more, U[t] the sessions    *)
(* that login t does not know of.  They are ordered by when they listed   *)
(* the sessions.  Those before the cut may each store one session more    *)
(* with no regard to A; from the cut on, a login knows of all sessions    *)
(* but as many as the slack leaves beside the logins before it.           *)

Before(L, rank, c) == {v \in L : rank[v] < c}

Order(A, L, U, k, N, rank, cut) ==
  /\ cut \in -N..N
  /\ \A v \in L : rank[v] \in -N..N
  /\ \A v, w \in L : rank[v] = rank[w] => v = w
  /\ Cardinality(A) + Cardinality(Before(L, rank, cut)) <= MaxSessions + k
  /\ \A v \in L : rank[v] >= cut =>
       Cardinality(U[v]) + Cardinality(Before(L, rank, rank[v])) <= k

Room(A, L, U, k) ==
  \E N \in Nat, cut \in Int : \E rank \in [Threads -> Int] : Order(A, L, U, k, N, rank, cut)

\* The logins that come before one are finitely many.
LEMMA BeforeFinite ==
  ASSUME NEW L \in SUBSET Threads, NEW rank, NEW c
  PROVE  /\ IsFiniteSet(Before(L, rank, c)) /\ Cardinality(Before(L, rank, c)) \in Nat
         /\ \A B \in SUBSET Before(L, rank, c) :
              /\ IsFiniteSet(B) /\ Cardinality(B) \in Nat
              /\ Cardinality(B) <= Cardinality(Before(L, rank, c))
<1>1. Before(L, rank, c) \in SUBSET Threads
  BY DEF Before
<1>2. IsFiniteSet(Before(L, rank, c))
  BY <1>1, ThreadsAssumption, FS_Subset
<1> QED BY <1>2, FS_Subset, FS_CardinalityType

\* One element more.
LEMMA AddOne ==
  ASSUME NEW S, IsFiniteSet(S), NEW x
  PROVE  /\ IsFiniteSet(S \cup {x}) /\ Cardinality(S) \in Nat
         /\ Cardinality(S \cup {x}) \in Nat
         /\ Cardinality(S \cup {x}) <= Cardinality(S) + 1
<1>1. IsFiniteSet(S \cup {x})
  BY FS_AddElement
<1>2. Cardinality(S) \in Nat /\ Cardinality(S \cup {x}) \in Nat
  BY <1>1, FS_CardinalityType
<1>3. Cardinality(S \cup {x}) = IF x \in S THEN Cardinality(S) ELSE Cardinality(S) + 1
  BY FS_AddElement
<1> QED BY <1>1, <1>2, <1>3

\* With fewer sessions, fewer logins and more slack there still is room.
LEMMA RoomLess ==
  ASSUME NEW A, IsFiniteSet(A), NEW B \in SUBSET A, NEW L \in SUBSET Threads,
         NEW M \in SUBSET L, NEW U, NEW V, NEW k \in Int, NEW j \in Int, k <= j,
         \A v \in M : U[v] \in SUBSET A /\ V[v] \in SUBSET U[v],
         Room(A, L, U, k)
  PROVE  Room(B, M, V, j)
<1> PICK N \in Nat, cut \in Int : \E rank \in [Threads -> Int] : Order(A, L, U, k, N, rank, cut)
  BY DEF Room
<1> PICK rank \in [Threads -> Int] : Order(A, L, U, k, N, rank, cut)
  OBVIOUS
<1>1. ASSUME NEW c
      PROVE  /\ Cardinality(Before(M, rank, c)) \in Nat /\ Cardinality(Before(L, rank, c)) \in Nat
             /\ Cardinality(Before(M, rank, c)) <= Cardinality(Before(L, rank, c))
  <2>1. Before(M, rank, c) \in SUBSET Before(L, rank, c)
    BY DEF Before
  <2> QED BY <2>1, BeforeFinite
<1>2. Cardinality(B) + Cardinality(Before(M, rank, cut)) <= MaxSessions + j
  <2>1. Cardinality(A) \in Nat /\ Cardinality(B) \in Nat /\ Cardinality(B) <= Cardinality(A)
    BY FS_Subset, FS_CardinalityType
  <2>2. Cardinality(A) + Cardinality(Before(L, rank, cut)) <= MaxSessions + k
    BY DEF Order
  <2> QED BY <1>1, <2>1, <2>2, CapAssumption
<1>3. ASSUME NEW v \in M, rank[v] >= cut
      PROVE  Cardinality(V[v]) + Cardinality(Before(M, rank, rank[v])) <= j
  <2>1. IsFiniteSet(U[v])
    BY FS_Subset
  <2>2. /\ Cardinality(U[v]) \in Nat /\ Cardinality(V[v]) \in Nat
        /\ Cardinality(V[v]) <= Cardinality(U[v])
    BY <2>1, FS_Subset, FS_CardinalityType
  <2>3. Cardinality(U[v]) + Cardinality(Before(L, rank, rank[v])) <= k
    BY <1>3 DEF Order
  <2> QED BY <1>1, <2>2, <2>3
<1>4. Order(B, M, V, j, N, rank, cut)
  BY <1>2, <1>3 DEF Order
<1> QED BY <1>4 DEF Room

\* A login that misses a session takes one of the slack.
LEMMA RoomMisses ==
  ASSUME NEW A, IsFiniteSet(A), NEW B \in SUBSET A, NEW L \in SUBSET Threads,
         NEW M \in SUBSET L, NEW U, NEW V, NEW k \in Int, NEW x,
         \A v \in M : U[v] \in SUBSET A /\ V[v] \in SUBSET (U[v] \cup {x}),
         Room(A, L, U, k)
  PROVE  Room(B, M, V, k + 1)
<1> PICK N \in Nat, cut \in Int : \E rank \in [Threads -> Int] : Order(A, L, U, k, N, rank, cut)
  BY DEF Room
<1> PICK rank \in [Threads -> Int] : Order(A, L, U, k, N, rank, cut)
  OBVIOUS
<1>1. ASSUME NEW c
      PROVE  /\ Cardinality(Before(M, rank, c)) \in Nat /\ Cardinality(Before(L, rank, c)) \in Nat
             /\ Cardinality(Before(M, rank, c)) <= Cardinality(Before(L, rank, c))
  <2>1. Before(M, rank, c) \in SUBSET Before(L, rank, c)
    BY DEF Before
  <2> QED BY <2>1, BeforeFinite
<1>2. Cardinality(B) + Cardinality(Before(M, rank, cut)) <= MaxSessions + (k + 1)
  <2>1. Cardinality(A) \in Nat /\ Cardinality(B) \in Nat /\ Cardinality(B) <= Cardinality(A)
    BY FS_Subset, FS_CardinalityType
  <2>2. Cardinality(A) + Cardinality(Before(L, rank, cut)) <= MaxSessions + k
    BY DEF Order
  <2> QED BY <1>1, <2>1, <2>2, CapAssumption
<1>3. ASSUME NEW v \in M, rank[v] >= cut
      PROVE  Cardinality(V[v]) + Cardinality(Before(M, rank, rank[v])) <= k + 1
  <2>1. IsFiniteSet(U[v]) /\ V[v] \in SUBSET (U[v] \cup {x})
    BY FS_Subset
  <2>2. /\ IsFiniteSet(U[v] \cup {x}) /\ Cardinality(U[v]) \in Nat
        /\ Cardinality(U[v] \cup {x}) <= Cardinality(U[v]) + 1
    BY <2>1, AddOne
  <2>3. /\ Cardinality(V[v]) \in Nat /\ Cardinality(U[v] \cup {x}) \in Nat
        /\ Cardinality(V[v]) <= Cardinality(U[v] \cup {x})
    BY <2>1, <2>2, FS_Subset, FS_CardinalityType
  <2>4. Cardinality(U[v]) + Cardinality(Before(L, rank, rank[v])) <= k
    BY <1>3 DEF Order
  <2> QED BY <1>1, <2>2, <2>3, <2>4
<1>4. Order(B, M, V, k + 1, N, rank, cut)
  BY <1>2, <1>3 DEF Order
<1> QED BY <1>4 DEF Room

\* A login that has listed all sessions comes last: the slack has one for each of the others.
LEMMA RoomLists ==
  ASSUME NEW A, IsFiniteSet(A), NEW B \in SUBSET A, NEW L \in SUBSET Threads,
         NEW t \in Threads, t \notin L, NEW M \in SUBSET (L \cup {t}), NEW U, NEW V, NEW k \in Int,
         Cardinality(Threads) - 1 <= k, V[t] = {},
         \A v \in M \ {t} : U[v] \in SUBSET A /\ V[v] \in SUBSET U[v],
         Room(A, L, U, k)
  PROVE  Room(B, M, V, k)
<1> PICK N \in Nat, cut \in Int : \E rank \in [Threads -> Int] : Order(A, L, U, k, N, rank, cut)
  BY DEF Room
<1> PICK rank \in [Threads -> Int] : Order(A, L, U, k, N, rank, cut)
  OBVIOUS
<1> DEFINE after == [rank EXCEPT ![t] = N + 1]
<1>0. /\ after \in [Threads -> Int] /\ after[t] = N + 1
      /\ \A v \in Threads \ {t} : after[v] = rank[v]
  OBVIOUS
<1> HIDE DEF after
<1>a. /\ cut \in -N..N /\ cut \in -(N + 1)..(N + 1)
      /\ \A v \in M \ {t} : v \in L /\ after[v] = rank[v] /\ rank[v] \in -N..N
  BY <1>0 DEF Order
<1>1. ASSUME NEW c \in Int, c <= N + 1
      PROVE  /\ Cardinality(Before(M, after, c)) \in Nat /\ Cardinality(Before(L, rank, c)) \in Nat
             /\ Cardinality(Before(M, after, c)) <= Cardinality(Before(L, rank, c))
  <2>1. Before(M, after, c) \in SUBSET Before(L, rank, c)
    BY <1>0, <1>1, <1>a DEF Before
  <2> QED BY <2>1, BeforeFinite
<1>2. Cardinality(B) + Cardinality(Before(M, after, cut)) <= MaxSessions + k
  <2>1. Cardinality(A) \in Nat /\ Cardinality(B) \in Nat /\ Cardinality(B) <= Cardinality(A)
    BY FS_Subset, FS_CardinalityType
  <2>2. Cardinality(A) + Cardinality(Before(L, rank, cut)) <= MaxSessions + k
    BY DEF Order
  <2>3. cut <= N + 1
    BY <1>a
  <2> QED BY <1>1, <2>1, <2>2, <2>3, CapAssumption
<1>3. ASSUME NEW v \in M, after[v] >= cut
      PROVE  Cardinality(V[v]) + Cardinality(Before(M, after, after[v])) <= k
  <2>1. CASE v = t
    <3>1. Before(M, after, N + 1) \in SUBSET (Threads \ {t})
      BY <1>0, <1>a DEF Before
    <3>2. /\ IsFiniteSet(Threads \ {t}) /\ Cardinality(Threads) \in Nat
          /\ Cardinality(Threads \ {t}) = Cardinality(Threads) - 1
      BY ThreadsAssumption, FS_RemoveElement, FS_CardinalityType
    <3>3. Cardinality(Before(M, after, N + 1)) <= Cardinality(Threads) - 1
      BY <3>1, <3>2, FS_Subset
    <3>4. Cardinality(V[v]) = 0
      BY <2>1, FS_EmptySet
    <3>5. Cardinality(Before(M, after, N + 1)) \in Nat
      BY <1>1
    <3> QED BY <1>0, <2>1, <3>2, <3>3, <3>4, <3>5
  <2>2. CASE v # t
    <3>1. v \in L /\ after[v] = rank[v] /\ rank[v] \in -N..N
      BY <1>a, <2>2
    <3>2. IsFiniteSet(U[v])
      BY <2>2, FS_Subset
    <3>3. /\ Cardinality(U[v]) \in Nat /\ Cardinality(V[v]) \in Nat
          /\ Cardinality(V[v]) <= Cardinality(U[v])
      BY <2>2, <3>2, FS_Subset, FS_CardinalityType
    <3>4. Cardinality(U[v]) + Cardinality(Before(L, rank, rank[v])) <= k
      BY <1>3, <3>1 DEF Order
    <3>5. rank[v] \in Int /\ rank[v] <= N + 1
      BY <3>1
    <3> QED BY <1>1, <3>1, <3>3, <3>4, <3>5
  <2> QED BY <2>1, <2>2
<1>4. \A v \in M : after[v] \in -(N + 1)..(N + 1)
  BY <1>0, <1>a
<1>5. \A v, w \in M : after[v] = after[w] => v = w
  BY <1>0, <1>a DEF Order
<1>6. Order(B, M, V, k, N + 1, after, cut)
  BY <1>a, <1>2, <1>3, <1>4, <1>5 DEF Order
<1> QED BY <1>0, <1>6 DEF Room

\* A login that goes on blind comes first, and takes one of the slack.
LEMMA RoomBlind ==
  ASSUME NEW A, IsFiniteSet(A), NEW B \in SUBSET A, NEW L \in SUBSET Threads,
         NEW t \in Threads, t \notin L, NEW M \in SUBSET (L \cup {t}), NEW U, NEW V, NEW k \in Int,
         \A v \in M \ {t} : U[v] \in SUBSET A /\ V[v] \in SUBSET U[v],
         Room(A, L, U, k)
  PROVE  Room(B, M, V, k + 1)
<1> PICK N \in Nat, cut \in Int : \E rank \in [Threads -> Int] : Order(A, L, U, k, N, rank, cut)
  BY DEF Room
<1> PICK rank \in [Threads -> Int] : Order(A, L, U, k, N, rank, cut)
  OBVIOUS
<1> DEFINE first == -(N + 1)
           after == [rank EXCEPT ![t] = first]
<1>0. /\ after \in [Threads -> Int] /\ after[t] = first /\ first \in Int /\ first < -N
      /\ \A v \in Threads \ {t} : after[v] = rank[v]
  OBVIOUS
<1> HIDE DEF after
<1>a. /\ cut \in -N..N /\ cut \in -(N + 1)..(N + 1) /\ first < cut
      /\ \A v \in M \ {t} : v \in L /\ after[v] = rank[v] /\ rank[v] \in -N..N
  BY <1>0 DEF Order
<1>1. ASSUME NEW c
      PROVE  /\ Cardinality(Before(M, after, c)) \in Nat /\ Cardinality(Before(L, rank, c)) \in Nat
             /\ Cardinality(Before(M, after, c)) <= Cardinality(Before(L, rank, c)) + 1
  <2>1. Before(M, after, c) \in SUBSET (Before(L, rank, c) \cup {t})
    BY <1>0, <1>a DEF Before
  <2>2. IsFiniteSet(Before(L, rank, c)) /\ Cardinality(Before(L, rank, c)) \in Nat
    BY BeforeFinite
  <2>3. /\ IsFiniteSet(Before(L, rank, c) \cup {t})
        /\ Cardinality(Before(L, rank, c) \cup {t}) <= Cardinality(Before(L, rank, c)) + 1
    BY <2>2, AddOne
  <2>4. /\ Cardinality(Before(M, after, c)) \in Nat
        /\ Cardinality(Before(L, rank, c) \cup {t}) \in Nat
        /\ Cardinality(Before(M, after, c)) <= Cardinality(Before(L, rank, c) \cup {t})
    BY <2>1, <2>3, FS_Subset, FS_CardinalityType
  <2> QED BY <2>2, <2>3, <2>4
<1>2. Cardinality(B) + Cardinality(Before(M, after, cut)) <= MaxSessions + (k + 1)
  <2>1. Cardinality(A) \in Nat /\ Cardinality(B) \in Nat /\ Cardinality(B) <= Cardinality(A)
    BY FS_Subset, FS_CardinalityType
  <2>2. Cardinality(A) + Cardinality(Before(L, rank, cut)) <= MaxSessions + k
    BY DEF Order
  <2> QED BY <1>1, <2>1, <2>2, CapAssumption
<1>3. ASSUME NEW v \in M, after[v] >= cut
      PROVE  Cardinality(V[v]) + Cardinality(Before(M, after, after[v])) <= k + 1
  <2>0. v # t
    BY <1>0, <1>3, <1>a
  <2>1. v \in L /\ after[v] = rank[v] /\ rank[v] \in -N..N
    BY <1>a, <2>0
  <2>2. IsFiniteSet(U[v])
    BY <2>0, FS_Subset
  <2>3. /\ Cardinality(U[v]) \in Nat /\ Cardinality(V[v]) \in Nat
        /\ Cardinality(V[v]) <= Cardinality(U[v])
    BY <2>0, <2>2, FS_Subset, FS_CardinalityType
  <2>4. Cardinality(U[v]) + Cardinality(Before(L, rank, rank[v])) <= k
    BY <1>3, <2>1 DEF Order
  <2> QED BY <1>1, <2>1, <2>3, <2>4
<1>4. \A v \in M : after[v] \in -(N + 1)..(N + 1)
  BY <1>0, <1>a
<1>5. \A v, w \in M : after[v] = after[w] => v = w
  BY <1>0, <1>a DEF Order
<1>6. Order(B, M, V, k + 1, N + 1, after, cut)
  BY <1>a, <1>2, <1>3, <1>4, <1>5 DEF Order
<1> QED BY <1>0, <1>6 DEF Room

\* The login t stores s: it knew of F, and the other logins may not know of s.
Adds(A, s, B, L, t, M, U, V, F) ==
  /\ IsFiniteSet(A) /\ B \in SUBSET (A \cup {s})
  /\ L \in SUBSET Threads /\ t \in L /\ M \in SUBSET (L \ {t})
  /\ IsFiniteSet(F) /\ Cardinality(F) < MaxSessions /\ A \subseteq F \cup U[t]
  /\ \A v \in L : U[v] \in SUBSET A
  /\ \A v \in M : V[v] \in SUBSET (U[v] \cup {s})

\* A login that stores its session: before the cut it was counted with; from the cut on it
\* knew of enough of them, and the cut moves to its place.
LEMMA RoomAdds ==
  ASSUME NEW A, NEW s, NEW B, NEW L, NEW t, NEW M, NEW U, NEW V, NEW F, NEW k \in Int,
         Adds(A, s, B, L, t, M, U, V, F), Room(A, L, U, k)
  PROVE  Room(B, M, V, k)
<1> SUFFICES ASSUME IsFiniteSet(A), B \in SUBSET (A \cup {s}),
                    L \in SUBSET Threads, t \in L, M \in SUBSET (L \ {t}),
                    IsFiniteSet(F), Cardinality(F) < MaxSessions, A \subseteq F \cup U[t],
                    \A v \in L : U[v] \in SUBSET A,
                    \A v \in M : V[v] \in SUBSET (U[v] \cup {s})
             PROVE  Room(B, M, V, k)
  BY DEF Adds
<1> PICK N \in Nat, cut \in Int : \E rank \in [Threads -> Int] : Order(A, L, U, k, N, rank, cut)
  BY DEF Room
<1> PICK rank \in [Threads -> Int] : Order(A, L, U, k, N, rank, cut)
  OBVIOUS
<1>0. /\ t \in Threads /\ rank[t] \in -N..N /\ cut \in -N..N
      /\ \A v \in M : v \in L /\ v # t /\ rank[v] \in -N..N /\ rank[v] # rank[t]
  BY DEF Order
<1>1. ASSUME NEW c
      PROVE  /\ Cardinality(Before(M, rank, c)) \in Nat /\ Cardinality(Before(L, rank, c)) \in Nat
             /\ Cardinality(Before(M, rank, c)) <=
                  IF rank[t] < c THEN Cardinality(Before(L, rank, c)) - 1
                  ELSE Cardinality(Before(L, rank, c))
  <2>1. IsFiniteSet(Before(L, rank, c)) /\ Cardinality(Before(L, rank, c)) \in Nat
    BY BeforeFinite
  <2>2. CASE rank[t] < c
    <3>1. Before(M, rank, c) \in SUBSET (Before(L, rank, c) \ {t}) /\ t \in Before(L, rank, c)
      BY <2>2 DEF Before
    <3> DEFINE S == Before(L, rank, c)
    <3>2. IsFiniteSet(S) /\ t \in S
      BY <2>1, <3>1
    <3> HIDE DEF S
    <3>3. IsFiniteSet(S \ {t}) /\ Cardinality(S \ {t}) = Cardinality(S) - 1
      BY <3>2, FS_RemoveElement
    <3> QED BY <2>1, <2>2, <3>1, <3>3, FS_Subset, FS_CardinalityType DEF S
  <2>3. CASE ~(rank[t] < c)
    <3>1. Before(M, rank, c) \in SUBSET Before(L, rank, c)
      BY DEF Before
    <3> QED BY <2>1, <2>3, <3>1, FS_Subset, FS_CardinalityType
  <2> QED BY <2>2, <2>3
<1>2. /\ Cardinality(A) \in Nat /\ Cardinality(B) \in Nat
      /\ Cardinality(B) <= Cardinality(A) + 1
  <2>1. IsFiniteSet(A \cup {s}) /\ Cardinality(A \cup {s}) <= Cardinality(A) + 1
        /\ Cardinality(A) \in Nat
    BY AddOne
  <2>2. /\ Cardinality(B) \in Nat /\ Cardinality(A \cup {s}) \in Nat
        /\ Cardinality(B) <= Cardinality(A \cup {s})
    BY <2>1, FS_Subset, FS_CardinalityType
  <2> QED BY <2>1, <2>2
<1>3. ASSUME NEW v \in L
      PROVE  IsFiniteSet(U[v]) /\ Cardinality(U[v]) \in Nat
  BY FS_Subset, FS_CardinalityType
<1>4. ASSUME NEW v \in M, rank[v] >= cut, rank[v] > rank[t]
      PROVE  Cardinality(V[v]) + Cardinality(Before(M, rank, rank[v])) <= k
  <2>1. v \in L /\ rank[v] \in Int /\ rank[t] \in Int
    BY <1>0
  <2>2. /\ Cardinality(U[v]) \in Nat /\ IsFiniteSet(U[v] \cup {s})
        /\ Cardinality(U[v] \cup {s}) <= Cardinality(U[v]) + 1
    BY <1>3, <2>1, AddOne
  <2>3. /\ Cardinality(V[v]) \in Nat /\ Cardinality(U[v] \cup {s}) \in Nat
        /\ Cardinality(V[v]) <= Cardinality(U[v] \cup {s})
    BY <2>2, FS_Subset, FS_CardinalityType
  <2>4. Cardinality(U[v]) + Cardinality(Before(L, rank, rank[v])) <= k
    BY <1>4, <2>1 DEF Order
  <2>5. Cardinality(Before(M, rank, rank[v])) <= Cardinality(Before(L, rank, rank[v])) - 1
    BY <1>1, <1>4, <2>1
  <2> QED BY <1>1, <2>2, <2>3, <2>4, <2>5
<1>5. CASE rank[t] < cut
  <2>1. Cardinality(B) + Cardinality(Before(M, rank, cut)) <= MaxSessions + k
    <3>1. Cardinality(A) + Cardinality(Before(L, rank, cut)) <= MaxSessions + k
      BY DEF Order
    <3>2. Cardinality(Before(M, rank, cut)) <= Cardinality(Before(L, rank, cut)) - 1
      BY <1>1, <1>5
    <3> QED BY <1>1, <1>2, <3>1, <3>2, CapAssumption
  <2>2. ASSUME NEW v \in M, rank[v] >= cut
        PROVE  rank[v] > rank[t]
    BY <1>0, <1>5, <2>2
  <2>3. Order(B, M, V, k, N, rank, cut)
    BY <1>0, <1>4, <2>1, <2>2 DEF Order
  <2> QED BY <2>3 DEF Room
<1>6. CASE ~(rank[t] < cut)
  <2> DEFINE place == rank[t]
  <2>0. place \in Int /\ place \in -N..N /\ place >= cut
    BY <1>0, <1>6
  <2>1. Cardinality(B) + Cardinality(Before(M, rank, place)) <= MaxSessions + k
    <3>1. Cardinality(U[t]) + Cardinality(Before(L, rank, place)) <= k
      BY <2>0 DEF Order
    <3>2. Cardinality(A) <= Cardinality(F) + Cardinality(U[t])
      <4>1. /\ IsFiniteSet(F \cup U[t])
            /\ Cardinality(F \cup U[t]) = Cardinality(F) + Cardinality(U[t]) - Cardinality(F \cap U[t])
        BY <1>3, FS_Union
      <4>2. Cardinality(F \cap U[t]) \in Nat /\ Cardinality(F) \in Nat
        BY FS_Subset, FS_CardinalityType
      <4>3. Cardinality(A) <= Cardinality(F \cup U[t]) /\ Cardinality(F \cup U[t]) \in Nat
        BY <4>1, FS_Subset, FS_CardinalityType
      <4> QED BY <1>2, <1>3, <4>1, <4>2, <4>3
    <3>3. Cardinality(Before(M, rank, place)) <= Cardinality(Before(L, rank, place))
      BY <1>1, <2>0
    <3>4. Cardinality(F) \in Nat /\ Cardinality(U[t]) \in Nat
      BY <1>3, FS_CardinalityType
    <3> QED BY <1>1, <1>2, <3>1, <3>2, <3>3, <3>4, CapAssumption
  <2>2. ASSUME NEW v \in M, rank[v] >= place
        PROVE  rank[v] >= cut /\ rank[v] > rank[t]
    BY <1>0, <2>0, <2>2
  <2>3. \A v \in M : rank[v] >= place =>
          Cardinality(V[v]) + Cardinality(Before(M, rank, rank[v])) <= k
    BY <1>4, <2>2
  <2>4. Order(B, M, V, k, N, rank, place)
    BY <1>0, <2>0, <2>1, <2>3 DEF Order
  <2> QED BY <2>0, <2>4 DEF Room
<1> QED BY <1>5, <1>6

------------------------------------------------------------------------
(* The sessions of a user, and the kinds of steps there are.              *)

\* The sessions of a user that no late update revived, the logins that make room for
\* one more, and what each of them does not know of.
Owns(u) == ActiveOf(u) \ revived
Lookers(u) == {t \in Threads : Looking(task[t]) /\ task[t].user = u}
Unseen(u) == [t \in Threads |-> {s \in Owns(u) : ~SeenBy(task[t], s)}]
Slack == Cardinality(Threads) - 1 + spent.faults

\* With the storage as it is, sessions only run out of time.
LEMMA ActiveFades ==
  ASSUME Typed, UNCHANGED store, clock' \in {clock, clock + 1}, NEW u
  PROVE  ActiveOf(u)' \subseteq ActiveOf(u)
<1> SUFFICES ASSUME NEW s \in Sessions, s \in ActiveOf(u)' PROVE s \in ActiveOf(u)
  BY DEF ActiveOf
<1>1. /\ store[s] # None /\ clock' < store[s].until /\ store[s].data.active
      /\ store[s].data.user = u
  BY DEF ActiveOf, Active, InUse, Get, Exists
<1>2. store[s] \in Keys /\ clock \in Nat
  BY <1>1 DEF Typed, TypeOK, StorageTypes
<1>3. clock < store[s].until /\ store[s].data \in Records
  BY <1>1, <1>2 DEF Keys
<1> QED BY <1>1, <1>3, NoRecordAssumption DEF ActiveOf, Active, InUse, Get, Exists

\* A session that is written is ended, or was in use, or is revived.
LEMMA WriteFades ==
  ASSUME Owned, [Next]_vars, NEW t \in Threads, WriteCopy(t), NEW u,
         NEW s \in Sessions, s \in ActiveOf(u)'
  PROVE  /\ s \notin Ends(t)
         /\ s \in ActiveOf(u) \/ (task[t].copy.active /\ s \in revived')
<1> DEFINE mine == task[t].session
           copy == task[t].copy
<1>0. Typed /\ store \in [Sessions -> Keys \cup {None}] /\ None \notin Keys \cup Records
  BY NoRecordAssumption DEF Owned, Stored, Typed, TypeOK, StorageTypes
<1>1. /\ store'[s] # None /\ clock' < store'[s].until /\ store'[s].data.active
      /\ store'[s].data.user = u
  BY DEF ActiveOf, Active, InUse, Get, Exists
<1>2. PICK key \in Keys : store' = [store EXCEPT ![mine] = key] /\ key.data = copy
  BY <1>0, WriteStores
<1>3. mine \in Sessions /\ copy \in Records /\ clock' = clock
  BY <1>0, WriteStores
<1>4. CASE s # mine
  <2>1. store'[s] = store[s]
    BY <1>0, <1>2, <1>4
  <2>2. store[s] \in Keys
    BY <1>0, <1>1, <2>1
  <2>3. store[s].data \in Records
    BY <2>2 DEF Keys
  <2>4. s \in ActiveOf(u)
    BY <1>0, <1>1, <1>3, <2>1, <2>3 DEF ActiveOf, Active, InUse, Get, Exists
  <2> QED BY <1>4, <2>4 DEF Ends
<1>5. CASE s = mine
  <2>1. store'[s] = key
    BY <1>0, <1>2, <1>3, <1>5
  <2>2. copy.active
    BY <1>1, <1>2, <2>1
  <2>3. CASE Active(s)
    <3>1. store[s] # None
      BY <2>3 DEF Active, InUse, Get, Exists
    <3>2. store[s].data.user = u
      BY <1>1, <3>1, UsersStay
    <3> QED BY <2>2, <2>3, <3>2 DEF Ends, ActiveOf
  <2>4. CASE ~Active(s)
    <3>1. s \in revived'
      BY <1>5, <2>2, <2>4 DEF WriteCopy
    <3> QED BY <2>2, <3>1 DEF Ends
  <2> QED BY <2>3, <2>4
<1> QED BY <1>4, <1>5

\* A session that is stored is one more of its user's.
LEMMA CreateFades ==
  ASSUME Owned, NEW t \in Threads, NEW s \in Sessions, CreateSession(t, s), NEW u
  PROVE  /\ ActiveOf(u)' \subseteq ActiveOf(u) \cup {s}
         /\ u # task[t].user => ActiveOf(u)' \subseteq ActiveOf(u)
<1>0. Typed /\ store \in [Sessions -> Keys \cup {None}] /\ None \notin Keys \cup Records
  BY NoRecordAssumption DEF Owned, Stored, Typed, TypeOK, StorageTypes
<1>1. PICK key \in Keys : store' = [store EXCEPT ![s] = key] /\ key.data.user = task[t].user
  BY <1>0, CreateStores
<1>2. clock' = clock
  BY <1>0, CreateStores
<1>3. ASSUME NEW x \in Sessions, x # s, x \in ActiveOf(u)'
      PROVE  x \in ActiveOf(u)
  <2>1. /\ store'[x] # None /\ clock' < store'[x].until /\ store'[x].data.active
        /\ store'[x].data.user = u
    BY <1>3 DEF ActiveOf, Active, InUse, Get, Exists
  <2>2. store'[x] = store[x]
    BY <1>0, <1>1, <1>3
  <2>3. store[x] \in Keys
    BY <1>0, <2>1, <2>2
  <2>4. store[x].data \in Records
    BY <2>3 DEF Keys
  <2> QED BY <1>0, <1>2, <2>1, <2>2, <2>4 DEF ActiveOf, Active, InUse, Get, Exists
<1>4. s \in ActiveOf(u)' => u = task[t].user
  <2>1. store'[s] = key
    BY <1>0, <1>1
  <2> QED BY <1>1, <2>1 DEF ActiveOf
<1>5. ActiveOf(u)' \subseteq Sessions
  BY DEF ActiveOf
<1> QED BY <1>3, <1>4, <1>5

\* Nobody but t moves.
Turn(t) == task[t].pc # "done" /\ \A v \in Threads : v # t => task'[v] = task[v]

\* A step that goes as it should, a command that fails, and a request that arrives.
Works(t) ==
  /\ Turn(t) /\ Steady(t) /\ spent'.faults = spent.faults
  /\ \/ UNCHANGED <<store, clock, revived>> /\ ~At(t, "write")
     \/ WriteCopy(t)
Slips(t) ==
  /\ Turn(t) /\ Slipping(t) /\ spent'.faults = spent.faults + 1
  /\ UNCHANGED <<store, clock, revived>>
Arrives(t) ==
  /\ UNCHANGED <<store, clock, revived>> /\ spent'.faults = spent.faults
  /\ task[t].route = "none"
  /\ Counted(task'[t]) /\ ~Looking(task'[t]) /\ task'[t].pc # "token"
  /\ task'[t].alone => \A v \in Threads : task[v].route = "none"
  /\ \A v \in Threads : v # t =>
       /\ ~task'[v].alone
       /\ Counted(task[v]) => Counted(task'[v])
       /\ Looking(task'[v]) <=> Looking(task[v])
       /\ task'[v].user = task[v].user /\ task'[v].route = task[v].route
       /\ \A s : SeenBy(task'[v], s) <=> SeenBy(task[v], s)
Rests ==
  UNCHANGED <<store, task, revived>> /\ clock' \in {clock, clock + 1}
    /\ spent'.faults = spent.faults

\* A request that arrives.
LEMMA BeginArrives ==
  ASSUME Typed, NEW t \in Threads, NEW new \in Tasks, Begin(t, new),
         Counted(new), ~Looking(new), new.pc # "token", spent'.faults = spent.faults
  PROVE  Arrives(t)
<1> DEFINE alone == new.route = "login" /\ \A v \in Threads : Idle(v)
           mine == [new EXCEPT !.alone = alone]
           other(v) == [task[v] EXCEPT !.alone = FALSE]
<1>1. /\ task' = [u \in Threads |-> IF u = t THEN mine ELSE other(u)]
      /\ task[t].route = "none" /\ UNCHANGED <<store, clock, revived>>
  BY DEF Begin, Idle, storageVars
<1>2. /\ mine.pc = new.pc /\ mine.route = new.route /\ mine.back = new.back
      /\ mine.found = new.found /\ mine.todo = new.todo /\ mine.excess = new.excess
      /\ mine.copy = new.copy /\ mine.alone = alone
  BY DEF Tasks
<1> HIDE DEF mine
<1>3. Counted(mine) /\ ~Looking(mine) /\ mine.pc # "token"
  BY <1>2 DEF Counted, Looking
<1>4. ASSUME NEW v \in Threads, v # t
      PROVE  /\ ~task'[v].alone
             /\ Counted(task[v]) => Counted(task'[v])
             /\ Looking(task'[v]) <=> Looking(task[v])
             /\ task'[v].user = task[v].user /\ task'[v].route = task[v].route
             /\ \A s : SeenBy(task'[v], s) <=> SeenBy(task[v], s)
  <2> DEFINE r == task[v]
             n == other(v)
  <2>1. task'[v] = n
    BY <1>1, <1>4
  <2>2. /\ n.pc = r.pc /\ n.route = r.route /\ n.back = r.back /\ n.user = r.user
        /\ n.found = r.found /\ n.todo = r.todo /\ n.excess = r.excess
        /\ n.copy = r.copy /\ n.session = r.session /\ ~n.alone
    BY TaskType DEF Tasks
  <2> HIDE DEF n
  <2>3. /\ Counted(r) => Counted(n)
        /\ Looking(n) <=> Looking(r)
    BY <2>2 DEF Counted, Looking
  <2>4. \A s : SeenBy(n, s) <=> SeenBy(r, s)
    BY <2>2 DEF SeenBy
  <2> QED BY <2>1, <2>2, <2>3, <2>4
<1>5. task'[t] = mine
  BY <1>1
<1>6. mine.alone => \A v \in Threads : task[v].route = "none"
  BY <1>2 DEF Idle
<1> QED BY <1>1, <1>3, <1>4, <1>5, <1>6 DEF Arrives

\* Every arrival is one of those.
LEMMA LoginArrives ==
  ASSUME Typed, NEW t \in Threads, NEW u \in Users, NEW a \in Addresses, Login(t, u, a)
  PROVE  Arrives(t)
<1> DEFINE step == IF Limited THEN "count_ip" ELSE "password"
           new == [NoTask EXCEPT !.route = "login", !.user = u, !.from = a, !.pc = step]
<1>1. Begin(t, new)
  BY DEF Login
<1>2. step \in {"count_ip", "password"}
  OBVIOUS
<1> HIDE DEF step
<1>3. new \in Tasks
  BY <1>2 DEF NoTask, Tasks, Steps
<1>4. /\ new.pc = step /\ new.route = "login" /\ new.back = "done"
      /\ new.todo = {} /\ new.found = {} /\ new.excess = 0
  BY DEF NoTask
<1> HIDE DEF new
<1>5. spent'.faults = spent.faults
  BY DEF Login, Typed, TypeOK
<1>6. Counted(new) /\ ~Looking(new) /\ new.pc # "token"
  BY <1>2, <1>4 DEF Counted, Looking, LoginSteps
<1> QED BY <1>1, <1>3, <1>5, <1>6, BeginArrives

LEMMA VisitArrives ==
  ASSUME Typed, NEW t \in Threads, NEW s \in Sessions, Visit(t, s) \/ LogoutOrRefresh(t, s)
  PROVE  Arrives(t)
<1> DEFINE from(route) == [NoTask EXCEPT !.route = route, !.cookie = s, !.pc = "validate"]
           late == [from("visit") EXCEPT !.pc = "cleanup", !.now = clock]
           Good(new) == /\ new \in Tasks /\ new.pc \in {"validate", "cleanup"}
                        /\ new.route \in {"visit", "logout", "refresh"} /\ new.back = "done"
<1>1. ASSUME NEW route \in {"visit", "logout", "refresh"} PROVE Good(from(route))
  BY DEF NoTask, Tasks, Steps
<1>2. Good(late)
  <2>1. "cleanup" \in Steps /\ clock \in Nat
    BY TaskType DEF Steps
  <2>2. from("visit") \in Tasks
    BY <1>1
  <2>3. from("visit").route = "visit" /\ from("visit").back = "done"
    BY DEF NoTask
  <2> HIDE DEF from
  <2>4. late \in Tasks
    BY <2>1, <2>2 DEF Tasks
  <2>5. late.pc = "cleanup" /\ late.route = "visit" /\ late.back = "done"
    BY <2>2, <2>3 DEF Tasks
  <2> QED BY <2>4, <2>5
<1>3. ASSUME NEW new, Good(new), Begin(t, new), spent' = spent PROVE Arrives(t)
  <2>1. Counted(new) /\ ~Looking(new) /\ new.pc # "token"
    BY <1>3 DEF Counted, Looking, LoginSteps
  <2> QED BY <1>3, <2>1, BeginArrives
<1>4. CASE Visit(t, s)
  <2>1. Begin(t, from("visit")) \/ Begin(t, late)
    BY <1>4 DEF Visit
  <2>2. spent' = spent
    BY <1>4 DEF Visit
  <2> HIDE DEF Good, from, late
  <2> QED BY <1>1, <1>2, <1>3, <2>1, <2>2
<1>5. CASE LogoutOrRefresh(t, s)
  <2>1. \E route \in {"logout", "refresh"} : Begin(t, from(route))
    BY <1>5 DEF LogoutOrRefresh
  <2>2. spent' = spent
    BY <1>5 DEF LogoutOrRefresh
  <2> HIDE DEF Good, from
  <2> QED BY <1>1, <1>3, <2>1, <2>2
<1> QED BY <1>4, <1>5

LEMMA RequestsArrive ==
  ASSUME Typed, NEW t \in Threads,
         \/ \E u \in Users, a \in Addresses : Login(t, u, a)
         \/ \E s \in Known : Visit(t, s) \/ LogoutOrRefresh(t, s)
  PROVE  Arrives(t)
BY LoginArrives, VisitArrives DEF Known

\* A step of a login or of another request, but for the one that stores a session.
LEMMA StepsWork ==
  ASSUME Owned, \A v \in Threads : Counted(task[v]), NEW t \in Threads,
         LoginStep(t) \/ CookieStep(t)
  PROVE  Works(t) \/ \E s \in Sessions : CreateSession(t, s)
<1>0. Typed /\ Ready(t)
  BY DEF Owned, Stored, Ready
<1>1. Moves(t)
  BY <1>0, CountMoves, PasswordMoves, ListMoves, ReadMoves, EvictMoves, CreateMoves, StartMoves,
     SweepMoves, EndMoves, ValidateMoves, UpdateMoves, FinishMoves
     DEF LoginStep, CookieStep, IssueToken, Reject
<1>2. \A v \in Threads : v # t => task'[v] = task[v]
  BY <1>0, <1>1 DEF Moves, Typed, TypeOK
<1>3. CASE CountAddress(t) \/ CountName(t) \/ Refuse(t) \/ Authenticate(t) \/ ClearAddress(t)
           \/ ClearName(t)
  <2>1. Steady(t)
    BY <1>0, <1>3, ApproachSteady
  <2>2. task[t].pc \notin {"done", "write"} /\ UNCHANGED <<store, clock, revived, spent>>
    BY <1>3 DEF CountAddress, CountName, CountStep, Refuse, Authenticate, ClearAddress, ClearName,
                At, storageVars
  <2> QED BY <1>2, <2>1, <2>2 DEF Works, Turn, At
<1>4. CASE ListSessions(t) \/ EvictOldest(t) \/ IssueToken(t)
  <2>1. Steady(t)
    BY <1>0, <1>4, ListSteady, EvictSteady, FinishSteady DEF IssueToken
  <2>2. task[t].pc \notin {"done", "write"} /\ UNCHANGED <<store, clock, revived, spent>>
    BY <1>4 DEF ListSessions, EvictOldest, IssueToken, At, storageVars
  <2> QED BY <1>2, <2>1, <2>2 DEF Works, Turn, At
<1>7. ASSUME NEW s \in Sessions, ReadSession(t, s)
      PROVE  Works(t)
  <2>1. Steady(t)
    BY <1>0, <1>7, ReadSteady
  <2>2. task[t].pc \notin {"done", "write"} /\ UNCHANGED <<store, clock, revived, spent>>
    BY <1>7 DEF ReadSession, At, storageVars
  <2> QED BY <1>2, <2>1, <2>2 DEF Works, Turn, At
<1>5. CASE StartCleanup(t) \/ (\E s \in Sessions : SweepSession(t, s)) \/ EndCleanup(t)
           \/ Reject(t) \/ Validate(t) \/ Terminate(t)
  <2>1. Steady(t)
    BY <1>0, <1>5, VisitSteady
  <2>2. task[t].pc \notin {"done", "write"} /\ UNCHANGED <<store, clock, revived, spent>>
    BY <1>5 DEF StartCleanup, SweepSession, EndCleanup, Reject, Validate, Terminate, At,
                storageVars
  <2> QED BY <1>2, <2>1, <2>2 DEF Works, Turn, At
<1>6. CASE CheckExists(t) \/ WriteCopy(t)
  <2>1. Steady(t)
    BY <1>0, <1>6, UpdateSteady
  <2>2. /\ task[t].pc # "done" /\ UNCHANGED spent
        /\ \/ UNCHANGED <<store, clock, revived>> /\ task[t].pc # "write"
           \/ WriteCopy(t)
    BY <1>6 DEF CheckExists, WriteCopy, At, storageVars
  <2> QED BY <1>2, <2>1, <2>2 DEF Works, Turn, At
<1> QED BY <1>3, <1>4, <1>5, <1>6, <1>7 DEF LoginStep, CookieStep

\* A command that fails.
LEMMA FailuresSlip ==
  ASSUME Owned, \A v \in Threads : Counted(task[v]), NEW t \in Threads, Fail(t)
  PROVE  Slips(t)
<1>0. Typed /\ Ready(t)
  BY DEF Owned, Stored, Ready
<1>1. Moves(t)
  BY <1>0, FailOverMoves, SkipMoves, GiveUpMoves, FinishMoves DEF Fail, Abort
<1>2. \A v \in Threads : v # t => task'[v] = task[v]
  BY <1>0, <1>1 DEF Moves, Typed, TypeOK
<1>3. Slipping(t)
  BY <1>0, FailOverSlips, SkipSlips, GiveUpSlips, FinishSteady DEF Fail, Abort
<1>4. task[t].pc # "done"
  <2>1. FailOver(t) => task[t].pc # "done"
    BY DEF FailOver, OnFailure
  <2>2. SkipSession(t) => task[t].pc # "done"
    BY DEF SkipSession
  <2>3. GiveUpEnding(t) => task[t].pc # "done"
    BY DEF GiveUpEnding, Updating, At
  <2>4. Abort(t) => task[t].pc # "done"
    BY DEF Abort, Updating, At
  <2> QED BY <2>1, <2>2, <2>3, <2>4 DEF Fail
<1>5. spent'.faults = spent.faults + 1 /\ UNCHANGED <<store, clock, revived>>
  BY <1>0 DEF Fail, Typed, TypeOK, storageVars
<1> QED BY <1>2, <1>3, <1>4, <1>5 DEF Slips, Turn

\* Every step.
LEMMA StepKinds ==
  ASSUME Owned, \A v \in Threads : Counted(task[v]), [Next]_vars
  PROVE  \/ Rests
         \/ \E t \in Threads :
              \/ Works(t) \/ Slips(t) \/ Arrives(t)
              \/ \E s \in Sessions : CreateSession(t, s)
<1>1. CASE TimePasses \/ (\E c \in Counters : WindowEnds(c)) \/ UNCHANGED vars
  BY <1>1 DEF TimePasses, Tick, WindowEnds, vars, storageVars, Rests
<1>2. ASSUME NEW t \in Threads,
             \/ \E u \in Users, a \in Addresses : Login(t, u, a)
             \/ \E s \in Known : Visit(t, s) \/ LogoutOrRefresh(t, s)
      PROVE  Arrives(t)
  BY <1>2, RequestsArrive DEF Owned, Stored
<1> QED BY <1>1, <1>2, StepsWork, FailuresSlip DEF Next

------------------------------------------------------------------------
(* The limit of sessions: its invariant.                                  *)

Roomy(u) == IsFiniteSet(Owns(u)) /\ Room(Owns(u), Lookers(u), Unseen(u), Slack)

\* What an undisturbed login knows: while it makes room, of every session.
Undisturbed(t) ==
  task[t].alone =>
    /\ \A v \in Threads : v # t => task[v].route = "none"
    /\ Looking(task[t]) => Lists(task[t])
    /\ task[t].route = "login" /\ task[t].pc = "token" =>
         /\ IsFiniteSet(ActiveOf(task[t].user))
         /\ Cardinality(ActiveOf(task[t].user)) <= MaxSessions

Limits ==
  /\ Owned
  /\ \A t \in Threads : Counted(task[t]) /\ Undisturbed(t)
  /\ \A u \in Users : Roomy(u)

\* There is room at the start.
LEMMA LimitsInit == Init => Limits
<1> SUFFICES ASSUME Init PROVE Limits
  OBVIOUS
<1>1. \A t \in Threads : task[t] = NoTask
  BY DEF Init
<1>2. \A t \in Threads : Counted(task[t]) /\ Undisturbed(t)
  BY <1>1, NothingToCount DEF Undisturbed
<1>3. ASSUME NEW u \in Users
      PROVE  Roomy(u)
  <2>1. Owns(u) = {}
    BY DEF Owns, ActiveOf, Active, InUse, Get, Exists, Init, StorageInit
  <2>2. Lookers(u) = {}
    BY <1>1, NothingToCount DEF Lookers
  <2>3. Cardinality(Threads) \in Nat /\ spent.faults = 0
    BY ThreadsAssumption, FS_CardinalityType DEF Init
  <2> DEFINE rank == [v \in Threads |-> 0]
  <2>4. rank \in [Threads -> Int]
    OBVIOUS
  <2>5. Before({}, rank, 0) = {}
    BY DEF Before
  <2>6. Cardinality({}) + Cardinality(Before({}, rank, 0)) <= MaxSessions + Slack
    <3>1. Cardinality({}) = 0
      BY FS_EmptySet
    <3>2. MaxSessions \in Nat /\ MaxSessions >= 1 /\ Slack >= -1 /\ Slack \in Int
      BY <2>3, CapAssumption DEF Slack
    <3> QED BY <2>5, <3>1, <3>2
  <2>7. 0 \in -0..0
    OBVIOUS
  <2> HIDE DEF rank
  <2>8. Order({}, {}, Unseen(u), Slack, 0, rank, 0)
    BY <2>6, <2>7 DEF Order
  <2>9. Room({}, {}, Unseen(u), Slack)
    BY <2>4, <2>8 DEF Room
  <2> QED BY <2>1, <2>2, <2>9, FS_EmptySet DEF Roomy
<1> QED BY <1>2, <1>3, OwnedInit DEF Limits

\* The slack is a number, and grows by one with a command that fails.
LEMMA SlackType ==
  ASSUME Typed
  PROVE  /\ Slack \in Int /\ Cardinality(Threads) - 1 <= Slack
         /\ spent'.faults = spent.faults => Slack' = Slack
         /\ spent'.faults = spent.faults + 1 => Slack' = Slack + 1
<1>1. Cardinality(Threads) \in Nat
  BY ThreadsAssumption, FS_CardinalityType
<1>2. spent.faults \in Nat
  BY DEF Typed, TypeOK
<1> QED BY <1>1, <1>2 DEF Slack

\* The sessions of a user after a step that stores none.
LEMMA OwnsFade ==
  ASSUME Owned, [Next]_vars, NEW u,
         \/ Rests
         \/ \E t \in Threads : Works(t) \/ Slips(t) \/ Arrives(t)
  PROVE  Owns(u)' \subseteq Owns(u)
<1>0. Typed /\ clock \in Nat
  BY DEF Owned, Stored, Typed, TypeOK, StorageTypes
<1>1. CASE UNCHANGED <<store, revived>> /\ clock' \in {clock, clock + 1}
  BY <1>0, <1>1, ActiveFades DEF Owns
<1>2. ASSUME NEW t \in Threads, WriteCopy(t)
      PROVE  Owns(u)' \subseteq Owns(u)
  <2>1. revived \subseteq revived'
    BY <1>2 DEF WriteCopy
  <2>2. ActiveOf(u)' \subseteq Sessions
    BY DEF ActiveOf
  <2> QED BY <1>2, <2>1, <2>2, WriteFades DEF Owns
<1> QED BY <1>1, <1>2 DEF Rests, Works, Slips, Arrives

\* What the storage no longer has in use after a step of t.
LEMMA EndsFade ==
  ASSUME Owned, [Next]_vars, NEW u, NEW t \in Threads, Works(t)
  PROVE  Owns(u)' \cap Ends(t) = {}
<1>1. CASE WriteCopy(t)
  <2>1. ActiveOf(u)' \subseteq Sessions
    BY DEF ActiveOf
  <2> QED BY <1>1, <2>1, WriteFades DEF Owns
<1>2. CASE ~At(t, "write")
  BY <1>2 DEF Ends
<1> QED BY <1>1, <1>2 DEF Works

\* What there is to know of the sessions of a user, before and after a step.
LEMMA Roominess ==
  ASSUME Limits, [Next]_vars, NEW u \in Users
  PROVE  /\ Typed /\ IsFiniteSet(Owns(u)) /\ Room(Owns(u), Lookers(u), Unseen(u), Slack)
         /\ Lookers(u) \in SUBSET Threads /\ Lookers(u)' \in SUBSET Threads
         /\ Owns(u) \subseteq ActiveOf(u)
         /\ \A t \in Threads :
              /\ Unseen(u)[t] = {s \in Owns(u) : ~SeenBy(task[t], s)}
              /\ Unseen(u)'[t] = {s \in Owns(u)' : ~SeenBy(task'[t], s)}
              /\ t \in Lookers(u) <=> Looking(task[t]) /\ task[t].user = u
              /\ t \in Lookers(u)' <=> Looking(task'[t]) /\ task'[t].user = u
BY DEF Limits, Owned, Stored, Roomy, Lookers, Unseen, Owns

\* With room, and finitely many sessions, there is room after the step.
LEMMA RoomyNext ==
  ASSUME NEW u \in Users, IsFiniteSet(Owns(u)'),
         Room(Owns(u)', Lookers(u)', Unseen(u)', Slack')
  PROVE  Roomy(u)'
BY DEF Roomy, Room, Order, Before

\* No request moves, or one arrives.
LEMMA RestRoom ==
  ASSUME Limits, [Next]_vars, NEW u \in Users, Rests \/ \E t \in Threads : Arrives(t)
  PROVE  Roomy(u)'
<1> DEFINE A == Owns(u)
           B == Owns(u)'
           L == Lookers(u)
           M == Lookers(u)'
           U == Unseen(u)
           V == Unseen(u)'
<1>1. /\ Typed /\ IsFiniteSet(A) /\ Room(A, L, U, Slack) /\ L \in SUBSET Threads
      /\ M \in SUBSET Threads
      /\ \A v \in Threads :
           /\ U[v] = {s \in A : ~SeenBy(task[v], s)} /\ V[v] = {s \in B : ~SeenBy(task'[v], s)}
           /\ v \in L <=> Looking(task[v]) /\ task[v].user = u
           /\ v \in M <=> Looking(task'[v]) /\ task'[v].user = u
  BY Roominess
<1>2. B \in SUBSET A
  BY OwnsFade DEF Limits
<1>3. Slack \in Int /\ Slack' = Slack
  BY <1>1, SlackType DEF Rests, Arrives
<1>4. IsFiniteSet(B)
  BY <1>1, <1>2, FS_Subset
<1>5. ASSUME NEW v \in M
      PROVE  v \in L /\ U[v] \in SUBSET A /\ V[v] \in SUBSET U[v]
  <2>1. v \in Threads
    BY <1>1
  <2>2. /\ Looking(task[v]) /\ task[v].user = u
        /\ \A s : SeenBy(task'[v], s) <=> SeenBy(task[v], s)
    BY <1>1, <2>1 DEF Rests, Arrives
  <2> HIDE DEF A, B, L, M, U, V
  <2> QED BY <1>1, <1>2, <2>1, <2>2
<1> HIDE DEF A, B, L, M, U, V
<1>6. M \in SUBSET L /\ \A v \in M : U[v] \in SUBSET A /\ V[v] \in SUBSET U[v]
  BY <1>5
<1>7. ASSUME NEW k \in Int, Slack <= k
      PROVE  Room(B, M, V, k)
  <2>1. IsFiniteSet(A) /\ Room(A, L, U, Slack) /\ L \in SUBSET Threads
    BY <1>1
  <2> QED BY <1>2, <1>3, <1>6, <1>7, <2>1, RoomLess
<1>8. Slack' \in Int /\ Slack <= Slack'
  BY <1>3
<1>9. Room(B, M, V, Slack')
  BY <1>7, <1>8
<1> QED BY <1>4, <1>9, RoomyNext DEF B, M, V

\* A request goes on, or a command of it fails.
LEMMA TurnRoom ==
  ASSUME Limits, [Next]_vars, NEW u \in Users, NEW t \in Threads, Works(t) \/ Slips(t)
  PROVE  Roomy(u)'
<1> DEFINE A == Owns(u)
           B == Owns(u)'
           L == Lookers(u)
           M == Lookers(u)'
           U == Unseen(u)
           V == Unseen(u)'
           r == task[t]
           n == task'[t]
<1>1. /\ Typed /\ IsFiniteSet(A) /\ Room(A, L, U, Slack) /\ L \in SUBSET Threads
      /\ M \in SUBSET Threads /\ A \subseteq ActiveOf(u)
      /\ \A v \in Threads :
           /\ U[v] = {s \in A : ~SeenBy(task[v], s)} /\ V[v] = {s \in B : ~SeenBy(task'[v], s)}
           /\ v \in L <=> Looking(task[v]) /\ task[v].user = u
           /\ v \in M <=> Looking(task'[v]) /\ task'[v].user = u
  BY Roominess
<1>2. B \in SUBSET A
  BY OwnsFade DEF Limits
<1>3. /\ Slack \in Int /\ Cardinality(Threads) - 1 <= Slack
      /\ Works(t) => Slack' = Slack
      /\ Slips(t) => Slack' = Slack + 1
  BY <1>1, SlackType DEF Works, Slips
<1>4. IsFiniteSet(B)
  BY <1>1, <1>2, FS_Subset
<1>5. \A v \in Threads : v # t => task'[v] = task[v]
  BY DEF Works, Slips, Turn
<1>6. Works(t) => B \cap Ends(t) = {}
  BY EndsFade DEF Limits
<1> HIDE DEF A, B, L, M, U, V
<1>7. ASSUME NEW v \in M, v # t
      PROVE  v \in L /\ U[v] \in SUBSET A /\ V[v] \in SUBSET U[v]
  <2>1. v \in Threads /\ task'[v] = task[v]
    BY <1>1, <1>5, <1>7
  <2> QED BY <1>1, <1>2, <1>7, <2>1
<1>8. ASSUME NEW k \in Int, k = Slack \/ k = Slack + 1,
             t \in M => t \in L /\ V[t] \in SUBSET U[t]
      PROVE  Room(B, M, V, k)
  <2>1. \A v \in M : v \in L /\ U[v] \in SUBSET A /\ V[v] \in SUBSET U[v]
    BY <1>1, <1>7, <1>8
  <2>2. M \in SUBSET L /\ \A v \in M : U[v] \in SUBSET A /\ V[v] \in SUBSET U[v]
    BY <2>1
  <2>3. Slack \in Int /\ k \in Int /\ Slack <= k
    BY <1>3, <1>8
  <2>4. IsFiniteSet(A) /\ Room(A, L, U, Slack) /\ L \in SUBSET Threads
    BY <1>1
  <2> QED BY <1>2, <2>2, <2>3, <2>4, RoomLess
<1>9. ASSUME Room(B, M, V, Slack') PROVE Roomy(u)'
  BY <1>4, <1>9, RoomyNext DEF B, M, V
<1>10. CASE t \notin M
  <2>1. Slack' \in Int /\ (Slack' = Slack \/ Slack' = Slack + 1)
    BY <1>3
  <2> QED BY <1>8, <1>9, <1>10, <2>1
<1>11. CASE Works(t) /\ t \in M
  <2>1. Looking(n) /\ n.user = u /\ (Lists(n) \/ Follows(r, n, ActiveOf(n.user) \ Ends(t)))
    BY <1>1, <1>11 DEF Works, Steady
  <2>2. CASE Lists(n)
    <3>1. V[t] = {}
      BY <1>1, <1>2, <2>1, <2>2 DEF Lists
    <3>2. CASE t \in L
      BY <1>3, <1>8, <1>9, <1>11, <3>1, <3>2
    <3>3. CASE t \notin L
      <4>1. M \in SUBSET (L \cup {t}) /\ \A v \in M \ {t} : U[v] \in SUBSET A /\ V[v] \in SUBSET U[v]
        BY <1>7
      <4>2. Room(B, M, V, Slack)
        BY <1>1, <1>2, <1>3, <3>1, <3>3, <4>1, RoomLists
      <4> QED BY <1>3, <1>9, <1>11, <4>2
    <3> QED BY <3>2, <3>3
  <2>3. CASE Follows(r, n, ActiveOf(n.user) \ Ends(t))
    <3>1. t \in L
      BY <1>1, <2>1, <2>3 DEF Follows
    <3>2. \A s \in B : SeenBy(r, s) => SeenBy(n, s)
      BY <1>1, <1>2, <1>6, <1>11, <2>1, <2>3 DEF Follows
    <3>3. V[t] \in SUBSET U[t]
      BY <1>1, <1>2, <3>2
    <3> QED BY <1>3, <1>8, <1>9, <1>11, <3>1, <3>3
  <2> QED BY <2>1, <2>2, <2>3
<1>12. CASE Slips(t) /\ t \in M
  <2>1. Looking(n) /\ n.user = u /\ (~Looking(r) \/ \E x : Follows(r, n, ActiveOf(n.user) \ {x}))
    BY <1>1, <1>12 DEF Slips, Slipping
  <2>2. CASE ~Looking(r)
    <3>1. t \notin L
      BY <1>1, <2>2
    <3>2. M \in SUBSET (L \cup {t}) /\ \A v \in M \ {t} : U[v] \in SUBSET A /\ V[v] \in SUBSET U[v]
      BY <1>7
    <3>3. Room(B, M, V, Slack + 1)
      BY <1>1, <1>2, <1>3, <3>1, <3>2, RoomBlind
    <3> QED BY <1>3, <1>9, <1>12, <3>3
  <2>3. ASSUME NEW x, Follows(r, n, ActiveOf(n.user) \ {x})
        PROVE  Roomy(u)'
    <3>1. t \in L
      BY <1>1, <2>1, <2>3 DEF Follows
    <3>2. \A s \in B : SeenBy(r, s) /\ s # x => SeenBy(n, s)
      BY <1>1, <1>2, <2>1, <2>3 DEF Follows
    <3>3. U[t] \in SUBSET A /\ V[t] \in SUBSET (U[t] \cup {x})
      BY <1>1, <1>2, <3>2
    <3>4. M \in SUBSET L /\ \A v \in M : U[v] \in SUBSET A /\ V[v] \in SUBSET (U[v] \cup {x})
      BY <1>7, <3>1, <3>3
    <3>5. Room(B, M, V, Slack + 1)
      BY <1>1, <1>2, <1>3, <3>4, RoomMisses
    <3> QED BY <1>3, <1>9, <1>12, <3>5
  <2> QED BY <2>1, <2>2, <2>3
<1> QED BY <1>10, <1>11, <1>12

\* A login at the end of its loop: what it knows of is less than the limit.
LEMMA KnownFew ==
  ASSUME Typed, NEW t \in Threads, Counted(task[t]), NEW s \in Sessions, CreateSession(t, s)
  PROVE  \E F : /\ IsFiniteSet(F) /\ Cardinality(F) < MaxSessions
                /\ \A x : SeenBy(task[t], x) => x \in F
<1> DEFINE r == task[t]
           F == {f.session : f \in r.found}
           image == [f \in r.found |-> f.session]
<1>1. r.pc = "evict" /\ r.excess = 0 /\ IsFiniteSet(r.found)
  BY TaskType DEF CreateSession, At, Shape
<1>2. r.back # "evict" /\ r.todo = {} /\ Cardinality(r.found) < MaxSessions
  BY <1>1, CapAssumption, FS_CardinalityType DEF Counted
<1>3. image \in Surjection(r.found, F)
  BY DEF Surjection
<1>4. IsFiniteSet(F) /\ Cardinality(F) <= Cardinality(r.found)
  BY <1>1, <1>3, FS_Surjection
<1>5. Cardinality(F) < MaxSessions
  BY <1>1, <1>2, <1>4, FS_CardinalityType, CapAssumption
<1>6. \A x : SeenBy(r, x) => x \in F
  BY <1>2 DEF SeenBy
<1> QED BY <1>4, <1>5, <1>6

\* A session is stored.
LEMMA CreateRoom ==
  ASSUME Limits, [Next]_vars, NEW u \in Users, NEW t \in Threads, NEW s \in Sessions,
         CreateSession(t, s)
  PROVE  Roomy(u)'
<1> DEFINE A == Owns(u)
           B == Owns(u)'
           L == Lookers(u)
           M == Lookers(u)'
           U == Unseen(u)
           V == Unseen(u)'
           r == task[t]
<1>1. /\ Typed /\ IsFiniteSet(A) /\ Room(A, L, U, Slack) /\ L \in SUBSET Threads
      /\ M \in SUBSET Threads
      /\ \A v \in Threads :
           /\ U[v] = {x \in A : ~SeenBy(task[v], x)} /\ V[v] = {x \in B : ~SeenBy(task'[v], x)}
           /\ v \in L <=> Looking(task[v]) /\ task[v].user = u
           /\ v \in M <=> Looking(task'[v]) /\ task'[v].user = u
  BY Roominess
<1>2. /\ B \subseteq A \cup {s} /\ (r.user # u => B \subseteq A)
  <2>1. revived' = revived
    BY DEF CreateSession
  <2> QED BY <2>1, CreateFades DEF Limits, Owns
<1>3. Slack \in Int /\ Slack' = Slack
  BY <1>1, SlackType DEF CreateSession
<1>4. IsFiniteSet(B)
  <2>1. IsFiniteSet(A \cup {s})
    BY <1>1, FS_AddElement
  <2> QED BY <1>2, <2>1, FS_Subset
<1>5. Looking(r) /\ ~Looking(task'[t]) /\ \A v \in Threads : v # t => task'[v] = task[v]
  <2>1. r \in Tasks /\ Shape(r) /\ r.pc = "evict" /\ Counted(r)
    BY <1>1, TaskType DEF CreateSession, At, Limits
  <2>2. r.route = "login" /\ r.back # "evict"
    BY <2>1 DEF Shape, Counted, LoginSteps
  <2>3. /\ task'[t].pc = "token" /\ task'[t].back = r.back
        /\ \A v \in Threads : v # t => task'[v] = task[v]
    BY <1>1, <2>1 DEF CreateSession, Typed, TypeOK, Tasks
  <2> QED BY <2>1, <2>2, <2>3 DEF Looking
<1> HIDE DEF A, B, L, M, U, V
<1>6. M \in SUBSET (L \ {t})
  BY <1>1, <1>5
<1>7. \A v \in M : V[v] \in SUBSET (U[v] \cup {s}) /\ (r.user # u => V[v] \in SUBSET U[v])
  <2> TAKE v \in M
  <2>1. v \in Threads /\ task'[v] = task[v]
    BY <1>1, <1>5, <1>6
  <2> QED BY <1>1, <1>2, <2>1
<1>8. \A v \in L : U[v] \in SUBSET A
  BY <1>1
<1>9. CASE r.user # u
  <2>1. B \in SUBSET A /\ M \in SUBSET L
    BY <1>2, <1>6, <1>9
  <2>2. \A v \in M : U[v] \in SUBSET A /\ V[v] \in SUBSET U[v]
    BY <1>6, <1>7, <1>8, <1>9
  <2>3. ASSUME NEW k \in Int, Slack <= k
        PROVE  Room(B, M, V, k)
    <3>1. IsFiniteSet(A) /\ Room(A, L, U, Slack) /\ L \in SUBSET Threads
      BY <1>1
    <3> QED BY <1>3, <2>1, <2>2, <2>3, <3>1, RoomLess
  <2>4. Slack' \in Int /\ Slack <= Slack'
    BY <1>3
  <2>5. Room(B, M, V, Slack')
    BY <2>3, <2>4
  <2> QED BY <1>4, <2>5, RoomyNext DEF B, M, V
<1>10. CASE r.user = u
  <2>1. t \in L
    BY <1>1, <1>5, <1>10
  <2>2. PICK F : /\ IsFiniteSet(F) /\ Cardinality(F) < MaxSessions
                 /\ \A x : SeenBy(r, x) => x \in F
    BY <1>1, KnownFew DEF Limits
  <2>3. A \subseteq F \cup U[t]
    BY <1>1, <2>2
  <2>4. B \in SUBSET (A \cup {s})
    BY <1>2
  <2>5. Adds(A, s, B, L, t, M, U, V, F)
    BY <1>1, <1>6, <1>7, <1>8, <2>1, <2>2, <2>3, <2>4 DEF Adds
  <2>6. Room(B, M, V, Slack)
    BY <1>1, <1>3, <2>5, RoomAdds
  <2> QED BY <1>3, <1>4, <2>6, RoomyNext DEF B, M, V
<1> QED BY <1>9, <1>10

\* An update that marks a use is not of a login that makes room.
LEMMA UsesDoNotLook ==
  ASSUME Typed, NEW t \in Threads, Counted(task[t]), WriteCopy(t), task[t].copy.active
  PROVE  ~Looking(task'[t])
<1> DEFINE r == task[t]
<1>1. r \in Tasks /\ Shape(r) /\ r.pc = "write" /\ Return(t, r.back)
  BY TaskType DEF WriteCopy, At
<1>2. r.route # "login"
  BY <1>1 DEF Counted, LoginSteps
<1>3. task'[t] = NoTask \/ task'[t].route = r.route
  BY <1>1 DEF Return, Finish, Typed, TypeOK, Tasks
<1> QED BY <1>2, <1>3 DEF Looking, NoTask

\* A login stays undisturbed until another request arrives or a command fails.
LEMMA UndisturbedNext ==
  ASSUME NEW t \in Threads, NEW n, n = task'[t],
         \A v \in Threads : v # t => task'[v].route = "none",
         Looking(n) => \A s \in ActiveOf(n.user)' : SeenBy(n, s),
         n.route = "login" /\ n.pc = "token" =>
           IsFiniteSet(ActiveOf(n.user)') /\ Cardinality(ActiveOf(n.user)') <= MaxSessions
  PROVE  Undisturbed(t)'
BY DEF Undisturbed, Lists

LEMMA UndisturbedStep ==
  ASSUME Limits, [Next]_vars, NEW t \in Threads
  PROVE  Undisturbed(t)'
<1> SUFFICES ASSUME task'[t].alone PROVE Undisturbed(t)'
  BY DEF Undisturbed
<1> PICK n : n = task'[t]
  OBVIOUS
<1> DEFINE r == task[t]
           on == ActiveOf(n.user)
<1>1. /\ Typed /\ Owned /\ r \in Tasks /\ Shape(r)
      /\ \A v \in Threads : Counted(task[v]) /\ Undisturbed(v)
  BY TaskType DEF Limits, Owned, Stored
<1>2. ASSUME r.alone
      PROVE  /\ \A v \in Threads : v # t => task[v].route = "none" /\ task[v].pc = "done"
             /\ Looking(r) => Lists(r)
  BY <1>1, <1>2 DEF Undisturbed, Counted
<1>3. CASE Rests
  <2>1. n = r /\ task' = task
    BY <1>3 DEF Rests
  <2>2. on' \subseteq on
    BY <1>1, <1>3, ActiveFades DEF Rests
  <2>3. /\ \A v \in Threads : v # t => task'[v].route = "none"
        /\ Looking(n) => \A s \in on : SeenBy(n, s)
        /\ n.route = "login" /\ n.pc = "token" =>
             IsFiniteSet(on) /\ Cardinality(on) <= MaxSessions
    BY <1>1, <2>1 DEF Undisturbed, Lists
  <2>4. IsFiniteSet(on) /\ Cardinality(on) <= MaxSessions =>
          IsFiniteSet(on') /\ Cardinality(on') <= MaxSessions
    <3> SUFFICES ASSUME IsFiniteSet(on), Cardinality(on) <= MaxSessions
                 PROVE  IsFiniteSet(on') /\ Cardinality(on') <= MaxSessions
      OBVIOUS
    <3> HIDE DEF on
    <3>1. IsFiniteSet(on') /\ Cardinality(on') <= Cardinality(on)
      BY <2>2, FS_Subset
    <3>2. Cardinality(on') \in Nat /\ Cardinality(on) \in Nat
      BY <3>1, FS_CardinalityType
    <3> QED BY <3>1, <3>2, CapAssumption
  <2> QED BY <2>2, <2>3, <2>4, UndisturbedNext
<1>4. ASSUME NEW v \in Threads, Works(v)
      PROVE  Undisturbed(t)'
  <2>1. v = t
    BY <1>2, <1>4 DEF Works, Turn
  <2>2. /\ Steady(t) /\ \A x \in Threads : x # t => task'[x] = task[x]
    BY <1>4, <2>1 DEF Works, Turn
  <2>3. r.alone /\ ~(n.route = "login" /\ n.pc = "token")
    BY <2>2 DEF Steady
  <2>4. ASSUME Looking(n), NEW s \in on \ Ends(t)
        PROVE  SeenBy(n, s)
    <3>1. Lists(n) \/ Follows(r, n, on \ Ends(t))
      BY <2>2, <2>4 DEF Steady
    <3>2. CASE Lists(n)
      BY <2>4, <3>2 DEF Lists
    <3>3. CASE Follows(r, n, on \ Ends(t))
      <4>1. Lists(r) /\ r.user = n.user
        BY <1>2, <2>3, <3>3 DEF Follows
      <4> QED BY <2>4, <3>3, <4>1 DEF Follows, Lists
    <3> QED BY <3>1, <3>2, <3>3
  <2>5. ASSUME Looking(n), NEW s \in on' PROVE s \in on \ Ends(t)
    <3>0. s \in Sessions
      BY <2>5 DEF ActiveOf
    <3>1. CASE WriteCopy(t)
      <4>1. ~task[t].copy.active
        BY <1>1, <2>5, <3>1, UsesDoNotLook
      <4> QED BY <1>1, <2>5, <3>0, <3>1, <4>1, WriteFades
    <3>2. CASE UNCHANGED <<store, clock, revived>> /\ ~At(t, "write")
      <4>1. on' \subseteq on
        BY <1>1, <3>2, ActiveFades
      <4> QED BY <2>5, <3>2, <4>1 DEF Ends
    <3> QED BY <1>4, <2>1, <3>1, <3>2 DEF Works
  <2>6. \A x \in Threads : x # t => task'[x].route = "none"
    BY <1>2, <2>2, <2>3
  <2> QED BY <2>3, <2>4, <2>5, <2>6, UndisturbedNext
<1>5. ASSUME NEW v \in Threads, Slips(v)
      PROVE  FALSE
  <2>1. v = t
    BY <1>2, <1>5 DEF Slips, Turn
  <2> QED BY <1>5, <2>1 DEF Slips, Slipping
<1>6. ASSUME NEW v \in Threads, Arrives(v)
      PROVE  Undisturbed(t)'
  <2>1. v = t
    BY <1>6 DEF Arrives
  <2>2. /\ \A x \in Threads : x # t => task'[x].route = "none"
        /\ ~Looking(n) /\ n.pc # "token"
    BY <1>6, <2>1 DEF Arrives
  <2> QED BY <2>2, UndisturbedNext
<1>7. ASSUME NEW v \in Threads, NEW s \in Sessions, CreateSession(v, s)
      PROVE  Undisturbed(t)'
  <2>1. task[v].pc = "evict" /\ \A x \in Threads : x # v => task'[x] = task[x]
    BY <1>1, <1>7 DEF CreateSession, At, Typed, TypeOK
  <2>2. v = t
    BY <1>2, <2>1
  <2>3. r.route = "login" /\ r.back # "evict"
    BY <1>1, <2>1, <2>2 DEF Shape, Counted, LoginSteps
  <2>4. n.pc = "token" /\ n.back = r.back /\ n.user = r.user /\ n.alone = r.alone
    BY <1>1, <1>7, <2>2 DEF CreateSession, Typed, TypeOK, Tasks
  <2>5. ~Looking(n) /\ Lists(r)
    BY <1>2, <2>1, <2>2, <2>3, <2>4 DEF Looking
  <2>6. PICK F : /\ IsFiniteSet(F) /\ Cardinality(F) < MaxSessions
                 /\ \A x : SeenBy(r, x) => x \in F
    BY <1>1, <1>7, <2>2, KnownFew
  <2>7. on \subseteq F
    BY <2>4, <2>5, <2>6 DEF Lists
  <2>8. on' \subseteq on \cup {s}
    BY <1>1, <1>7, CreateFades
  <2>9. IsFiniteSet(on') /\ Cardinality(on') <= MaxSessions
    <3> HIDE DEF on
    <3>1. IsFiniteSet(F \cup {s}) /\ Cardinality(F \cup {s}) <= Cardinality(F) + 1
          /\ Cardinality(F) \in Nat
      BY <2>6, AddOne
    <3>2. on' \in SUBSET (F \cup {s})
      BY <2>7, <2>8
    <3>3. IsFiniteSet(on') /\ Cardinality(on') <= Cardinality(F \cup {s})
      BY <3>1, <3>2, FS_Subset
    <3>4. Cardinality(on') \in Nat /\ Cardinality(F \cup {s}) \in Nat
      BY <3>1, <3>3, FS_CardinalityType
    <3> QED BY <2>6, <3>1, <3>3, <3>4, CapAssumption
  <2>10. \A x \in Threads : x # t => task'[x].route = "none"
    BY <1>2, <2>1, <2>2, <2>4
  <2> QED BY <2>5, <2>9, <2>10, UndisturbedNext
<1> QED BY <1>1, <1>3, <1>4, <1>5, <1>6, <1>7, StepKinds

\* Every step counts what it should.
LEMMA CountedStep ==
  ASSUME Limits, [Next]_vars, NEW v \in Threads
  PROVE  Counted(task'[v])
<1>1. Typed /\ Owned /\ \A x \in Threads : Counted(task[x])
  BY DEF Limits, Owned, Stored
<1>2. CASE Rests
  BY <1>1, <1>2 DEF Rests
<1>3. ASSUME NEW t \in Threads, Works(t) \/ Slips(t)
      PROVE  Counted(task'[v])
  BY <1>1, <1>3 DEF Works, Slips, Turn, Steady, Slipping
<1>4. ASSUME NEW t \in Threads, Arrives(t)
      PROVE  Counted(task'[v])
  BY <1>1, <1>4 DEF Arrives
<1>5. ASSUME NEW t \in Threads, NEW s \in Sessions, CreateSession(t, s)
      PROVE  Counted(task'[v])
  <2> DEFINE r == task[t]
             n == task'[t]
  <2>1. r \in Tasks /\ Shape(r) /\ r.pc = "evict" /\ Counted(r)
    BY <1>1, <1>5, TaskType DEF CreateSession, At
  <2>2. /\ n.pc = "token" /\ n.back = r.back /\ n.route = r.route
        /\ \A x \in Threads : x # t => task'[x] = task[x]
    BY <1>1, <1>5 DEF CreateSession, Typed, TypeOK, Tasks
  <2> HIDE DEF n
  <2>3. Counted(n)
    BY <2>1, <2>2 DEF Counted, Shape, LoginSteps
  <2> QED BY <1>1, <2>2, <2>3 DEF n
<1> QED BY <1>1, <1>2, <1>3, <1>4, <1>5, StepKinds

\* The invariant holds after every step.
LEMMA LimitsStep == Limits /\ [Next]_vars => Limits'
<1> SUFFICES ASSUME Limits, [Next]_vars PROVE Limits'
  OBVIOUS
<1>1. Owned'
  BY OwnedStep DEF Limits
<1>2. \A t \in Threads : Counted(task'[t]) /\ Undisturbed(t)'
  BY CountedStep, UndisturbedStep
<1>3. \A u \in Users : Roomy(u)'
  BY StepKinds, RestRoom, TurnRoom, CreateRoom DEF Limits
<1> QED BY <1>1, <1>2, <1>3 DEF Limits

\* A user never has more sessions than the limit, the other requests in flight and the
\* commands that failed allow for, but for those that a late update revived.
THEOREM OverrunsAreBounded == Spec => []OverrunIsBounded
<1>1. Limits => OverrunIsBounded
  <2> SUFFICES ASSUME Limits, NEW u \in Users
               PROVE  Cardinality(Owns(u)) <= MaxSessions + Cardinality(Threads) - 1 + spent.faults
    BY DEF OverrunIsBounded, Owns
  <2>1. Typed /\ IsFiniteSet(Owns(u)) /\ Room(Owns(u), Lookers(u), Unseen(u), Slack)
    BY DEF Limits, Owned, Stored, Roomy
  <2>2. PICK N \in Nat, cut \in Int : \E rank \in [Threads -> Int] :
          Order(Owns(u), Lookers(u), Unseen(u), Slack, N, rank, cut)
    BY <2>1 DEF Room
  <2>3. PICK rank \in [Threads -> Int] :
          Order(Owns(u), Lookers(u), Unseen(u), Slack, N, rank, cut)
    BY <2>2
  <2>4. Cardinality(Owns(u)) + Cardinality(Before(Lookers(u), rank, cut)) <= MaxSessions + Slack
    BY <2>3 DEF Order
  <2>5. Cardinality(Before(Lookers(u), rank, cut)) \in Nat
    <3>1. Lookers(u) \in SUBSET Threads
      BY DEF Lookers
    <3> QED BY <3>1, BeforeFinite
  <2>6. /\ Cardinality(Owns(u)) \in Nat /\ Cardinality(Threads) \in Nat /\ spent.faults \in Nat
    BY <2>1, ThreadsAssumption, FS_CardinalityType DEF Typed, TypeOK
  <2> QED BY <2>4, <2>5, <2>6, CapAssumption DEF Slack
<1> QED BY <1>1, LimitsInit, LimitsStep, PTL DEF Spec

\* A login that nothing disturbed leaves its user with no more sessions than the limit.
THEOREM LoginsRestoreTheCap == Spec => []LoginRestoresTheCap
<1>1. Limits => LoginRestoresTheCap
  BY DEF Limits, Undisturbed, LoginRestoresTheCap, At
<1> QED BY <1>1, LimitsInit, LimitsStep, PTL DEF Spec
====
