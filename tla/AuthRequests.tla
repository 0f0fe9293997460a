---- MODULE AuthRequests ----
(***************************************************************************)
(* The requests that use sessions, each a thread that gives way to the     *)
(* others at every command it awaits: a login counts the attempt, looks at *)
(* the password, evicts the oldest sessions of the user and stores a new   *)
(* one; a visit sweeps the expired sessions when that is due and validates *)
(* its own; a logout validates and terminates; a refresh validates and     *)
(* issues a CSRF token.                                                    *)
(*                                                                         *)
(* A record read by one step is written back whole by a later one: copy    *)
(* holds it in between.                                                    *)
(***************************************************************************)
EXTENDS SessionStorage, LoginThrottle

CONSTANTS
  Threads,          \* requests in flight
  Addresses,        \* client addresses; the names are those of Users
  MaxSessions,      \* MAX_SESSIONS_PER_USER
  CleanupInterval,  \* SESSION_CLEANUP_INTERVAL_MINUTES
  FailOpen,         \* RATE_LIMITER_FAIL_OPEN
  MaxClock,         \* bound: end of time
  MaxLogins,        \* bound: calls of login
  MaxFaults         \* bound: commands that fail

ASSUME CapAssumption == MaxSessions \in Nat \ {0} /\ CleanupInterval \in Nat
ASSUME CountersAssumption == Counters \in {{}, Users \cup Addresses}
ASSUME ThreadsAssumption == IsFiniteSet(Threads)
ASSUME LimitsAssumption ==
  /\ FailOpen \in BOOLEAN
  /\ MaxClock \in Nat /\ MaxLogins \in Nat /\ MaxFaults \in Nat

VARIABLES
  task,         \* [Threads -> the request and its local variables]
  lastCleanup,  \* SessionManager.last_cleanup, of the process
  revived,      \* history: sessions an update made active again, after they were
                \* ended or their key was gone
  spent         \* logins and faults so far

vars == <<storageVars, throttleVars, task, lastCleanup, revived, spent>>

Steps == {"done", "count_ip", "count_name", "password", "clear_ip",
          "clear_name", "list", "list_by_scan", "read", "evict", "token",
          "cleanup", "sweep", "validate", "terminate", "exists", "write"}

Tasks ==
  [route : {"none", "login", "visit", "logout", "refresh"},
   pc : Steps,
   back : Steps,                  \* where an update returns to
   user : Users \cup {None},      \* login: the name
   from : Addresses \cup {None},  \* login: the address
   allowed : BOOLEAN,             \* login: no count was above the limit
   cookie : Sessions \cup {None}, \* the session the client presents
   session : Sessions \cup {None},\* the one in hand
   copy : Records \cup {None},    \* the record that an update will write
   todo : SUBSET Sessions,        \* of a loop over sessions
   found : SUBSET [session : Sessions, last : Nat],  \* active_sessions
   excess : Nat,                  \* excess_count, what is left of it
   now : Nat,                     \* the time it read
   alone : BOOLEAN]               \* history of a login: no other request and
                                  \* no fault since it began

NoTask == [route |-> "none", pc |-> "done", back |-> "done", user |-> None,
           from |-> None, allowed |-> TRUE, cookie |-> None, session |-> None,
           copy |-> None, todo |-> {}, found |-> {}, excess |-> 0, now |-> 0,
           alone |-> FALSE]

TypeOK ==
  /\ StorageTypes /\ ThrottleTypes
  /\ task \in [Threads -> Tasks]
  /\ lastCleanup \in Nat /\ revived \subseteq Sessions
  /\ spent \in [logins : Nat, faults : Nat]

Init ==
  /\ StorageInit /\ ThrottleInit
  /\ task = [t \in Threads |-> NoTask]
  /\ lastCleanup = 0 /\ revived = {}
  /\ spent = [logins |-> 0, faults |-> 0]

At(t, step) == task[t].pc = step
Goto(t, step) == task' = [task EXCEPT ![t].pc = step]
Finish(t) == task' = [task EXCEPT ![t] = NoTask]
Idle(t) == task[t].route = "none"

\* A request arrives.
Begin(t, new) ==
  /\ Idle(t)
  /\ task' = [u \in Threads |->
       IF u = t
       THEN [new EXCEPT !.alone = new.route = "login" /\ \A v \in Threads : Idle(v)]
       ELSE [task[u] EXCEPT !.alone = FALSE]]
  /\ UNCHANGED <<storageVars, throttleVars, lastCleanup, revived>>

(***************************************************************************)
(* login                                                                   *)
(***************************************************************************)
\* RATE_LIMITER_ENABLED; without it no login is counted or refused.
Limited == Counters # {}

Login(t, u, a) ==
  /\ spent.logins < MaxLogins
  /\ spent' = [spent EXCEPT !.logins = @ + 1]
  /\ Begin(t, [NoTask EXCEPT !.route = "login", !.user = u, !.from = a,
                             !.pc = IF Limited THEN "count_ip" ELSE "password"])

CountStep(t, c, step, next) ==
  /\ At(t, step)
  /\ Increment(c)
  /\ task' = [task EXCEPT ![t].pc = next,
                          ![t].allowed = @ /\ Allowed(count'[c])]
  /\ UNCHANGED <<storageVars, lastCleanup, revived, spent>>

CountAddress(t) == CountStep(t, task[t].from, "count_ip", "count_name")
CountName(t) == CountStep(t, task[t].user, "count_name", "password")

\* The limiter refuses, with no look at the password.
Refuse(t) ==
  /\ At(t, "password") /\ ~task[t].allowed
  /\ Finish(t)
  /\ UNCHANGED <<storageVars, throttleVars, lastCleanup, revived, spent>>

\* create_session reads the time before it makes room.
BeginCreation(t) == task' = [task EXCEPT ![t].pc = "list", ![t].now = clock]

\* authenticate_user: the password is right or not.
Authenticate(t) ==
  /\ At(t, "password") /\ task[t].allowed
  /\ LookAtPassword(task[t].user, task[t].from)
  /\ \/ IF Limited THEN Goto(t, "clear_ip") ELSE BeginCreation(t)
     \/ Finish(t)
  /\ UNCHANGED <<storageVars, lastCleanup, revived, spent>>

ClearAddress(t) ==
  /\ At(t, "clear_ip")
  /\ Clear(task[t].from)
  /\ Goto(t, "clear_name")
  /\ UNCHANGED <<storageVars, lastCleanup, revived, spent>>

ClearName(t) ==
  /\ At(t, "clear_name")
  /\ Clear(task[t].user)
  /\ BeginCreation(t)
  /\ UNCHANGED <<storageVars, lastCleanup, revived, spent>>

\* How many sessions to end so that one more fits.
\* MUTANTS of Excess: one too few; the operands are swapped.
ExcessTooFew(active) == IF active > MaxSessions THEN active - MaxSessions ELSE 0
ExcessSwapped(active) == IF active >= MaxSessions THEN MaxSessions - active + 1 ELSE 0
Excess(active) == IF active >= MaxSessions THEN active - MaxSessions + 1 ELSE 0

\* The loop over the sessions of the user, and what follows its last turn.
Enforcing(request) ==
  IF request.todo # {} THEN request
  ELSE [request EXCEPT !.pc = "evict", !.excess = Excess(Cardinality(request.found))]

\* The GET of terminate_session: the record to write, if there is one.
Ending(request, s, back) ==
  IF Get(s) = None THEN request
  ELSE [request EXCEPT !.pc = "exists", !.back = back, !.session = s,
                       !.copy = [Get(s) EXCEPT !.active = FALSE]]

ListSessions(t) ==
  /\ task[t].pc \in {"list", "list_by_scan"}
  /\ LET listed == IF At(t, "list") THEN index[task[t].user] ELSE Scan
     IN task' = [task EXCEPT ![t] = Enforcing([@ EXCEPT !.pc = "read", !.todo = listed])]
  /\ UNCHANGED <<storageVars, throttleVars, lastCleanup, revived, spent>>

ReadSession(t, s) ==
  /\ At(t, "read") /\ s \in task[t].todo
  /\ LET data == Get(s)
         active == IF InUse(data) /\ data.user = task[t].user
                   THEN {[session |-> s, last |-> data.last]} ELSE {}
     IN task' = [task EXCEPT ![t] =
                   Enforcing([task[t] EXCEPT !.todo = @ \ {s}, !.found = @ \cup active])]
  /\ UNCHANGED <<storageVars, throttleVars, lastCleanup, revived, spent>>

\* active_sessions is sorted by last_activity.
Oldest(found) == {old \in found : \A other \in found : old.last <= other.last}
Without(request, old) ==
  [request EXCEPT !.found = @ \ {old}, !.excess = @ - 1]

\* MUTANT of EvictOldest: one session is ended, whatever their number.
EvictOldestOnly(t) ==
  /\ At(t, "evict") /\ task[t].excess > 0
  /\ \E old \in Oldest(task[t].found) :
       task' = [task EXCEPT ![t] =
                  Ending([@ EXCEPT !.found = {}, !.excess = 0], old.session, "evict")]
  /\ UNCHANGED <<storageVars, throttleVars, lastCleanup, revived, spent>>

EvictOldest(t) ==
  /\ At(t, "evict") /\ task[t].excess > 0
  /\ \E old \in Oldest(task[t].found) :
       task' = [task EXCEPT ![t] = Ending(Without(@, old), old.session, "evict")]
  /\ UNCHANGED <<storageVars, throttleVars, lastCleanup, revived, spent>>

\* MUTANT of CreateSession: the token comes before the session.
TokenBeforeSession(t, s) ==
  /\ At(t, "evict") /\ task[t].excess = 0
  /\ \A u \in Users : s \notin index[u]
  /\ CreateToken(s)
  /\ task' = [task EXCEPT ![t].pc = "token", ![t].session = s]
  /\ UNCHANGED <<clock, store, index, throttleVars, lastCleanup, revived, spent>>

\* With the room made, session_storage.create.
CreateSession(t, s) ==
  /\ At(t, "evict") /\ task[t].excess = 0
  /\ \A u \in Users : s \notin index[u]
  /\ Create(s, [user |-> task[t].user, active |-> TRUE, last |-> task[t].now])
  /\ task' = [task EXCEPT ![t].pc = "token", ![t].session = s,
                          ![t].now = 0, ![t].found = {}]
  /\ UNCHANGED <<clock, tokens, throttleVars, lastCleanup, revived, spent>>

\* _generate_csrf_token, the last step of a login and of a refresh.
IssueToken(t) ==
  /\ At(t, "token")
  /\ CreateToken(task[t].session)
  /\ Finish(t)
  /\ UNCHANGED <<clock, store, index, throttleVars, lastCleanup, revived, spent>>

(***************************************************************************)
(* Requests with a session cookie                                          *)
(***************************************************************************)
\* A request of any route that asks for the current user.
Visit(t, s) ==
  /\ LET visit == [NoTask EXCEPT !.route = "visit", !.cookie = s, !.pc = "validate"]
     IN Begin(t, IF clock - lastCleanup < CleanupInterval THEN visit
                 ELSE [visit EXCEPT !.pc = "cleanup", !.now = clock])
  /\ UNCHANGED spent

\* logout and refresh_csrf_token validate without the sweep.
LogoutOrRefresh(t, s) ==
  /\ \E route \in {"logout", "refresh"} :
       Begin(t, [NoTask EXCEPT !.route = route, !.cookie = s, !.pc = "validate"])
  /\ UNCHANGED spent

\* cleanup_expired_sessions
StartCleanup(t) ==
  /\ At(t, "cleanup")
  /\ task' = [task EXCEPT ![t].pc = "sweep", ![t].todo = Scan]
  /\ UNCHANGED <<storageVars, throttleVars, lastCleanup, revived, spent>>

Stale(data, now) == InUse(data) /\ data.last + Timeout < now

SweepSession(t, s) ==
  /\ At(t, "sweep") /\ s \in task[t].todo
  /\ IF Stale(Get(s), task[t].now)
     THEN task' = [task EXCEPT ![t] =
                     Ending([task[t] EXCEPT !.todo = @ \ {s}], s, "sweep")]
     ELSE task' = [task EXCEPT ![t].todo = @ \ {s}]
  /\ UNCHANGED <<storageVars, throttleVars, lastCleanup, revived, spent>>

EndCleanup(t) ==
  /\ At(t, "sweep") /\ task[t].todo = {}
  /\ lastCleanup' = task[t].now
  /\ task' = [task EXCEPT ![t].pc = "validate", ![t].now = 0]
  /\ UNCHANGED <<storageVars, throttleVars, revived, spent>>

AfterValidation == [visit |-> "done", logout |-> "terminate", refresh |-> "token"]

\* validate_session: the session is unknown or was ended.
Reject(t) ==
  /\ At(t, "validate")
  /\ ~InUse(Get(task[t].cookie))
  /\ Finish(t)
  /\ UNCHANGED <<storageVars, throttleVars, lastCleanup, revived, spent>>

\* The record it read, with the time of this use, is to be written.
Accept(t) ==
  task' = [task EXCEPT ![t].pc = "exists", ![t].session = task[t].cookie,
                       ![t].back = AfterValidation[task[t].route],
                       ![t].copy = [Get(task[t].cookie) EXCEPT !.last = clock]]

\* MUTANT of Validate: a use makes the session active, whatever it was.
ValidateEnded(t) ==
  /\ At(t, "validate") /\ Get(task[t].cookie) # None
  /\ task' = [task EXCEPT ![t].pc = "exists", ![t].session = task[t].cookie,
                          ![t].back = AfterValidation[task[t].route],
                          ![t].copy = [Get(task[t].cookie) EXCEPT !.active = TRUE]]
  /\ UNCHANGED <<storageVars, throttleVars, lastCleanup, revived, spent>>

\* It is refused and ended for its age, or marked as in use now.
Validate(t) ==
  /\ At(t, "validate") /\ InUse(Get(task[t].cookie))
  /\ IF clock - Get(task[t].cookie).last > Timeout
     THEN task' = [task EXCEPT ![t].pc = "terminate", ![t].session = task[t].cookie]
     ELSE Accept(t)
  /\ UNCHANGED <<storageVars, throttleVars, lastCleanup, revived, spent>>

(***************************************************************************)
(* terminate_session, and the update that it shares with the others        *)
(***************************************************************************)
Return(t, step) ==
  IF step = "done" THEN Finish(t)
  ELSE task' = [task EXCEPT ![t].pc = step, ![t].back = "done", ![t].copy = None]

\* Of a session past its age, or of a logout.
Terminate(t) ==
  /\ At(t, "terminate")
  /\ IF Get(task[t].session) = None THEN Finish(t)
     ELSE task' = [task EXCEPT ![t] = Ending(@, task[t].session, "done")]
  /\ UNCHANGED <<storageVars, throttleVars, lastCleanup, revived, spent>>

CheckExists(t) ==
  /\ At(t, "exists")
  /\ IF Exists(task[t].session) THEN Goto(t, "write") ELSE Return(t, task[t].back)
  /\ UNCHANGED <<storageVars, throttleVars, lastCleanup, revived, spent>>

WriteCopy(t) ==
  /\ At(t, "write")
  /\ Set(task[t].session, task[t].copy)
  /\ revived' = revived \cup
       {s \in {task[t].session} : task[t].copy.active /\ ~Active(s)}
  /\ Return(t, task[t].back)
  /\ UNCHANGED <<clock, index, tokens, throttleVars, lastCleanup, spent>>

(***************************************************************************)
(* Failures: the command a thread awaits raises and has no effect.         *)
(***************************************************************************)
OnFailure == [count_ip |-> IF FailOpen THEN "count_name" ELSE "password",
              count_name |-> "password", clear_ip |-> "clear_name",
              clear_name |-> "list", list |-> "list_by_scan",
              list_by_scan |-> "evict", cleanup |-> "validate"]

\* The handler goes on.
FailOver(t) ==
  /\ task[t].pc \in DOMAIN OnFailure
  /\ task' = [task EXCEPT ![t].pc = OnFailure[task[t].pc],
       ![t].allowed = @ \/ (At(t, "count_name") /\ ~FailOpen),
       ![t].now = IF At(t, "clear_name") THEN clock ELSE @,
       ![t].alone = FALSE]

\* A loop over sessions goes on without this one.
SkipSession(t) ==
  /\ task[t].pc \in {"read", "sweep"}
  /\ \E s \in task[t].todo :
       LET rest == [task[t] EXCEPT !.todo = @ \ {s}, !.alone = FALSE]
       IN task' = [task EXCEPT ![t] = IF At(t, "read") THEN Enforcing(rest) ELSE rest]

Updating(t) == task[t].pc \in {"exists", "write"}

\* terminate_session and the sweep give the update up and go on.
GiveUpEnding(t) ==
  \/ At(t, "terminate") /\ Finish(t)
  \/ /\ At(t, "evict") /\ task[t].excess > 0
     /\ \E old \in Oldest(task[t].found) :
          task' = [task EXCEPT ![t] = [Without(@, old) EXCEPT !.alone = FALSE]]
  \/ /\ Updating(t) /\ ~task[t].copy.active
     /\ IF task[t].back = "done" THEN Finish(t)
        ELSE task' = [task EXCEPT ![t].pc = task[t].back, ![t].back = "done",
                                  ![t].copy = None, ![t].alone = FALSE]

\* The request is answered with an error, or as one with no session.
Abort(t) ==
  /\ \/ At(t, "password") /\ task[t].allowed
     \/ At(t, "evict") /\ task[t].excess = 0
     \/ At(t, "token") \/ At(t, "validate")
     \/ Updating(t) /\ task[t].copy.active
  /\ Finish(t)

Fail(t) ==
  /\ spent.faults < MaxFaults
  /\ spent' = [spent EXCEPT !.faults = @ + 1]
  /\ FailOver(t) \/ SkipSession(t) \/ GiveUpEnding(t) \/ Abort(t)
  /\ UNCHANGED <<storageVars, throttleVars, lastCleanup, revived>>

(***************************************************************************)
(* Time                                                                    *)
(***************************************************************************)
TimePasses ==
  /\ Tick(MaxClock)
  /\ UNCHANGED <<throttleVars, task, lastCleanup, revived, spent>>

\* The window of a counter ends: the key of the limiter expires.
WindowEnds(c) ==
  /\ count[c] > 0
  /\ Clear(c)
  /\ UNCHANGED <<storageVars, task, lastCleanup, revived, spent>>

LoginStep(t) ==
  \/ CountAddress(t) \/ CountName(t) \/ Refuse(t) \/ Authenticate(t)
  \/ ClearAddress(t) \/ ClearName(t) \/ ListSessions(t)
  \/ \E s \in Sessions : ReadSession(t, s)
  \/ EvictOldest(t)
  \/ \E s \in Sessions : CreateSession(t, s)
  \/ IssueToken(t)

CookieStep(t) ==
  \/ StartCleanup(t)
  \/ \E s \in Sessions : SweepSession(t, s)
  \/ EndCleanup(t) \/ Reject(t) \/ Validate(t)
  \/ Terminate(t) \/ CheckExists(t) \/ WriteCopy(t)

\* Sessions whose login was answered: their clients have the cookie.
Known == {s \in Sessions : tokens[s] > 0}

Next ==
  \/ \E t \in Threads :
       \/ \E u \in Users, a \in Addresses : Login(t, u, a)
       \/ \E s \in Known : Visit(t, s) \/ LogoutOrRefresh(t, s)
       \/ LoginStep(t) \/ CookieStep(t) \/ Fail(t)
  \/ TimePasses
  \/ \E c \in Counters : WindowEnds(c)

Spec == Init /\ [][Next]_vars

(***************************************************************************)
(* Properties                                                              *)
(***************************************************************************)

\* MAX_SESSIONS_PER_USER is read and acted upon in steps, so that logins at
\* the same time each leave room for one.  Apart from sessions that a late
\* update revived, the excess never grows beyond one session per other request
\* in flight and one per command that failed, however long the requests go on.
OverrunIsBounded ==
  \A u \in Users :
    Cardinality(ActiveOf(u) \ revived) <=
      MaxSessions + Cardinality(Threads) - 1 + spent.faults

\* A login that nothing disturbed ends every session above the limit, the
\* ones that earlier races left included (_enforce_session_limit).
LoginRestoresTheCap ==
  \A t \in Threads :
    At(t, "token") /\ task[t].route = "login" /\ task[t].alone =>
      Cardinality(ActiveOf(task[t].user)) <= MaxSessions

\* The key of a session lives for SESSION_TIMEOUT_MINUTES from the last use it
\* records, or longer: no use within that time finds it gone
\* (the expiration that storage.update resets).
KeyOutlivesUse ==
  \A s \in Sessions :
    store[s] # None => store[s].data.last + Timeout <= store[s].until

\* A CSRF token is issued only for a session that was stored
\* (create_session, refresh_csrf_token).
TokenHasSession == \A s \in Sessions : tokens[s] > 0 => store[s] # None

\* The passwords that are looked at for one name or from one address, since
\* its counter was last cleared, are at most LOGIN_MAX_ATTEMPTS, plus the
\* attempts that were under way when it was cleared and the ones that the
\* limiter failed to count (track_login_attempt).
GuessesAreBounded ==
  \A c \in Counters : guesses[c] <= LoginMax + Cardinality(Threads) + spent.faults

\* The requests about to write back a record they read as active.
Holders(s) ==
  {t \in Threads : Updating(t) /\ task[t].session = s /\ task[t].copy.active}

Ended(s) == Exists(s) /\ ~store[s].data.active

\* A session that was ended, by a logout, by its age or to make room, can only
\* be revived by a request that had read it before: no later request takes a
\* copy of it, and with none outstanding it stays ended
\* (the is_active test of validate_session).
OnlyOverlapRevives ==
  [][\A s \in Sessions : Ended(s) =>
       /\ Holders(s)' \subseteq Holders(s)
       /\ Holders(s) = {} => ~Active(s)']_vars

\* "Any existing session tokens will no longer be valid": a session that was
\* ended is not active again (the description of the logout route).
EndedStaysEnded == [][\A s \in Sessions : Ended(s) => ~Active(s)']_vars
====
