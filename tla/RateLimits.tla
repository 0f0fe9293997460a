---- MODULE RateLimits ----
(***************************************************************************)
(* The request limiter: check_rate_limit finds the limit of a client's     *)
(* tier for a path and counts the request in the window of that limit,     *)
(* while administrators change tiers and limits.  A count is one command   *)
(* on Redis; on memcached it is a read and a later write, and others come  *)
(* in between.                                                             *)
(***************************************************************************)
EXTENDS Integers, FiniteSets

CONSTANTS
  Clients,      \* users, and the hosts of anonymous requests
  Tiers, Names, \* of tiers by id; names of rows of rate_limits
  Paths,        \* of requests
  Keys, KeyOf,  \* sanitize_path: [Paths -> Keys], not one to one
  Limits,       \* what a row can say: records [limit, period]
  Default,      \* DEFAULT_RATE_LIMIT_LIMIT and _PERIOD, such a record
  FailOpen,     \* RATE_LIMITER_FAIL_OPEN
  Backends,     \* the choices of RATE_LIMITER_BACKEND
  None,
  Requests,     \* slots of requests in flight
  MaxClock, MaxRequests, MaxChanges, MaxFaults  \* bounds

ASSUME RateConstants ==
  /\ KeyOf \in [Paths -> Keys]
  /\ Limits \subseteq [limit : Nat \ {0}, period : Nat \ {0}]
  /\ Default \in [limit : Nat \ {0}, period : Nat \ {0}]
  /\ FailOpen \in BOOLEAN
  /\ Backends \subseteq {"redis", "memcached"} /\ Backends # {}
  /\ MaxClock \in Nat /\ MaxRequests \in Nat /\ MaxChanges \in Nat /\ MaxFaults \in Nat
ASSUME RateNone == None \notin Tiers \cup (Paths \cup Keys)

VARIABLES
  backend,   \* the backend that was registered as the default
  tiers,     \* ids of rows of tiers
  tierOf,    \* users.tier_id
  limits,    \* rows of rate_limits by their unique name
  clock,
  counters,  \* the keys ratelimit:{client}:{key}:{window}
  task,      \* the requests in flight, with their variables
  use,       \* history of each counter
  spent      \* requests, changes and faults so far

vars == <<backend, tiers, tierOf, limits, clock, counters, task, use, spent>>
adminVars == <<tiers, tierOf, limits>>

Rows == [tier : Tiers, path : Paths \cup Keys, limit : Nat \ {0}, period : Nat \ {0}]
Counters == Clients \X Keys \X (0 .. MaxClock)

Tasks ==
  [pc : {"idle", "tier", "by_key", "by_path", "count", "write"},
   client : Clients \cup {None}, path : Paths \cup {None}, tier : Tiers \cup {None},
   limit : Nat \ {0}, period : Nat \ {0},  \* that apply
   window : Nat,                           \* window_start
   read : Nat]                             \* memcached: current_count, incremented

NoTask == [pc |-> "idle", client |-> None, path |-> None, tier |-> None,
           limit |-> Default.limit, period |-> Default.period,
           window |-> 0, read |-> 0]

\* What happened to a counter: the requests that counted themselves in it,
\* those it admitted and refused, the bounds of the limits applied, the periods,
\* and whether two requests ever counted at once.
Uses == [attempts : Nat, admitted : Nat, refused : Nat, lowest : Nat,
         highest : Nat, periods : SUBSET Nat, overlapped : BOOLEAN]
NoUse == [attempts |-> 0, admitted |-> 0, refused |-> 0, lowest |-> 0,
          highest |-> 0, periods |-> {}, overlapped |-> FALSE]

TypeOK ==
  /\ backend \in Backends
  /\ tiers \subseteq Tiers
  /\ tierOf \in [Clients -> Tiers \cup {None}]
  /\ limits \in [Names -> Rows \cup {None}]
  /\ clock \in 0 .. MaxClock
  /\ counters \in [Counters -> [count : Nat, until : Nat]]
  /\ task \in [Requests -> Tasks]
  /\ use \in [Counters -> Uses]
  /\ spent \in [requests : Nat, changes : Nat, faults : Nat]

Absent == [count |-> 0, until |-> 0]

Init ==
  /\ backend \in Backends
  /\ tiers = Tiers
  /\ tierOf \in [Clients -> Tiers \cup {None}]
  /\ limits = [n \in Names |-> None]
  /\ clock = 0
  /\ counters = [n \in Counters |-> Absent]
  /\ task = [r \in Requests |-> NoTask]
  /\ use = [n \in Counters |-> NoUse]
  /\ spent = [requests |-> 0, changes |-> 0, faults |-> 0]

(***************************************************************************)
(* Finding the limit                                                       *)
(***************************************************************************)
\* The request comes with the row of its user, or with none.
Arrive(r, c, p) ==
  /\ task[r].pc = "idle" /\ spent.requests < MaxRequests
  /\ spent' = [spent EXCEPT !.requests = @ + 1]
  /\ task' = [task EXCEPT ![r] = [NoTask EXCEPT !.client = c, !.path = p,
                !.tier = tierOf[c], !.pc = IF tierOf[c] = None THEN "count" ELSE "tier"]]
  /\ UNCHANGED <<backend, adminVars, clock, counters, use>>

Goto(r, step) == task' = [task EXCEPT ![r].pc = step]

FindTier(r) ==
  /\ task[r].pc = "tier"
  /\ Goto(r, IF task[r].tier \in tiers THEN "by_key" ELSE "count")
  /\ UNCHANGED <<backend, adminVars, clock, counters, use, spent>>

Matching(t, p) ==
  {n \in Names : limits[n] # None /\ limits[n].tier = t /\ limits[n].path = p}

\* Nothing makes a tier and a path unique: get answers any row that matches.
Lookup(r, step, p, otherwise) ==
  /\ task[r].pc = step
  /\ LET found == Matching(task[r].tier, p)
     IN \/ found = {} /\ Goto(r, otherwise)
        \/ \E n \in found :
             task' = [task EXCEPT ![r].pc = "count", ![r].limit = limits[n].limit,
                                  ![r].period = limits[n].period]
  /\ UNCHANGED <<backend, adminVars, clock, counters, use, spent>>

FindByKey(r) == Lookup(r, "by_key", KeyOf[task[r].path], "by_path")
FindByPath(r) == Lookup(r, "by_path", task[r].path, "count")

(***************************************************************************)
(* Counting                                                                *)
(***************************************************************************)
WindowStart(t, period) == t - (t % period)
Counter(r, window) == <<task[r].client, KeyOf[task[r].path], window>>

\* Another request is between the read and the write of this counter.
Overtaking(r, n) ==
  \E q \in Requests \ {r} : task[q].pc = "write" /\ Counter(q, task[q].window) = n

Lower(u, limit) == IF u.attempts = 0 THEN limit ELSE IF limit < u.lowest THEN limit ELSE u.lowest
Higher(u, limit) == IF limit > u.highest THEN limit ELSE u.highest

\* The request has count as its number in the window.
\* MUTANTS of Counted: it is let through when it reaches, not exceeds, the
\* limit plus one; it is refused when it reaches the limit.
Judged(r, n, admitted) ==
  LET u == use[n] IN
  use' = [use EXCEPT ![n] =
    [attempts |-> u.attempts + 1,
     admitted |-> u.admitted + (IF admitted THEN 1 ELSE 0),
     refused |-> u.refused + (IF admitted THEN 0 ELSE 1),
     lowest |-> Lower(u, task[r].limit), highest |-> Higher(u, task[r].limit),
     periods |-> u.periods \cup {task[r].period},
     overlapped |-> u.overlapped \/ Overtaking(r, n)]]
CountedLate(r, n, count) == Judged(r, n, count <= task[r].limit + 1)
CountedEarly(r, n, count) == Judged(r, n, count < task[r].limit)
Counted(r, n, count) == Judged(r, n, count <= task[r].limit)

Stored(n, count, period) ==
  counters' = [counters EXCEPT ![n] = [count |-> count, until |-> clock + period]]

Finish(r) == task' = [task EXCEPT ![r] = NoTask]

\* get_backend: the default is what the start has registered.
CountsOn(b) == backend = b

\* Redis: INCR and EXPIRE in one transaction.
CountOnRedis(r) ==
  /\ task[r].pc = "count" /\ CountsOn("redis")
  /\ LET n == Counter(r, WindowStart(clock, task[r].period))
     IN /\ Stored(n, counters[n].count + 1, task[r].period)
        /\ Counted(r, n, counters[n].count + 1)
  /\ Finish(r)
  /\ UNCHANGED <<backend, adminVars, clock, spent>>

\* memcached: get, and the set that follows.
ReadCounter(r) ==
  /\ task[r].pc = "count" /\ CountsOn("memcached")
  /\ LET window == WindowStart(clock, task[r].period)
         n == Counter(r, window)
     IN /\ task' = [task EXCEPT ![r].pc = "write", ![r].window = window,
                                ![r].read = counters[n].count + 1]
        /\ use' = IF Overtaking(r, n) THEN [use EXCEPT ![n].overlapped = TRUE] ELSE use
  /\ UNCHANGED <<backend, adminVars, clock, counters, spent>>

WriteCounter(r) ==
  /\ task[r].pc = "write"
  /\ LET n == Counter(r, task[r].window)
     IN /\ Stored(n, task[r].read, task[r].period)
        /\ Counted(r, n, task[r].read)
  /\ Finish(r)
  /\ UNCHANGED <<backend, adminVars, clock, spent>>

\* fail_open: let through or refused with no count.
Unjudged(r, n) ==
  LET u == use[n] IN
  use' = [use EXCEPT ![n] =
    [attempts |-> u.attempts, admitted |-> u.admitted + (IF FailOpen THEN 1 ELSE 0),
     refused |-> u.refused, lowest |-> u.lowest, highest |-> u.highest,
     periods |-> u.periods \cup {task[r].period},
     overlapped |-> u.overlapped \/ Overtaking(r, n)]]

\* The backend raises, before or after the command took effect: the request is
\* let through or refused as the policy says, and is in no count of ours.
CountFails(r) ==
  /\ task[r].pc \in {"count", "write"} /\ spent.faults < MaxFaults
  /\ spent' = [spent EXCEPT !.faults = @ + 1]
  /\ LET n == Counter(r, IF task[r].pc = "count" THEN WindowStart(clock, task[r].period)
                         ELSE task[r].window)
     IN /\ \/ UNCHANGED counters
           \/ /\ task[r].pc = "count" /\ backend = "redis"
              /\ Stored(n, counters[n].count + 1, task[r].period)
           \/ task[r].pc = "write" /\ Stored(n, task[r].read, task[r].period)
        /\ Unjudged(r, n)
  /\ Finish(r)
  /\ UNCHANGED <<backend, adminVars, clock>>

(***************************************************************************)
(* Administration                                                          *)
(***************************************************************************)
Change ==
  /\ spent.changes < MaxChanges
  /\ spent' = [spent EXCEPT !.changes = @ + 1]
  /\ UNCHANGED <<backend, clock, counters, task, use>>

Row(t, p, l) == [tier |-> t, path |-> p, limit |-> l.limit, period |-> l.period]

\* create: of a tier that exists, under a name that is free.
CreateLimit(n, t, p, l) ==
  /\ Change
  /\ t \in tiers /\ limits[n] = None
  /\ limits' = [limits EXCEPT ![n] = Row(t, p, l)]
  /\ UNCHANGED <<tiers, tierOf>>

\* RateLimitService.update and delete: any column but the tier; a new name must
\* be free.
SetRow(n, m, row) ==
  /\ limits[n] # None /\ (m = n \/ limits[m] = None)
  /\ limits' = [[limits EXCEPT ![n] = None] EXCEPT ![m] = row]

DropRow(n) == limits[n] # None /\ limits' = [limits EXCEPT ![n] = None]

UpdateLimit(n, m, p, l) ==
  /\ Change
  /\ SetRow(n, m, Row(limits[n].tier, p, l))
  /\ UNCHANGED <<tiers, tierOf>>

DeleteLimit(n) ==
  /\ Change
  /\ DropRow(n)
  /\ UNCHANGED <<tiers, tierOf>>

\* UserService.update_tier: of a tier that exists.
SetTier(c, t) == t \in tiers /\ tierOf' = [tierOf EXCEPT ![c] = t]

AssignTier(c, t) ==
  /\ Change
  /\ SetTier(c, t)
  /\ UNCHANGED <<tiers, limits>>

\* permanent_delete: the foreign keys of users and of limits stand in its way.
DeleteTier(t) ==
  /\ Change
  /\ t \in tiers
  /\ \A c \in Clients : tierOf[c] # t
  /\ \A n \in Names : limits[n] # None => limits[n].tier # t
  /\ tiers' = tiers \ {t}
  /\ UNCHANGED <<tierOf, limits>>

\* A key expires as soon as its time is over.
TimePasses ==
  /\ clock < MaxClock
  /\ clock' = clock + 1
  /\ counters' = [n \in Counters |->
                    IF counters[n].until > clock + 1 THEN counters[n] ELSE Absent]
  /\ UNCHANGED <<backend, adminVars, task, use, spent>>

Next ==
  \/ \E r \in Requests :
       \/ \E c \in Clients, p \in Paths : Arrive(r, c, p)
       \/ FindTier(r) \/ FindByKey(r) \/ FindByPath(r)
       \/ CountOnRedis(r) \/ ReadCounter(r) \/ WriteCounter(r) \/ CountFails(r)
  \/ \E n \in Names :
       \/ \E t \in Tiers, p \in Paths \cup Keys, l \in Limits : CreateLimit(n, t, p, l)
       \/ \E m \in Names, p \in Paths \cup Keys, l \in Limits : UpdateLimit(n, m, p, l)
       \/ DeleteLimit(n)
  \/ \E c \in Clients, t \in Tiers : AssignTier(c, t)
  \/ \E t \in Tiers : DeleteTier(t)
  \/ TimePasses

Spec == Init /\ [][Next]_vars

(***************************************************************************)
(* Properties                                                              *)
(***************************************************************************)

\* A window admits no more requests of a client to a key than the highest limit
\* that was applied in it, and one for each failure of an open limiter.  It may
\* admit more in two cases only: requests counted at once on memcached, whose
\* increments get lost, and the period was changed while the window was open, which
\* gives the same key a shorter life (increment_and_check of both backends).
AdmittedWithinLimit ==
  \A n \in Counters :
    use[n].admitted > use[n].highest + spent.faults =>
      \/ backend = "memcached" /\ use[n].overlapped
      \/ Cardinality(use[n].periods) > 1

\* No request is refused early: all but the refused ones, and at least the lowest
\* limit that was applied, got through before, or failed after they were counted.
\* Lost increments never refuse anybody (the comparison of count and limit).
RefusedOnlyOverLimit ==
  \A n \in Counters :
    use[n].refused > 0 =>
      use[n].attempts - use[n].refused + spent.faults >= use[n].lowest
====
