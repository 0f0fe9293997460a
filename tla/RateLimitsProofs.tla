---- MODULE RateLimitsProofs ----
(***************************************************************************)
(* Proofs about RateLimits: the types; that no request is refused early;   *)
(* and that a window admits more than its limit only where increments were *)
(* lost or its period changed.  The argument of the last: a counter nobody *)
(* overtook in, with one period applied, lives as long as its window, so   *)
(* its count covers the requests it admitted while the window is open, and *)
(* so does the number a request has read and is about to write.            *)
(***************************************************************************)
EXTENDS RateLimits, FiniteSetTheorems, TLAPS

\* A request under way has a client and a path, and one that is to write a counter
\* read it on memcached in a window that had begun.
Ready ==
  \A r \in Requests :
    /\ task[r].pc # "idle" => task[r].client \in Clients /\ task[r].path \in Paths
    /\ task[r].pc = "write" => backend = "memcached" /\ task[r].window \in 0 .. clock

Typed == TypeOK /\ Ready

LEMMA WindowHolds ==
  ASSUME NEW t \in Nat, NEW p \in Nat \ {0}
  PROVE  /\ WindowStart(t, p) \in 0 .. t
         /\ t < WindowStart(t, p) + p
<1>1. t % p \in 0 .. p - 1
  OBVIOUS
<1>2. t % p <= t
  OBVIOUS
<1> QED BY <1>1, <1>2 DEF WindowStart

LEMMA CounterInRange ==
  ASSUME Typed, NEW r \in Requests, task[r].pc # "idle", NEW w \in 0 .. MaxClock
  PROVE  Counter(r, w) \in Counters /\ Counter(r, w)[3] = w
BY RateConstants DEF Typed, TypeOK, Ready, Counter, Counters

\* The window a request that is about to count falls in.
Now(r) == Counter(r, WindowStart(clock, task[r].period))

LEMMA NowInRange ==
  ASSUME Typed, NEW r \in Requests, task[r].pc # "idle"
  PROVE  /\ task[r].period \in Nat \ {0}
         /\ WindowStart(clock, task[r].period) \in 0 .. clock
         /\ WindowStart(clock, task[r].period) \in 0 .. MaxClock
         /\ clock < WindowStart(clock, task[r].period) + task[r].period
         /\ Now(r) \in Counters /\ Now(r)[3] = WindowStart(clock, task[r].period)
<1>1. task[r].period \in Nat \ {0} /\ clock \in Nat /\ clock <= MaxClock /\ MaxClock \in Nat
  BY RateConstants DEF Typed, TypeOK, Tasks
<1>2. WindowStart(clock, task[r].period) \in 0 .. clock
      /\ clock < WindowStart(clock, task[r].period) + task[r].period
  BY <1>1, WindowHolds
<1>3. WindowStart(clock, task[r].period) \in 0 .. MaxClock
  BY <1>1, <1>2
<1> QED BY <1>1, <1>2, <1>3, CounterInRange DEF Now

\* What Judged does to the history of a counter.
LEMMA JudgedFields ==
  ASSUME Typed, NEW r \in Requests, NEW n \in Counters, NEW admitted \in BOOLEAN,
         Judged(r, n, admitted)
  PROVE  /\ use' \in [Counters -> Uses]
         /\ \A m \in Counters \ {n} : use'[m] = use[m]
         /\ use'[n].attempts = use[n].attempts + 1
         /\ use'[n].periods = use[n].periods \cup {task[r].period}
         /\ use'[n].overlapped = (use[n].overlapped \/ Overtaking(r, n))
         /\ use'[n].admitted = use[n].admitted + (IF admitted THEN 1 ELSE 0)
         /\ use'[n].refused = use[n].refused + (IF admitted THEN 0 ELSE 1)
         /\ use'[n].lowest <= task[r].limit
         /\ use[n].attempts > 0 => use'[n].lowest <= use[n].lowest
         /\ use'[n].highest >= task[r].limit /\ use'[n].highest >= use[n].highest
<1> DEFINE u == use[n]
           low == Lower(u, task[r].limit)
           high == Higher(u, task[r].limit)
           adm == u.admitted + (IF admitted THEN 1 ELSE 0)
           ref == u.refused + (IF admitted THEN 0 ELSE 1)
           lap == u.overlapped \/ Overtaking(r, n)
           seen == u.periods \cup {task[r].period}
           new == [attempts |-> u.attempts + 1, admitted |-> adm, refused |-> ref,
                   lowest |-> low, highest |-> high, periods |-> seen, overlapped |-> lap]
<1>1. use \in [Counters -> Uses] /\ u \in Uses
      /\ task[r].limit \in Nat /\ task[r].period \in Nat
  BY DEF Typed, TypeOK, Tasks
<1>2. /\ low \in Nat /\ low <= task[r].limit
      /\ u.attempts > 0 => low <= u.lowest
      /\ high \in Nat /\ high >= task[r].limit /\ high >= u.highest
  BY <1>1 DEF Uses, Lower, Higher
<1>3. adm \in Nat /\ ref \in Nat
  BY <1>1 DEF Uses
<1>4. lap \in BOOLEAN
  BY <1>1 DEF Uses, Overtaking
<1>5. use' = [use EXCEPT ![n] = new]
  BY DEF Judged
<1>6. u.attempts + 1 \in Nat /\ seen \in SUBSET Nat
  BY <1>1 DEF Uses
<1> HIDE DEF low, high, adm, ref, lap, seen
<1>7. new \in Uses
  BY <1>2, <1>3, <1>4, <1>6 DEF Uses
<1>8. /\ use' \in [Counters -> Uses] /\ use'[n] = new
      /\ \A m \in Counters \ {n} : use'[m] = use[m]
  BY <1>1, <1>5, <1>7
<1>9. use'[n].overlapped = lap
  BY <1>8
<1>10. use'[n].overlapped = (use[n].overlapped \/ Overtaking(r, n))
  BY <1>9, Zenon DEF lap
<1> QED BY <1>2, <1>8, <1>10 DEF adm, ref, seen

LEMMA StoredFields ==
  ASSUME Typed, NEW n \in Counters, NEW count \in Nat, NEW period \in Nat,
         Stored(n, count, period)
  PROVE  /\ counters' \in [Counters -> [count : Nat, until : Nat]]
         /\ \A m \in Counters \ {n} : counters'[m] = counters[m]
         /\ counters'[n].count = count /\ counters'[n].until = clock + period
<1>1. clock \in Nat
  BY RateConstants DEF Typed, TypeOK
<1> QED BY <1>1 DEF Typed, TypeOK, Stored

\* The counter a request is about to change, from either step.
Place(r) ==
  Counter(r, IF task[r].pc = "count" THEN WindowStart(clock, task[r].period)
             ELSE task[r].window)

LEMMA PlaceInRange ==
  ASSUME Typed, NEW r \in Requests, task[r].pc \in {"count", "write"}
  PROVE  Place(r) \in Counters /\ Place(r)[3] \in 0 .. clock
<1>1. clock \in 0 .. MaxClock /\ MaxClock \in Nat
  BY RateConstants DEF Typed, TypeOK
<1>2. CASE task[r].pc = "count"
  BY <1>2, NowInRange DEF Now, Place
<1>3. CASE task[r].pc = "write"
  <2>1. task[r].window \in 0 .. clock
    BY <1>3 DEF Typed, Ready
  <2>2. task[r].window \in 0 .. MaxClock
    BY <1>1, <2>1
  <2> QED BY <1>3, <2>1, <2>2, CounterInRange DEF Place
<1> QED BY <1>2, <1>3

\* What a count that raised leaves in the history.
LEMMA UnjudgedFields ==
  ASSUME Typed, NEW r \in Requests, NEW n \in Counters, Unjudged(r, n)
  PROVE  /\ use' \in [Counters -> Uses]
         /\ \A m \in Counters \ {n} : use'[m] = use[m]
         /\ use'[n].attempts = use[n].attempts /\ use'[n].refused = use[n].refused
         /\ use'[n].lowest = use[n].lowest /\ use'[n].highest = use[n].highest
         /\ use'[n].periods = use[n].periods \cup {task[r].period}
         /\ use'[n].overlapped = (use[n].overlapped \/ Overtaking(r, n))
         /\ use'[n].admitted \in Nat
         /\ use[n].admitted <= use'[n].admitted /\ use'[n].admitted <= use[n].admitted + 1
<1> DEFINE u == use[n]
           adm == u.admitted + (IF FailOpen THEN 1 ELSE 0)
           lap == u.overlapped \/ Overtaking(r, n)
           seen == u.periods \cup {task[r].period}
           new == [attempts |-> u.attempts, admitted |-> adm, refused |-> u.refused,
                   lowest |-> u.lowest, highest |-> u.highest,
                   periods |-> seen, overlapped |-> lap]
<1>1. use \in [Counters -> Uses] /\ u \in Uses /\ task[r].period \in Nat
  BY DEF Typed, TypeOK, Tasks
<1>2. adm \in Nat /\ u.admitted <= adm /\ adm <= u.admitted + 1
  BY <1>1 DEF Uses
<1>3. lap \in BOOLEAN
  BY <1>1 DEF Uses, Overtaking
<1>4. seen \in SUBSET Nat
  BY <1>1 DEF Uses
<1>5. use' = [use EXCEPT ![n] = new]
  BY DEF Unjudged
<1> HIDE DEF adm, lap, seen
<1>6. new \in Uses
  BY <1>1, <1>2, <1>3, <1>4 DEF Uses
<1>7. /\ use' \in [Counters -> Uses] /\ use'[n] = new
      /\ \A m \in Counters \ {n} : use'[m] = use[m]
  BY <1>1, <1>5, <1>6
<1>8. use'[n].overlapped = lap
  BY <1>7
<1>9. use'[n].overlapped = (use[n].overlapped \/ Overtaking(r, n))
  BY <1>8, Zenon DEF lap
<1> QED BY <1>2, <1>7, <1>9 DEF seen

(***************************************************************************)
(* Types                                                                   *)
(***************************************************************************)
LEMMA InitIsTyped == Init => Typed
<1> SUFFICES ASSUME Init PROVE Typed
  OBVIOUS
<1>1. NoTask \in Tasks /\ NoTask.pc = "idle"
  BY RateConstants DEF NoTask, Tasks
<1>2. NoUse \in Uses /\ Absent \in [count : Nat, until : Nat]
  BY DEF NoUse, Uses, Absent
<1> HIDE DEF Tasks, NoTask, Uses, NoUse, Absent
<1>3. TypeOK
  BY <1>1, <1>2, RateConstants DEF Init, TypeOK
<1>4. Ready
  BY <1>1 DEF Init, Ready
<1> QED BY <1>3, <1>4 DEF Typed

\* One request gets new variables, and nothing the others rely on is taken back.
LEMMA TaskTyped ==
  ASSUME Typed, NEW r \in Requests, NEW new \in Tasks,
         task' = [task EXCEPT ![r] = new],
         new.pc # "idle" => new.client \in Clients /\ new.path \in Paths,
         new.pc = "write" => backend = "memcached" /\ new.window \in 0 .. clock,
         backend' = backend, clock' = clock
  PROVE  task' \in [Requests -> Tasks] /\ Ready'
<1>1. task \in [Requests -> Tasks]
  BY DEF Typed, TypeOK
<1>2. task' \in [Requests -> Tasks] /\ task'[r] = new
      /\ \A q \in Requests \ {r} : task'[q] = task[q]
  BY <1>1
<1> QED BY <1>2 DEF Typed, Ready

LEMMA FinishTyped ==
  ASSUME Typed, NEW r \in Requests, Finish(r), backend' = backend, clock' = clock
  PROVE  task' \in [Requests -> Tasks] /\ Ready' /\ task'[r].pc = "idle"
         /\ \A q \in Requests \ {r} : task'[q] = task[q]
<1>1. NoTask \in Tasks /\ NoTask.pc = "idle"
  BY RateConstants DEF NoTask, Tasks
<1>2. task \in [Requests -> Tasks]
  BY DEF Typed, TypeOK
<1> QED BY <1>1, <1>2, TaskTyped DEF Finish

LEMMA GotoTyped ==
  ASSUME Typed, NEW r \in Requests, task[r].pc # "idle",
         NEW step \in {"by_key", "by_path", "count"},
         Goto(r, step), backend' = backend, clock' = clock
  PROVE  task' \in [Requests -> Tasks] /\ Ready' /\ task'[r].pc # "write"
         /\ \A q \in Requests \ {r} : task'[q] = task[q]
<1> DEFINE new == [task[r] EXCEPT !.pc = step]
<1>1. task \in [Requests -> Tasks] /\ task[r] \in Tasks
  BY DEF Typed, TypeOK
<1>2. new \in Tasks /\ new.pc = step /\ new.client = task[r].client /\ new.path = task[r].path
  BY <1>1 DEF Tasks
<1>3. task' = [task EXCEPT ![r] = new]
  BY DEF Goto
<1> HIDE DEF new
<1>4. task[r].client \in Clients /\ task[r].path \in Paths
  BY DEF Typed, Ready
<1> QED BY <1>1, <1>2, <1>3, <1>4, TaskTyped

LEMMA ArriveTyped ==
  ASSUME Typed, NEW r \in Requests, NEW c \in Clients, NEW p \in Paths, Arrive(r, c, p)
  PROVE  Typed' /\ task'[r].pc # "write" /\ \A q \in Requests \ {r} : task'[q] = task[q]
<1> DEFINE step == IF tierOf[c] = None THEN "count" ELSE "tier"
           new == [NoTask EXCEPT !.client = c, !.path = p, !.tier = tierOf[c], !.pc = step]
<1>1. task' = [task EXCEPT ![r] = new] /\ task \in [Requests -> Tasks]
  BY DEF Arrive, Typed, TypeOK
<1>2. tierOf[c] \in Tiers \cup {None} /\ step \in {"count", "tier"}
  BY DEF Typed, TypeOK
<1> HIDE DEF step
<1>3. new \in Tasks /\ new.pc = step /\ new.client = c /\ new.path = p
  BY <1>2, RateConstants DEF NoTask, Tasks
<1> HIDE DEF new
<1>4. task' \in [Requests -> Tasks] /\ Ready'
  BY <1>1, <1>2, <1>3, TaskTyped DEF Arrive
<1>5. spent' \in [requests : Nat, changes : Nat, faults : Nat]
  BY DEF Arrive, Typed, TypeOK
<1>6. TypeOK'
  BY <1>4, <1>5 DEF Arrive, adminVars, Typed, TypeOK
<1> QED BY <1>1, <1>2, <1>3, <1>4, <1>6 DEF Typed

LEMMA FindTyped ==
  ASSUME Typed, NEW r \in Requests, FindTier(r) \/ FindByKey(r) \/ FindByPath(r)
  PROVE  Typed' /\ task'[r].pc # "write" /\ \A q \in Requests \ {r} : task'[q] = task[q]
<1>1. /\ task[r].pc # "idle"
      /\ UNCHANGED <<backend, tiers, tierOf, limits, clock, counters, use, spent>>
  BY DEF FindTier, FindByKey, FindByPath, Lookup, adminVars
<1>2. SUFFICES /\ task' \in [Requests -> Tasks] /\ Ready' /\ task'[r].pc # "write"
               /\ \A q \in Requests \ {r} : task'[q] = task[q]
  BY <1>1 DEF Typed, TypeOK
<1>3. CASE \E step \in {"by_key", "by_path", "count"} : Goto(r, step)
  BY <1>1, <1>3, GotoTyped
<1>4. CASE \E n \in Names : /\ limits[n] # None
                            /\ task' = [task EXCEPT ![r].pc = "count", ![r].limit = limits[n].limit,
                                                    ![r].period = limits[n].period]
  <2>1. PICK n \in Names :
          /\ limits[n] # None
          /\ task' = [task EXCEPT ![r].pc = "count", ![r].limit = limits[n].limit,
                                  ![r].period = limits[n].period]
    BY <1>4
  <2>2. limits[n].limit \in Nat \ {0} /\ limits[n].period \in Nat \ {0}
    BY <2>1 DEF Typed, TypeOK, Rows
  <2>3. task \in [Requests -> Tasks] /\ task[r] \in Tasks
    BY DEF Typed, TypeOK
  <2> DEFINE new == [task[r] EXCEPT !.pc = "count", !.limit = limits[n].limit,
                                    !.period = limits[n].period]
  <2>4. task' = [task EXCEPT ![r] = new]
    BY <2>1, <2>3
  <2>5. new \in Tasks /\ new.pc = "count"
        /\ new.client = task[r].client /\ new.path = task[r].path
    BY <2>2, <2>3 DEF Tasks
  <2> HIDE DEF new
  <2>6. task[r].client \in Clients /\ task[r].path \in Paths
    BY <1>1 DEF Typed, Ready
  <2> QED BY <1>1, <2>3, <2>4, <2>5, <2>6, TaskTyped
<1>5. CASE FindTier(r)
  <2>1. \E step \in {"by_key", "count"} : Goto(r, step)
    BY <1>5 DEF FindTier
  <2> QED BY <1>3, <2>1
<1>6. ASSUME NEW step \in {"by_key", "by_path"}, NEW p, NEW otherwise \in {"by_path", "count"},
             Lookup(r, step, p, otherwise)
      PROVE  \/ \E other \in {"by_key", "by_path", "count"} : Goto(r, other)
             \/ \E n \in Names :
                  /\ limits[n] # None
                  /\ task' = [task EXCEPT ![r].pc = "count", ![r].limit = limits[n].limit,
                                          ![r].period = limits[n].period]
  BY <1>6 DEF Lookup, Matching
<1> QED BY <1>3, <1>4, <1>5, <1>6 DEF FindByKey, FindByPath

LEMMA FaultTyped ==
  ASSUME Typed, spent' = [spent EXCEPT !.faults = @ + 1]
  PROVE  spent' \in [requests : Nat, changes : Nat, faults : Nat]
         /\ spent'.faults = spent.faults + 1
BY DEF Typed, TypeOK

\* The three steps that judge or store, in the form the invariants use them.
LEMMA RedisStep ==
  ASSUME Typed, NEW r \in Requests, CountOnRedis(r)
  PROVE  /\ Typed'
         /\ task[r].pc = "count" /\ backend = "redis" /\ task'[r].pc = "idle"
         /\ \A q \in Requests \ {r} : task'[q] = task[q]
         /\ Stored(Place(r), counters[Place(r)].count + 1, task[r].period)
         /\ Judged(r, Place(r), counters[Place(r)].count + 1 <= task[r].limit)
         /\ UNCHANGED <<backend, clock, spent>>
<1>1. /\ task[r].pc = "count" /\ backend = "redis"
      /\ Stored(Place(r), counters[Place(r)].count + 1, task[r].period)
      /\ Judged(r, Place(r), counters[Place(r)].count + 1 <= task[r].limit)
      /\ Finish(r) /\ UNCHANGED <<backend, tiers, tierOf, limits, clock, spent>>
  BY DEF CountOnRedis, CountsOn, Counted, Place, adminVars
<1>2. Place(r) \in Counters
  BY <1>1, PlaceInRange
<1>3. counters[Place(r)].count \in Nat /\ task[r].period \in Nat
  BY <1>2 DEF Typed, TypeOK, Tasks
<1>4. counters' \in [Counters -> [count : Nat, until : Nat]]
  BY <1>1, <1>2, <1>3, StoredFields
<1>5. use' \in [Counters -> Uses]
  <2> DEFINE ok == counters[Place(r)].count + 1 <= task[r].limit
  <2>1. ok \in BOOLEAN
    OBVIOUS
  <2> HIDE DEF ok
  <2>2. Judged(r, Place(r), ok)
    BY <1>1 DEF ok
  <2> QED BY <1>2, <2>1, <2>2, JudgedFields
<1>6. /\ task' \in [Requests -> Tasks] /\ Ready' /\ task'[r].pc = "idle"
      /\ \A q \in Requests \ {r} : task'[q] = task[q]
  BY <1>1, FinishTyped
<1>7. TypeOK'
  BY <1>1, <1>4, <1>5, <1>6 DEF Typed, TypeOK
<1> QED BY <1>1, <1>6, <1>7 DEF Typed

LEMMA WriteStep ==
  ASSUME Typed, NEW r \in Requests, WriteCounter(r)
  PROVE  /\ Typed'
         /\ task[r].pc = "write" /\ backend = "memcached" /\ task'[r].pc = "idle"
         /\ \A q \in Requests \ {r} : task'[q] = task[q]
         /\ Stored(Place(r), task[r].read, task[r].period)
         /\ Judged(r, Place(r), task[r].read <= task[r].limit)
         /\ UNCHANGED <<backend, clock, spent>>
<1>1. /\ task[r].pc = "write"
      /\ Stored(Place(r), task[r].read, task[r].period)
      /\ Judged(r, Place(r), task[r].read <= task[r].limit)
      /\ Finish(r) /\ UNCHANGED <<backend, tiers, tierOf, limits, clock, spent>>
  BY DEF WriteCounter, Counted, Place, adminVars
<1>2. Place(r) \in Counters
  BY <1>1, PlaceInRange
<1>3. task[r].read \in Nat /\ task[r].period \in Nat
  BY DEF Typed, TypeOK, Tasks
<1>4. counters' \in [Counters -> [count : Nat, until : Nat]]
  BY <1>1, <1>2, <1>3, StoredFields
<1>5. use' \in [Counters -> Uses]
  <2> DEFINE ok == task[r].read <= task[r].limit
  <2>1. ok \in BOOLEAN
    OBVIOUS
  <2> HIDE DEF ok
  <2>2. Judged(r, Place(r), ok)
    BY <1>1 DEF ok
  <2> QED BY <1>2, <2>1, <2>2, JudgedFields
<1>6. /\ task' \in [Requests -> Tasks] /\ Ready' /\ task'[r].pc = "idle"
      /\ \A q \in Requests \ {r} : task'[q] = task[q]
  BY <1>1, FinishTyped
<1>7. TypeOK'
  BY <1>1, <1>4, <1>5, <1>6 DEF Typed, TypeOK
<1>8. backend = "memcached"
  BY <1>1 DEF Typed, Ready
<1> QED BY <1>1, <1>6, <1>7, <1>8 DEF Typed

LEMMA ReadStep ==
  ASSUME Typed, NEW r \in Requests, ReadCounter(r)
  PROVE  /\ Typed'
         /\ task[r].pc = "count" /\ backend = "memcached" /\ task'[r].pc = "write"
         /\ task'[r].read = counters[Place(r)].count + 1
         /\ task'[r].period = task[r].period
         /\ task'[r].client = task[r].client /\ task'[r].path = task[r].path
         /\ task'[r].window = WindowStart(clock, task[r].period)
         /\ \A q \in Requests \ {r} : task'[q] = task[q]
         /\ \A n \in Counters :
              /\ use'[n].attempts = use[n].attempts /\ use'[n].admitted = use[n].admitted
              /\ use'[n].refused = use[n].refused /\ use'[n].lowest = use[n].lowest
              /\ use'[n].highest = use[n].highest /\ use'[n].periods = use[n].periods
              /\ use[n].overlapped => use'[n].overlapped
              /\ n = Place(r) /\ Overtaking(r, n) => use'[n].overlapped
         /\ UNCHANGED <<backend, clock, counters, spent>>
<1>1. /\ task[r].pc = "count" /\ backend = "memcached"
      /\ Place(r) = Counter(r, WindowStart(clock, task[r].period))
      /\ UNCHANGED <<backend, tiers, tierOf, limits, clock, counters, spent>>
  BY DEF ReadCounter, CountsOn, Place, adminVars
<1>2. PICK n \in Counters, window \in 0 .. clock :
        n = Place(r) /\ window = WindowStart(clock, task[r].period)
  BY <1>1, PlaceInRange, NowInRange
<1>3. /\ task' = [task EXCEPT ![r].pc = "write", ![r].window = window,
                              ![r].read = counters[n].count + 1]
      /\ use' = IF Overtaking(r, n) THEN [use EXCEPT ![n].overlapped = TRUE] ELSE use
  BY <1>1, <1>2 DEF ReadCounter
<1>4. /\ task \in [Requests -> Tasks] /\ task[r] \in Tasks
      /\ use \in [Counters -> Uses] /\ counters[n].count + 1 \in Nat
      /\ window \in Nat
  BY RateConstants DEF Typed, TypeOK
<1>5. PICK k \in Nat : k = counters[n].count + 1
  BY <1>4
<1>6. PICK new \in Tasks :
        /\ task' = [task EXCEPT ![r] = new]
        /\ new.pc = "write" /\ new.window = window /\ new.read = k
        /\ new.period = task[r].period
        /\ new.client = task[r].client /\ new.path = task[r].path
  <2>1. task' = [task EXCEPT ![r] = [task[r] EXCEPT !.pc = "write", !.window = window,
                                                   !.read = k]]
    BY <1>3, <1>4, <1>5
  <2>2. [task[r] EXCEPT !.pc = "write", !.window = window, !.read = k] \in Tasks
    BY <1>4 DEF Tasks
  <2> QED BY <1>4, <2>1, <2>2 DEF Tasks
<1>7. task[r].client \in Clients /\ task[r].path \in Paths
  BY <1>1 DEF Typed, Ready
<1>8. task' \in [Requests -> Tasks] /\ Ready'
  BY <1>1, <1>6, <1>7, TaskTyped
<1>9. /\ \A q \in Requests \ {r} : task'[q] = task[q]
      /\ task'[r].pc = "write" /\ task'[r].read = counters[n].count + 1
      /\ task'[r].period = task[r].period
      /\ task'[r].client = task[r].client /\ task'[r].path = task[r].path
      /\ task'[r].window = window
  BY <1>4, <1>5, <1>6
<1>11. /\ use' \in [Counters -> Uses]
       /\ \A m \in Counters :
            /\ use'[m].attempts = use[m].attempts /\ use'[m].admitted = use[m].admitted
            /\ use'[m].refused = use[m].refused /\ use'[m].lowest = use[m].lowest
            /\ use'[m].highest = use[m].highest /\ use'[m].periods = use[m].periods
            /\ use[m].overlapped => use'[m].overlapped
       /\ Overtaking(r, n) => use'[n].overlapped
  <2>1. CASE Overtaking(r, n)
    <3>1. use' = [use EXCEPT ![n].overlapped = TRUE]
      BY <1>3, <2>1
    <3> QED BY <1>4, <3>1 DEF Uses
  <2>2. CASE ~Overtaking(r, n)
    BY <1>3, <1>4, <2>2
  <2> QED BY <2>1, <2>2
<1>12. Typed'
  BY <1>1, <1>8, <1>11 DEF Typed, TypeOK
<1>13. /\ task'[r].read = counters[Place(r)].count + 1
       /\ task'[r].window = WindowStart(clock, task[r].period)
  BY <1>2, <1>9
<1>14. ASSUME NEW m \in Counters
       PROVE  /\ use'[m].attempts = use[m].attempts /\ use'[m].admitted = use[m].admitted
              /\ use'[m].refused = use[m].refused /\ use'[m].lowest = use[m].lowest
              /\ use'[m].highest = use[m].highest /\ use'[m].periods = use[m].periods
              /\ use[m].overlapped => use'[m].overlapped
              /\ m = Place(r) /\ Overtaking(r, m) => use'[m].overlapped
  <2>1. m = Place(r) => m = n
    BY <1>2
  <2>2. m = n /\ Overtaking(r, m) => Overtaking(r, n)
    BY DEF Overtaking
  <2> HIDE DEF Overtaking
  <2> QED BY <1>11, <2>1, <2>2
<1>15. \A m \in Counters :
         /\ use'[m].attempts = use[m].attempts /\ use'[m].admitted = use[m].admitted
         /\ use'[m].refused = use[m].refused /\ use'[m].lowest = use[m].lowest
         /\ use'[m].highest = use[m].highest /\ use'[m].periods = use[m].periods
         /\ use[m].overlapped => use'[m].overlapped
         /\ m = Place(r) /\ Overtaking(r, m) => use'[m].overlapped
  BY <1>14
<1>16. /\ task[r].pc = "count" /\ backend = "memcached"
       /\ UNCHANGED <<backend, clock, counters, spent>>
  BY <1>1
<1>17. /\ task'[r].pc = "write" /\ task'[r].period = task[r].period
       /\ task'[r].client = task[r].client /\ task'[r].path = task[r].path
       /\ \A q \in Requests \ {r} : task'[q] = task[q]
  BY <1>9
<1> QED BY <1>12, <1>13, <1>15, <1>16, <1>17

LEMMA FailStep ==
  ASSUME Typed, NEW r \in Requests, CountFails(r)
  PROVE  /\ Typed'
         /\ task[r].pc \in {"count", "write"} /\ task'[r].pc = "idle"
         /\ \A q \in Requests \ {r} : task'[q] = task[q]
         /\ \/ UNCHANGED counters
            \/ /\ task[r].pc = "count" /\ backend = "redis"
               /\ Stored(Place(r), counters[Place(r)].count + 1, task[r].period)
            \/ task[r].pc = "write" /\ Stored(Place(r), task[r].read, task[r].period)
         /\ Unjudged(r, Place(r))
         /\ spent'.faults = spent.faults + 1
         /\ UNCHANGED <<backend, clock>>
<1>1. /\ task[r].pc \in {"count", "write"}
      /\ spent' = [spent EXCEPT !.faults = @ + 1]
      /\ \/ UNCHANGED counters
         \/ /\ task[r].pc = "count" /\ backend = "redis"
            /\ Stored(Place(r), counters[Place(r)].count + 1, task[r].period)
         \/ task[r].pc = "write" /\ Stored(Place(r), task[r].read, task[r].period)
      /\ Unjudged(r, Place(r))
      /\ Finish(r) /\ UNCHANGED <<backend, tiers, tierOf, limits, clock>>
  BY DEF CountFails, Place, adminVars
<1>2. Place(r) \in Counters
  BY <1>1, PlaceInRange
<1>3. task[r].read \in Nat /\ task[r].period \in Nat /\ counters[Place(r)].count \in Nat
  BY <1>2 DEF Typed, TypeOK, Tasks
<1>4. counters' \in [Counters -> [count : Nat, until : Nat]]
  <2>1. CASE UNCHANGED counters
    BY <2>1 DEF Typed, TypeOK
  <2>2. ASSUME NEW count \in Nat, Stored(Place(r), count, task[r].period)
        PROVE  counters' \in [Counters -> [count : Nat, until : Nat]]
    BY <1>2, <1>3, <2>2, StoredFields
  <2>3. counters[Place(r)].count + 1 \in Nat
    BY <1>3
  <2> QED BY <1>1, <1>3, <2>1, <2>2, <2>3
<1>5. use' \in [Counters -> Uses]
  BY <1>1, <1>2, UnjudgedFields
<1>6. /\ task' \in [Requests -> Tasks] /\ Ready' /\ task'[r].pc = "idle"
      /\ \A q \in Requests \ {r} : task'[q] = task[q]
  BY <1>1, FinishTyped
<1>7. spent' \in [requests : Nat, changes : Nat, faults : Nat]
      /\ spent'.faults = spent.faults + 1
  BY <1>1, FaultTyped
<1>8. TypeOK'
  BY <1>1, <1>4, <1>5, <1>6, <1>7 DEF Typed, TypeOK
<1> QED BY <1>1, <1>6, <1>7, <1>8 DEF Typed

\* What an administrator does changes none of what the requests count.
Administration ==
  \/ \E n \in Names :
       \/ \E t \in Tiers, p \in Paths \cup Keys, l \in Limits : CreateLimit(n, t, p, l)
       \/ \E m \in Names, p \in Paths \cup Keys, l \in Limits : UpdateLimit(n, m, p, l)
       \/ DeleteLimit(n)
  \/ \E c \in Clients, t \in Tiers : AssignTier(c, t)
  \/ \E t \in Tiers : DeleteTier(t)

LEMMA RowTyped ==
  ASSUME NEW t \in Tiers, NEW p \in Paths \cup Keys, NEW l \in Limits
  PROVE  Row(t, p, l) \in Rows
BY RateConstants DEF Row, Rows

LEMMA AdministrationStep ==
  ASSUME Typed, Administration
  PROVE  Typed' /\ UNCHANGED <<backend, clock, counters, task, use>> /\ spent'.faults = spent.faults
<1>1. Change
  BY DEF Administration, CreateLimit, UpdateLimit, DeleteLimit, AssignTier, DeleteTier
<1>2. /\ UNCHANGED <<backend, clock, counters, task, use>>
      /\ spent' \in [requests : Nat, changes : Nat, faults : Nat]
      /\ spent'.faults = spent.faults
  BY <1>1 DEF Change, Typed, TypeOK
<1> DEFINE Tables == /\ tiers \subseteq Tiers
                     /\ tierOf \in [Clients -> Tiers \cup {None}]
                     /\ limits \in [Names -> Rows \cup {None}]
<1>3. Tables
  BY DEF Typed, TypeOK
<1>4. ASSUME NEW n \in Names, NEW t \in Tiers, NEW p \in Paths \cup Keys, NEW l \in Limits,
             CreateLimit(n, t, p, l)
      PROVE  Tables'
  BY <1>3, <1>4, RowTyped DEF CreateLimit
<1>5. ASSUME NEW n \in Names, NEW m \in Names, NEW p \in Paths \cup Keys, NEW l \in Limits,
             UpdateLimit(n, m, p, l)
      PROVE  Tables'
  <2> DEFINE row == Row(limits[n].tier, p, l)
  <2>1. limits[n] # None /\ limits' = [[limits EXCEPT ![n] = None] EXCEPT ![m] = row]
        /\ UNCHANGED <<tiers, tierOf>>
    BY <1>5 DEF UpdateLimit, SetRow
  <2>2. limits[n].tier \in Tiers
    BY <1>3, <2>1 DEF Rows
  <2>3. row \in Rows
    BY <2>2, RowTyped
  <2> HIDE DEF row
  <2> QED BY <1>3, <2>1, <2>3
<1>6. ASSUME NEW n \in Names, DeleteLimit(n)
      PROVE  Tables'
  BY <1>3, <1>6 DEF DeleteLimit, DropRow
<1>7. ASSUME NEW c \in Clients, NEW t \in Tiers, AssignTier(c, t)
      PROVE  Tables'
  BY <1>3, <1>7 DEF AssignTier, SetTier
<1>8. ASSUME NEW t \in Tiers, DeleteTier(t)
      PROVE  Tables'
  BY <1>3, <1>8 DEF DeleteTier
<1>9. Tables'
  BY <1>4, <1>5, <1>6, <1>7, <1>8 DEF Administration
<1> QED BY <1>2, <1>9 DEF Typed, TypeOK, Ready

LEMMA TimeStep ==
  ASSUME Typed, TimePasses
  PROVE  /\ Typed'
         /\ clock' = clock + 1
         /\ \A n \in Counters :
              counters'[n] = IF counters[n].until > clock + 1 THEN counters[n] ELSE Absent
         /\ UNCHANGED <<backend, task, use, spent>>
<1>1. /\ clock < MaxClock /\ clock' = clock + 1
      /\ counters' = [n \in Counters |->
                        IF counters[n].until > clock + 1 THEN counters[n] ELSE Absent]
      /\ UNCHANGED <<backend, tiers, tierOf, limits, task, use, spent>>
  BY DEF TimePasses, adminVars
<1>2. clock \in Nat /\ clock' \in 0 .. MaxClock
  BY <1>1, RateConstants DEF Typed, TypeOK
<1>3. counters' \in [Counters -> [count : Nat, until : Nat]]
  <2>1. Absent \in [count : Nat, until : Nat]
    BY DEF Absent
  <2> HIDE DEF Absent
  <2> QED BY <1>1, <2>1 DEF Typed, TypeOK
<1>4. Ready'
  BY <1>1, <1>2 DEF Typed, Ready
<1>5. TypeOK'
  BY <1>1, <1>2, <1>3 DEF Typed, TypeOK
<1> QED BY <1>1, <1>4, <1>5 DEF Typed
\* Every step is one of these.
LEMMA StepIsTyped == Typed /\ [Next]_vars => Typed'
<1> SUFFICES ASSUME Typed, [Next]_vars PROVE Typed'
  OBVIOUS
<1>1. ASSUME NEW r \in Requests, NEW c \in Clients, NEW p \in Paths, Arrive(r, c, p)
      PROVE  Typed'
  BY <1>1, ArriveTyped
<1>2. ASSUME NEW r \in Requests, FindTier(r) \/ FindByKey(r) \/ FindByPath(r)
      PROVE  Typed'
  BY <1>2, FindTyped
<1>3. ASSUME NEW r \in Requests,
             CountOnRedis(r) \/ ReadCounter(r) \/ WriteCounter(r) \/ CountFails(r)
      PROVE  Typed'
  BY <1>3, RedisStep, ReadStep, WriteStep, FailStep
<1>4. ASSUME Administration PROVE Typed'
  BY <1>4, AdministrationStep
<1>5. ASSUME TimePasses PROVE Typed'
  BY <1>5, TimeStep
<1>6. CASE UNCHANGED vars
  BY <1>6 DEF vars, Typed, TypeOK, Ready
<1> QED BY <1>1, <1>2, <1>3, <1>4, <1>5, <1>6 DEF Next, Administration

LEMMA AlwaysTyped == Spec => []Typed
<1>1. Init => Typed
  BY InitIsTyped
<1>2. Typed /\ [Next]_vars => Typed'
  BY StepIsTyped
<1> QED BY <1>1, <1>2, PTL DEF Spec

\* Every variable keeps its type, and no counter, window or number of a request
\* leaves its range, for every table of limits and any number of requests.
THEOREM LimitsAreTyped == Spec => []TypeOK
<1>1. Typed => TypeOK
  BY DEF Typed
<1> QED BY <1>1, AlwaysTyped, PTL

(***************************************************************************)
(* The steps as the invariants see them                                    *)
(***************************************************************************)
\* A request goes to its counter, or a table changes: no counter does.
Quiet ==
  /\ UNCHANGED <<backend, clock, counters, use>> /\ spent'.faults = spent.faults
  /\ \A r \in Requests : task'[r].pc = "write" => task'[r] = task[r]

\* The request r is judged by the number k, which is stored.
Counts(r, k) ==
  /\ task[r].pc \in {"count", "write"} /\ task'[r].pc = "idle"
  /\ \/ task[r].pc = "count" /\ backend = "redis" /\ k = counters[Place(r)].count + 1
     \/ task[r].pc = "write" /\ backend = "memcached" /\ k = task[r].read
  /\ \A q \in Requests \ {r} : task'[q] = task[q]
  /\ Stored(Place(r), k, task[r].period)
  /\ Judged(r, Place(r), k <= task[r].limit)
  /\ UNCHANGED <<backend, clock, spent>>

LEMMA Steps ==
  ASSUME Typed, [Next]_vars
  PROVE  \/ Quiet
         \/ \E r \in Requests, k \in Nat : Counts(r, k)
         \/ \E r \in Requests : ReadCounter(r)
         \/ \E r \in Requests : CountFails(r)
         \/ TimePasses
<1>1. ASSUME NEW r \in Requests, NEW c \in Clients, NEW p \in Paths, Arrive(r, c, p)
      PROVE  Quiet
  <2>1. UNCHANGED <<backend, clock, counters, use>> /\ spent'.faults = spent.faults
    BY <1>1 DEF Arrive, Typed, TypeOK
  <2> QED BY <1>1, <2>1, ArriveTyped DEF Quiet
<1>2. ASSUME NEW r \in Requests, FindTier(r) \/ FindByKey(r) \/ FindByPath(r)
      PROVE  Quiet
  <2>1. UNCHANGED <<backend, clock, counters, use>> /\ spent'.faults = spent.faults
    BY <1>2 DEF FindTier, FindByKey, FindByPath, Lookup
  <2> QED BY <1>2, <2>1, FindTyped DEF Quiet
<1>3. ASSUME NEW r \in Requests, CountOnRedis(r)
      PROVE  \E k \in Nat : Counts(r, k)
  <2>1. task[r].pc = "count" /\ Place(r) \in Counters
    BY <1>3, RedisStep, PlaceInRange
  <2>2. counters[Place(r)].count + 1 \in Nat
    BY <2>1 DEF Typed, TypeOK
  <2>3. Counts(r, counters[Place(r)].count + 1)
    BY <1>3, RedisStep DEF Counts
  <2> QED BY <2>2, <2>3
<1>4. ASSUME NEW r \in Requests, WriteCounter(r)
      PROVE  \E k \in Nat : Counts(r, k)
  <2>1. task[r].read \in Nat
    BY DEF Typed, TypeOK, Tasks
  <2>2. Counts(r, task[r].read)
    BY <1>4, WriteStep DEF Counts
  <2> QED BY <2>1, <2>2
<1>5. ASSUME Administration \/ UNCHANGED vars PROVE Quiet
  BY <1>5, AdministrationStep DEF vars, Quiet
<1> QED BY <1>1, <1>2, <1>3, <1>4, <1>5 DEF Next, Administration

\* A request that is to write goes on where it was.
LEMMA PendingStays ==
  ASSUME NEW q \in Requests, task'[q] = task[q]
  PROVE  Counter(q, task[q].window)' = Counter(q, task[q].window)
BY DEF Counter

(***************************************************************************)
(* Refusals                                                                *)
(***************************************************************************)
\* Every number a counter or a pending write holds stands for a request that
\* counted itself before, or for one that failed.
Backed ==
  /\ \A n \in Counters :
       /\ counters[n].count <= use[n].attempts + spent.faults
       /\ use[n].refused <= use[n].attempts
       /\ use[n].refused > 0 =>
            use[n].attempts - use[n].refused + spent.faults >= use[n].lowest
  /\ \A r \in Requests : task[r].pc = "write" =>
       \A n \in Counters : n = Counter(r, task[r].window) =>
         task[r].read <= use[n].attempts + spent.faults + 1

\* The numbers the invariants compare are natural.
LEMMA Numbers ==
  ASSUME Typed, NEW n \in Counters
  PROVE  /\ use[n].attempts \in Nat /\ use[n].refused \in Nat /\ use[n].admitted \in Nat
         /\ use[n].lowest \in Nat /\ use[n].highest \in Nat /\ spent.faults \in Nat
         /\ counters[n].count \in Nat /\ counters[n].until \in Nat
         /\ use[n].periods \in SUBSET Nat /\ n[3] \in Nat /\ clock \in Nat
BY RateConstants DEF Typed, TypeOK, Uses, Counters

LEMMA NextNumbers ==
  ASSUME Typed', NEW n \in Counters
  PROVE  /\ use'[n].attempts \in Nat /\ use'[n].refused \in Nat /\ use'[n].admitted \in Nat
         /\ use'[n].lowest \in Nat /\ use'[n].highest \in Nat /\ spent'.faults \in Nat
         /\ counters'[n].count \in Nat
BY DEF Typed, TypeOK, Uses

\* The number a request is judged by is at most one more than is backed.
LEMMA CountIsBacked ==
  ASSUME Typed, Backed, NEW r \in Requests, NEW k \in Nat, Counts(r, k)
  PROVE  /\ Place(r) \in Counters
         /\ k <= use[Place(r)].attempts + spent.faults + 1
<1>1. Place(r) \in Counters
  BY PlaceInRange DEF Counts
<1>2. CASE task[r].pc = "count"
  BY <1>1, <1>2, Numbers DEF Counts, Backed
<1>3. CASE task[r].pc = "write"
  BY <1>1, <1>3 DEF Counts, Backed, Place
<1> QED BY <1>1, <1>2, <1>3 DEF Counts

LEMMA BackedAfterCount ==
  ASSUME Typed, Typed', Backed, NEW r \in Requests, NEW k \in Nat, Counts(r, k)
  PROVE  Backed'
<1> DEFINE n == Place(r)
           ok == k <= task[r].limit
<1>1. n \in Counters /\ k <= use[n].attempts + spent.faults + 1
  BY CountIsBacked
<1>2. task[r].limit \in Nat /\ task[r].period \in Nat /\ ok \in BOOLEAN
  BY DEF Typed, TypeOK, Tasks
<1>3. /\ counters'[n].count = k
      /\ \A m \in Counters \ {n} : counters'[m] = counters[m]
  BY <1>1, <1>2, StoredFields DEF Counts
<1> HIDE DEF n
<1>4. /\ \A m \in Counters \ {n} : use'[m] = use[m]
      /\ use'[n].attempts = use[n].attempts + 1
      /\ use'[n].refused = use[n].refused + (IF ok THEN 0 ELSE 1)
      /\ use'[n].lowest <= task[r].limit
      /\ use[n].attempts > 0 => use'[n].lowest <= use[n].lowest
  <2>1. Judged(r, n, ok)
    BY DEF Counts, n
  <2> HIDE DEF ok
  <2> QED BY <1>1, <1>2, <2>1, JudgedFields
<1>5. ASSUME NEW m \in Counters
      PROVE  /\ counters'[m].count <= use'[m].attempts + spent'.faults
             /\ use'[m].refused <= use'[m].attempts
             /\ use'[m].refused > 0 =>
                  use'[m].attempts - use'[m].refused + spent'.faults >= use'[m].lowest
             /\ use'[m].attempts >= use[m].attempts
  <2>1. spent'.faults = spent.faults
    BY DEF Counts
  <2>2. CASE m # n
    BY <1>3, <1>4, <2>1, <2>2, Numbers DEF Backed
  <2>3. CASE m = n
    <3>1. /\ use[n].attempts \in Nat /\ use[n].refused \in Nat /\ spent.faults \in Nat
          /\ use[n].lowest \in Nat /\ use'[n].lowest \in Nat
      BY <1>1, Numbers, NextNumbers
    <3>2. /\ use[n].refused <= use[n].attempts
          /\ use[n].refused > 0 =>
               use[n].attempts - use[n].refused + spent.faults >= use[n].lowest
      BY <1>1 DEF Backed
    <3>3. CASE ok
      BY <1>1, <1>3, <1>4, <2>1, <2>3, <3>1, <3>2, <3>3
    <3>4. CASE ~ok
      <4>1. /\ use'[n].refused = use[n].refused + 1
            /\ task[r].limit <= use[n].attempts + spent.faults
        BY <1>1, <1>2, <1>4, <3>1, <3>4
      <4>2. use[n].refused > 0 => use'[n].lowest <= use[n].lowest
        BY <1>4, <3>1, <3>2
      <4> HIDE DEF ok
      <4>3. use'[n].attempts - use'[n].refused + spent'.faults >= use'[n].lowest
        BY <1>2, <1>4, <2>1, <3>1, <3>2, <4>1, <4>2
      <4> QED BY <1>1, <1>3, <1>4, <2>1, <2>3, <3>1, <3>2, <4>1, <4>3
    <3> QED BY <3>3, <3>4
  <2> QED BY <2>2, <2>3
<1>6. ASSUME NEW q \in Requests, task'[q].pc = "write", NEW m \in Counters,
             m = Counter(q, task[q].window)'
      PROVE  task'[q].read <= use'[m].attempts + spent'.faults + 1
  <2>1. task'[q] = task[q] /\ spent'.faults = spent.faults
    BY <1>6 DEF Counts
  <2>2. m = Counter(q, task[q].window)
    BY <1>6, <2>1, PendingStays
  <2>3. task[q].read <= use[m].attempts + spent.faults + 1 /\ task[q].read \in Nat
    BY <1>6, <2>1, <2>2 DEF Backed, Typed, TypeOK, Tasks
  <2>4. use'[m].attempts \in Nat /\ use[m].attempts \in Nat /\ spent.faults \in Nat
    BY <2>1, Numbers, NextNumbers
  <2> QED BY <1>5, <2>1, <2>3, <2>4
<1> QED BY <1>5, <1>6 DEF Backed

LEMMA BackedAfterRead ==
  ASSUME Typed, Backed, NEW r \in Requests, ReadCounter(r)
  PROVE  Backed'
<1>1. Place(r) \in Counters /\ Place(r) = Counter(r, WindowStart(clock, task[r].period))
  BY ReadStep, PlaceInRange DEF Place
<1>2. ASSUME NEW n \in Counters
      PROVE  /\ counters'[n].count <= use'[n].attempts + spent'.faults
             /\ use'[n].refused <= use'[n].attempts
             /\ use'[n].refused > 0 =>
                  use'[n].attempts - use'[n].refused + spent'.faults >= use'[n].lowest
             /\ use'[n].attempts = use[n].attempts
  BY ReadStep DEF Backed
<1>3. ASSUME NEW q \in Requests, task'[q].pc = "write", NEW n \in Counters,
             n = Counter(q, task[q].window)'
      PROVE  task'[q].read <= use'[n].attempts + spent'.faults + 1
  <2>1. CASE q # r
    <3>1. task'[q] = task[q] /\ spent' = spent
      BY <2>1, ReadStep
    <3>2. n = Counter(q, task[q].window)
      BY <1>3, <3>1, PendingStays
    <3> QED BY <1>2, <1>3, <3>1, <3>2 DEF Backed
  <2>2. CASE q = r
    <3>1. /\ task'[r].client = task[r].client /\ task'[r].path = task[r].path
          /\ task'[r].window = WindowStart(clock, task[r].period)
          /\ task'[r].read = counters[Place(r)].count + 1 /\ spent' = spent
      BY ReadStep
    <3>2. n = Place(r)
      BY <1>1, <1>3, <2>2, <3>1 DEF Counter
    <3>3. counters[n].count <= use[n].attempts + spent.faults
      BY DEF Backed
    <3> QED BY <1>2, <2>2, <3>1, <3>2, <3>3, Numbers
  <2> QED BY <2>1, <2>2
<1> QED BY <1>2, <1>3 DEF Backed

LEMMA BackedAfterFailure ==
  ASSUME Typed, Backed, NEW r \in Requests, CountFails(r)
  PROVE  Backed'
<1>1. Place(r) \in Counters
  BY FailStep, PlaceInRange
<1>2. /\ \A n \in Counters : /\ use'[n].attempts = use[n].attempts
                             /\ use'[n].refused = use[n].refused
                             /\ use'[n].lowest = use[n].lowest
      /\ spent'.faults = spent.faults + 1
  BY <1>1, FailStep, UnjudgedFields
<1>3. ASSUME NEW n \in Counters
      PROVE  counters'[n].count <= use[n].attempts + spent.faults + 1
  <2>1. counters[n].count <= use[n].attempts + spent.faults
    BY DEF Backed
  <2>2. ASSUME NEW k \in Nat, Stored(Place(r), k, task[r].period),
               k <= use[Place(r)].attempts + spent.faults + 1
        PROVE  counters'[n].count <= use[n].attempts + spent.faults + 1
    <3>1. task[r].period \in Nat
      BY DEF Typed, TypeOK, Tasks
    <3>2. /\ counters'[Place(r)].count = k
          /\ \A m \in Counters \ {Place(r)} : counters'[m] = counters[m]
      BY <1>1, <2>2, <3>1, StoredFields
    <3> QED BY <2>1, <2>2, <3>2, Numbers
  <2>3. CASE UNCHANGED counters
    BY <2>1, <2>3, Numbers
  <2>4. CASE Stored(Place(r), counters[Place(r)].count + 1, task[r].period)
    <3>1. /\ counters[Place(r)].count + 1 \in Nat
          /\ counters[Place(r)].count + 1 <= use[Place(r)].attempts + spent.faults + 1
      BY <1>1, Numbers DEF Backed
    <3> QED BY <2>2, <2>4, <3>1
  <2>5. CASE task[r].pc = "write" /\ Stored(Place(r), task[r].read, task[r].period)
    <3>1. task[r].read \in Nat
      BY DEF Typed, TypeOK, Tasks
    <3>2. task[r].read <= use[Place(r)].attempts + spent.faults + 1
      BY <1>1, <2>5 DEF Backed, Place
    <3> QED BY <2>2, <2>5, <3>1, <3>2
  <2> QED BY <2>3, <2>4, <2>5, FailStep
<1>4. ASSUME NEW n \in Counters
      PROVE  /\ counters'[n].count <= use'[n].attempts + spent'.faults
             /\ use'[n].refused <= use'[n].attempts
             /\ use'[n].refused > 0 =>
                  use'[n].attempts - use'[n].refused + spent'.faults >= use'[n].lowest
  BY <1>2, <1>3, Numbers DEF Backed
<1>5. ASSUME NEW q \in Requests, task'[q].pc = "write", NEW n \in Counters,
             n = Counter(q, task[q].window)'
      PROVE  task'[q].read <= use'[n].attempts + spent'.faults + 1
  <2>1. task'[q] = task[q]
    BY <1>5, FailStep
  <2>2. n = Counter(q, task[q].window)
    BY <1>5, <2>1, PendingStays
  <2>3. task[q].read <= use[n].attempts + spent.faults + 1 /\ task[q].read \in Nat
    BY <1>5, <2>1, <2>2 DEF Backed, Typed, TypeOK, Tasks
  <2> QED BY <1>2, <2>1, <2>3, Numbers
<1> QED BY <1>4, <1>5 DEF Backed

LEMMA BackedAfterTime ==
  ASSUME Typed, Backed, TimePasses
  PROVE  Backed'
<1>1. /\ \A n \in Counters : counters'[n].count <= counters[n].count
                             /\ counters'[n].count \in Nat
      /\ UNCHANGED <<task, use, spent>>
  BY TimeStep, Numbers DEF Absent
<1>2. ASSUME NEW q \in Requests
      PROVE  Counter(q, task[q].window)' = Counter(q, task[q].window)
  BY <1>1, PendingStays
<1>3. \A n \in Counters : counters'[n].count <= use[n].attempts + spent.faults
  BY <1>1, Numbers DEF Backed
<1> QED BY <1>1, <1>2, <1>3 DEF Backed

LEMMA BackedStaysQuiet ==
  ASSUME Backed, Quiet
  PROVE  Backed'
<1>1. ASSUME NEW q \in Requests, task'[q].pc = "write"
      PROVE  task'[q] = task[q] /\ Counter(q, task[q].window)' = Counter(q, task[q].window)
  BY <1>1, PendingStays DEF Quiet
<1> QED BY <1>1 DEF Quiet, Backed

LEMMA AlwaysBacked == Spec => [](Typed /\ Backed)
<1>1. Init => Typed /\ Backed
  <2> SUFFICES ASSUME Init PROVE Backed
    BY InitIsTyped
  <2>1. \A n \in Counters : /\ counters[n].count = 0
                            /\ use[n].attempts = 0 /\ use[n].refused = 0
    BY DEF Init, Absent, NoUse
  <2>2. \A r \in Requests : task[r].pc = "idle"
    BY DEF Init, NoTask
  <2>3. spent.faults = 0
    BY DEF Init
  <2> QED BY <2>1, <2>2, <2>3 DEF Backed
<1>2. Typed /\ Backed /\ [Next]_vars => (Typed /\ Backed)'
  <2> SUFFICES ASSUME Typed, Backed, [Next]_vars PROVE Typed' /\ Backed'
    OBVIOUS
  <2>1. Typed'
    BY StepIsTyped
  <2> QED BY <2>1, Steps, BackedStaysQuiet, BackedAfterCount, BackedAfterRead,
             BackedAfterFailure, BackedAfterTime
<1> QED BY <1>1, <1>2, PTL DEF Spec

\* No request is refused before at least the lowest limit that was applied in its
\* window has got through or failed, on both backends, in any interleaving of the
\* reads and writes of memcached and whatever an administrator changes meanwhile.
THEOREM RefusalsAreDue == Spec => []RefusedOnlyOverLimit
<1>1. Backed => RefusedOnlyOverLimit
  BY DEF Backed, RefusedOnlyOverLimit
<1> QED BY <1>1, AlwaysBacked, PTL

(***************************************************************************)
(* Admissions                                                              *)
(***************************************************************************)
\* No two requests ever counted at once in this counter.
Alone(n) == backend = "redis" \/ ~use[n].overlapped

\* While one period p was applied, the key lives as long as its window or is gone;
\* the requests it admitted one by one are in its count as long as it lives.
Covered(n, p) ==
  /\ counters[n].until >= n[3] + p \/ counters[n].count = 0
  /\ Alone(n) =>
       /\ use[n].admitted <= use[n].highest + spent.faults
       /\ clock < n[3] + p => use[n].admitted <= counters[n].count + spent.faults

\* A request alone between its read and its write has read them all.
PendingCovered(n, r) ==
  task[r].pc = "write" /\ n = Counter(r, task[r].window)
    /\ Alone(n) /\ use[n].periods \subseteq {task[r].period} =>
  use[n].admitted + 1 <= task[r].read + spent.faults

Accounted ==
  \A n \in Counters :
    /\ IsFiniteSet(use[n].periods)
    /\ \A p \in Nat : use[n].periods \subseteq {p} => Covered(n, p)
    /\ \A r \in Requests : PendingCovered(n, r)

\* When a request judges or fails in its counter and it was alone, no other is
\* between its read and its write there, and the period applied is its own.
LEMMA AloneNow ==
  ASSUME Typed, Typed', NEW r \in Requests, task[r].pc \in {"count", "write"},
         backend' = backend, \A q \in Requests \ {r} : task'[q] = task[q],
         task'[r].pc = "idle", NEW n \in Counters, n = Place(r),
         use'[n].overlapped = (use[n].overlapped \/ Overtaking(r, n)),
         use'[n].periods = use[n].periods \cup {task[r].period},
         Alone(n)'
  PROVE  /\ Alone(n)
         /\ \A q \in Requests : ~(task'[q].pc = "write" /\ n = Counter(q, task[q].window)')
         /\ \A p : use'[n].periods \subseteq {p} =>
              p = task[r].period /\ use[n].periods \subseteq {p}
<1>1. backend = "redis" \/ ~(use[n].overlapped \/ Overtaking(r, n))
  BY Zenon DEF Alone
<1>2. Alone(n)
  BY <1>1 DEF Alone
<1>3. ASSUME NEW q \in Requests, task'[q].pc = "write", n = Counter(q, task[q].window)'
      PROVE  FALSE
  <2>1. q # r /\ task'[q] = task[q]
    BY <1>3
  <2>2. n = Counter(q, task[q].window) /\ task[q].pc = "write"
    BY <1>3, <2>1, PendingStays
  <2>3. Overtaking(r, n)
    BY <2>1, <2>2 DEF Overtaking
  <2>4. backend = "memcached"
    BY <2>2 DEF Typed, Ready
  <2> QED BY <1>1, <2>3, <2>4
<1>4. ASSUME NEW p, use'[n].periods \subseteq {p}
      PROVE  p = task[r].period /\ use[n].periods \subseteq {p}
  BY <1>4
<1> QED BY <1>2, <1>3, <1>4

\* Nothing changes for the counters a step does not touch but the failures.
LEMMA OthersAccounted ==
  ASSUME Typed, Typed', Accounted, NEW n \in Counters,
         UNCHANGED <<backend, clock>>, spent'.faults >= spent.faults,
         use'[n] = use[n], counters'[n] = counters[n],
         \A q \in Requests : task'[q].pc = "write" => task'[q] = task[q]
  PROVE  /\ IsFiniteSet(use'[n].periods)
         /\ \A p \in Nat : use'[n].periods \subseteq {p} => Covered(n, p)'
         /\ \A q \in Requests : PendingCovered(n, q)'
<1>1. IsFiniteSet(use'[n].periods)
  BY DEF Accounted
<1>2. Alone(n)' => Alone(n)
  BY DEF Alone
<1>3. ASSUME NEW p \in Nat, use'[n].periods \subseteq {p}
      PROVE  Covered(n, p)'
  <2>1. Covered(n, p)
    BY <1>3 DEF Accounted
  <2> QED BY <1>2, <2>1, Numbers, NextNumbers DEF Covered
<1>4. ASSUME NEW q \in Requests, task'[q].pc = "write", n = Counter(q, task[q].window)',
             Alone(n)', use'[n].periods \subseteq {task'[q].period}
      PROVE  use'[n].admitted + 1 <= task'[q].read + spent'.faults
  <2>1. task'[q] = task[q] /\ n = Counter(q, task[q].window)
    BY <1>4, PendingStays
  <2>2. use[n].admitted + 1 <= task[q].read + spent.faults /\ task[q].read \in Nat
    BY <1>2, <1>4, <2>1 DEF Accounted, PendingCovered, Typed, TypeOK, Tasks
  <2> QED BY <2>1, <2>2, Numbers, NextNumbers
<1> QED BY <1>1, <1>3, <1>4 DEF PendingCovered

\* The number a request alone in its counter is judged by covers those admitted.
LEMMA CountCovers ==
  ASSUME Typed, Accounted, NEW r \in Requests, NEW k \in Nat, Counts(r, k),
         Alone(Place(r)), use[Place(r)].periods \subseteq {task[r].period}
  PROVE  use[Place(r)].admitted + 1 <= k + spent.faults
<1>1. Place(r) \in Counters /\ task[r].period \in Nat
  BY PlaceInRange DEF Counts, Typed, TypeOK, Tasks
<1>2. CASE task[r].pc = "count" /\ k = counters[Place(r)].count + 1
  <2>1. clock < Place(r)[3] + task[r].period
    BY <1>2, NowInRange DEF Place, Now
  <2>2. Covered(Place(r), task[r].period)
    BY <1>1 DEF Accounted
  <2> QED BY <1>1, <1>2, <2>1, <2>2, Numbers DEF Covered
<1>3. CASE task[r].pc = "write" /\ k = task[r].read
  <2>1. Place(r) = Counter(r, task[r].window)
    BY <1>3 DEF Place
  <2> QED BY <1>1, <1>3, <2>1 DEF Accounted, PendingCovered
<1> QED BY <1>2, <1>3 DEF Counts

LEMMA AccountedAfterCount ==
  ASSUME Typed, Typed', Accounted, NEW r \in Requests, NEW k \in Nat, Counts(r, k)
  PROVE  Accounted'
<1>1. PICK n \in Counters : n = Place(r)
  BY PlaceInRange DEF Counts
<1>2. /\ task[r].limit \in Nat /\ task[r].period \in Nat
      /\ task[r].pc \in {"count", "write"} /\ task'[r].pc = "idle"
      /\ UNCHANGED <<backend, clock, spent>>
      /\ \A q \in Requests \ {r} : task'[q] = task[q]
      /\ n[3] <= clock
  BY <1>1, PlaceInRange DEF Counts, Typed, TypeOK, Tasks
<1>3. /\ counters'[n].count = k /\ counters'[n].until = clock + task[r].period
      /\ \A m \in Counters \ {n} : counters'[m] = counters[m]
  BY <1>1, <1>2, StoredFields DEF Counts
<1>4. /\ \A m \in Counters \ {n} : use'[m] = use[m]
      /\ use'[n].admitted = use[n].admitted + (IF k <= task[r].limit THEN 1 ELSE 0)
      /\ use'[n].highest >= task[r].limit /\ use'[n].highest >= use[n].highest
      /\ use'[n].periods = use[n].periods \cup {task[r].period}
      /\ use'[n].overlapped = (use[n].overlapped \/ Overtaking(r, n))
  <2> DEFINE ok == k <= task[r].limit
  <2>1. ok \in BOOLEAN
    OBVIOUS
  <2>2. Judged(r, n, ok)
    BY <1>1 DEF Counts
  <2>3. ok <=> k <= task[r].limit
    OBVIOUS
  <2> HIDE DEF ok
  <2> QED BY <2>1, <2>2, <2>3, JudgedFields
<1>5. ASSUME NEW m \in Counters, m # n
      PROVE  /\ IsFiniteSet(use'[m].periods)
             /\ \A p \in Nat : use'[m].periods \subseteq {p} => Covered(m, p)'
             /\ \A q \in Requests : PendingCovered(m, q)'
  BY <1>2, <1>3, <1>4, <1>5, Numbers, OthersAccounted
<1>6. IsFiniteSet(use'[n].periods)
  <2>1. IsFiniteSet(use[n].periods)
    BY DEF Accounted
  <2>2. IsFiniteSet(use[n].periods \cup {task[r].period})
    BY <2>1, FS_AddElement
  <2> QED BY <1>4, <2>2
<1>7. ASSUME Alone(n)'
      PROVE  /\ Alone(n)
             /\ \A q \in Requests : ~(task'[q].pc = "write" /\ n = Counter(q, task[q].window)')
             /\ \A p : use'[n].periods \subseteq {p} =>
                  p = task[r].period /\ use[n].periods \subseteq {p}
  BY <1>1, <1>2, <1>4, <1>7, AloneNow
<1>8. ASSUME NEW p \in Nat, use'[n].periods \subseteq {p}
      PROVE  Covered(n, p)'
  <2>1. p = task[r].period /\ use[n].periods \subseteq {p}
    BY <1>4, <1>8
  <2>2. counters'[n].until >= n[3] + p
    BY <1>2, <1>3, <2>1, Numbers
  <2>3. ASSUME Alone(n)'
        PROVE  /\ use'[n].admitted <= use'[n].highest + spent'.faults
               /\ use'[n].admitted <= counters'[n].count + spent'.faults
    <3>1. Alone(n)
      BY <1>7, <2>3
    <3>2. use[n].admitted + 1 <= k + spent.faults
      BY <1>1, <2>1, <3>1, CountCovers
    <3>3. use[n].admitted <= use[n].highest + spent.faults
      BY <2>1, <3>1 DEF Accounted, Covered
    <3>4. /\ use[n].admitted \in Nat /\ use[n].highest \in Nat /\ spent.faults \in Nat
          /\ use'[n].highest \in Nat
      BY Numbers, NextNumbers
    <3> QED BY <1>2, <1>3, <1>4, <3>2, <3>3, <3>4
  <2> QED BY <2>2, <2>3 DEF Covered
<1>9. ASSUME NEW q \in Requests PROVE PendingCovered(n, q)'
  BY <1>7 DEF PendingCovered
<1> QED BY <1>5, <1>6, <1>8, <1>9 DEF Accounted

LEMMA AccountedAfterRead ==
  ASSUME Typed, Typed', Accounted, NEW r \in Requests, ReadCounter(r)
  PROVE  Accounted'
<1>1. Place(r) \in Counters /\ Place(r) = Counter(r, WindowStart(clock, task[r].period))
  BY ReadStep, PlaceInRange DEF Place
<1>2. /\ UNCHANGED <<backend, clock, counters, spent>>
      /\ \A q \in Requests \ {r} : task'[q] = task[q]
  BY ReadStep
<1>3. ASSUME NEW n \in Counters
      PROVE  /\ use'[n].admitted = use[n].admitted /\ use'[n].highest = use[n].highest
             /\ use'[n].periods = use[n].periods
             /\ Alone(n)' => Alone(n)
  BY <1>2, ReadStep DEF Alone
<1>4. ASSUME NEW n \in Counters, NEW p \in Nat, use'[n].periods \subseteq {p}
      PROVE  Covered(n, p)'
  <2>1. Covered(n, p)
    BY <1>3, <1>4 DEF Accounted
  <2> QED BY <1>2, <1>3, <2>1 DEF Covered
<1>5. ASSUME NEW n \in Counters, NEW q \in Requests,
             task'[q].pc = "write", n = Counter(q, task[q].window)',
             Alone(n)', use'[n].periods \subseteq {task'[q].period}
      PROVE  use'[n].admitted + 1 <= task'[q].read + spent'.faults
  <2>1. CASE q # r
    <3>1. task'[q] = task[q] /\ n = Counter(q, task[q].window)
      BY <1>2, <1>5, <2>1, PendingStays
    <3> QED BY <1>2, <1>3, <1>5, <3>1 DEF Accounted, PendingCovered
  <2>2. CASE q = r
    <3>1. /\ task'[r].client = task[r].client /\ task'[r].path = task[r].path
          /\ task'[r].window = WindowStart(clock, task[r].period)
          /\ task'[r].read = counters[Place(r)].count + 1
          /\ task'[r].period = task[r].period /\ task[r].pc = "count"
      BY ReadStep
    <3>2. n = Place(r)
      BY <1>1, <1>5, <2>2, <3>1 DEF Counter
    <3>3. clock < n[3] + task[r].period /\ task[r].period \in Nat
      BY <1>1, <3>1, <3>2, NowInRange DEF Now
    <3>4. Covered(n, task[r].period) /\ Alone(n)
      BY <1>3, <1>5, <2>2, <3>1, <3>3 DEF Accounted
    <3> QED BY <1>2, <1>3, <2>2, <3>1, <3>2, <3>3, <3>4, Numbers DEF Covered
  <2> QED BY <2>1, <2>2
<1>6. ASSUME NEW n \in Counters PROVE IsFiniteSet(use'[n].periods)
  BY <1>3 DEF Accounted
<1> QED BY <1>4, <1>5, <1>6 DEF Accounted, PendingCovered

LEMMA AccountedAfterTime ==
  ASSUME Typed, Typed', Accounted, TimePasses
  PROVE  Accounted'
<1>1. /\ clock' = clock + 1
      /\ UNCHANGED <<backend, task, use, spent>>
      /\ \A n \in Counters :
           \/ counters'[n] = counters[n]
           \/ counters[n].until <= clock + 1 /\ counters'[n].count = 0
  <2>1. /\ clock' = clock + 1
        /\ UNCHANGED <<backend, task, use, spent>>
    BY TimeStep
  <2>2. ASSUME NEW n \in Counters
        PROVE  \/ counters'[n] = counters[n]
               \/ counters[n].until <= clock + 1 /\ counters'[n].count = 0
    <3>1. counters'[n] = IF counters[n].until > clock + 1 THEN counters[n] ELSE Absent
      BY TimeStep
    <3>2. Absent.count = 0
      BY DEF Absent
    <3> HIDE DEF Absent
    <3> QED BY <3>1, <3>2, Numbers
  <2> QED BY <2>1, <2>2
<1>2. ASSUME NEW n \in Counters, NEW p \in Nat, use'[n].periods \subseteq {p}
      PROVE  Covered(n, p)'
  <2>1. Covered(n, p)
    BY <1>1, <1>2 DEF Accounted
  <2>2. Alone(n)' => Alone(n)
    BY <1>1 DEF Alone
  <2>3. CASE counters'[n] = counters[n]
    BY <1>1, <2>1, <2>2, <2>3, Numbers DEF Covered
  <2>4. CASE counters[n].until <= clock + 1 /\ counters'[n].count = 0
    BY <1>1, <2>1, <2>2, <2>4, Numbers DEF Covered
  <2> QED BY <1>1, <2>3, <2>4
<1>3. ASSUME NEW n \in Counters, NEW q \in Requests PROVE PendingCovered(n, q)'
  <2>1. Counter(q, task[q].window)' = Counter(q, task[q].window)
    BY <1>1, PendingStays
  <2> QED BY <1>1, <2>1 DEF Accounted, PendingCovered, Alone
<1>4. ASSUME NEW n \in Counters PROVE IsFiniteSet(use'[n].periods)
  BY <1>1 DEF Accounted
<1> QED BY <1>2, <1>3, <1>4 DEF Accounted

LEMMA AccountedAfterFailure ==
  ASSUME Typed, Typed', Accounted, NEW r \in Requests, CountFails(r)
  PROVE  Accounted'
<1>1. PICK n \in Counters : n = Place(r)
  BY FailStep, PlaceInRange
<1>2. /\ task[r].pc \in {"count", "write"} /\ task'[r].pc = "idle"
      /\ UNCHANGED <<backend, clock>>
      /\ spent'.faults = spent.faults + 1
      /\ \A q \in Requests \ {r} : task'[q] = task[q]
  BY FailStep
<1>3. /\ \A m \in Counters \ {n} : use'[m] = use[m]
      /\ use'[n].admitted <= use[n].admitted + 1
      /\ use'[n].highest = use[n].highest
      /\ use'[n].periods = use[n].periods \cup {task[r].period}
      /\ use'[n].overlapped = (use[n].overlapped \/ Overtaking(r, n))
  BY <1>1, FailStep, UnjudgedFields
<1>4. task[r].period \in Nat /\ task[r].read \in Nat /\ n[3] <= clock
  BY <1>1, <1>2, PlaceInRange DEF Typed, TypeOK, Tasks
<1>5. /\ \A m \in Counters \ {n} : counters'[m] = counters[m]
      /\ \/ counters'[n] = counters[n]
         \/ /\ task[r].pc = "count" /\ counters'[n].count = counters[n].count + 1
            /\ counters'[n].until = clock + task[r].period
         \/ /\ task[r].pc = "write" /\ counters'[n].count = task[r].read
            /\ counters'[n].until = clock + task[r].period
  <2>1. CASE UNCHANGED counters
    BY <2>1
  <2>2. CASE task[r].pc = "count" /\ Stored(n, counters[n].count + 1, task[r].period)
    <3>1. counters[n].count + 1 \in Nat
      BY Numbers
    <3> QED BY <1>4, <2>2, <3>1, StoredFields
  <2>3. CASE task[r].pc = "write" /\ Stored(n, task[r].read, task[r].period)
    BY <1>4, <2>3, StoredFields
  <2> QED BY <1>1, <2>1, <2>2, <2>3, FailStep
<1>6. ASSUME NEW m \in Counters, m # n
      PROVE  /\ IsFiniteSet(use'[m].periods)
             /\ \A p \in Nat : use'[m].periods \subseteq {p} => Covered(m, p)'
             /\ \A q \in Requests : PendingCovered(m, q)'
  <2>1. spent'.faults >= spent.faults
    BY <1>2, Numbers
  <2> QED BY <1>2, <1>3, <1>5, <1>6, <2>1, OthersAccounted
<1>7. IsFiniteSet(use'[n].periods)
  <2>1. IsFiniteSet(use[n].periods)
    BY DEF Accounted
  <2>2. IsFiniteSet(use[n].periods \cup {task[r].period})
    BY <2>1, FS_AddElement
  <2> QED BY <1>3, <2>2
<1>8. ASSUME Alone(n)'
      PROVE  /\ Alone(n)
             /\ \A q \in Requests : ~(task'[q].pc = "write" /\ n = Counter(q, task[q].window)')
  BY <1>1, <1>2, <1>3, <1>8, AloneNow
<1>9. ASSUME NEW p \in Nat, use'[n].periods \subseteq {p}
      PROVE  Covered(n, p)'
  <2>1. p = task[r].period /\ use[n].periods \subseteq {p}
    BY <1>3, <1>9
  <2>2. Covered(n, p)
    BY <2>1 DEF Accounted
  <2>3. counters'[n].until >= n[3] + p \/ counters'[n].count = 0
    BY <1>4, <1>5, <2>1, <2>2, Numbers DEF Covered
  <2>4. ASSUME Alone(n)'
        PROVE  use'[n].admitted <= use'[n].highest + spent'.faults
    BY <1>2, <1>3, <1>8, <2>2, <2>4, Numbers, NextNumbers DEF Covered
  <2>5. ASSUME Alone(n)', clock < n[3] + p
        PROVE  use'[n].admitted <= counters'[n].count + spent'.faults
    <3>1. Alone(n)
      BY <1>8, <2>5
    <3>2. use[n].admitted <= counters[n].count + spent.faults
      BY <2>2, <2>5, <3>1 DEF Covered
    <3>3. task[r].pc = "write" => use[n].admitted + 1 <= task[r].read + spent.faults
      <4>1. task[r].pc = "write" => n = Counter(r, task[r].window)
        BY <1>1 DEF Place
      <4> QED BY <2>1, <3>1, <4>1 DEF Accounted, PendingCovered
    <3> QED BY <1>2, <1>3, <1>4, <1>5, <3>2, <3>3, Numbers, NextNumbers
  <2> QED BY <1>2, <2>3, <2>4, <2>5 DEF Covered
<1>10. ASSUME NEW q \in Requests PROVE PendingCovered(n, q)'
  BY <1>8 DEF PendingCovered
<1> QED BY <1>6, <1>7, <1>9, <1>10 DEF Accounted

LEMMA AccountedStaysQuiet ==
  ASSUME Typed, Typed', Accounted, Quiet
  PROVE  Accounted'
<1>1. spent'.faults >= spent.faults
  <2>1. spent.faults \in Nat /\ spent'.faults = spent.faults
    BY DEF Quiet, Typed, TypeOK
  <2> QED BY <2>1
<1>2. ASSUME NEW n \in Counters
      PROVE  /\ IsFiniteSet(use'[n].periods)
             /\ \A p \in Nat : use'[n].periods \subseteq {p} => Covered(n, p)'
             /\ \A q \in Requests : PendingCovered(n, q)'
  BY <1>1, OthersAccounted DEF Quiet
<1> QED BY <1>2 DEF Accounted

LEMMA AlwaysAccounted == Spec => [](Typed /\ Accounted)
<1>1. Init => Typed /\ Accounted
  <2> SUFFICES ASSUME Init PROVE Accounted
    BY InitIsTyped
  <2>1. \A n \in Counters :
          /\ counters[n].count = 0 /\ use[n].admitted = 0 /\ use[n].highest = 0
          /\ use[n].periods = {}
    BY DEF Init, Absent, NoUse
  <2>2. \A r \in Requests : task[r].pc = "idle"
    BY DEF Init, NoTask
  <2>3. spent.faults = 0
    BY DEF Init
  <2> QED BY <2>1, <2>2, <2>3, FS_EmptySet DEF Accounted, Covered, PendingCovered
<1>2. Typed /\ Accounted /\ [Next]_vars => (Typed /\ Accounted)'
  <2> SUFFICES ASSUME Typed, Accounted, [Next]_vars PROVE Typed' /\ Accounted'
    OBVIOUS
  <2>1. Typed'
    BY StepIsTyped
  <2> QED BY <2>1, Steps, AccountedStaysQuiet, AccountedAfterCount, AccountedAfterRead,
             AccountedAfterFailure, AccountedAfterTime
<1> QED BY <1>1, <1>2, PTL DEF Spec

\* No window admits more than the highest limit that was applied in it and one
\* for each failure, but where two requests counted at once on memcached or the
\* period changed: the two causes are the only ones, for any number of clients,
\* requests, windows and changes of the tables.
THEOREM AdmissionsAreWithinLimit == Spec => []AdmittedWithinLimit
<1>1. Typed /\ Accounted => AdmittedWithinLimit
  <2> SUFFICES ASSUME Typed, Accounted, NEW n \in Counters,
                      use[n].admitted > use[n].highest + spent.faults,
                      ~(Cardinality(use[n].periods) > 1)
               PROVE  backend = "memcached" /\ use[n].overlapped
    BY DEF AdmittedWithinLimit
  <2>1. IsFiniteSet(use[n].periods) /\ use[n].periods \in SUBSET Nat
    BY Numbers DEF Accounted
  <2>2. Cardinality(use[n].periods) \in Nat
    BY <2>1, FS_CardinalityType
  <2>3. PICK p \in Nat : use[n].periods \subseteq {p}
    <3>1. CASE Cardinality(use[n].periods) = 0
      BY <2>1, <3>1, FS_EmptySet
    <3>2. CASE Cardinality(use[n].periods) = 1
      BY <2>1, <3>2, FS_Singleton
    <3> QED BY <2>2, <3>1, <3>2
  <2>4. ~Alone(n)
    BY <2>3, Numbers DEF Accounted, Covered
  <2>5. backend \in {"redis", "memcached"}
    BY RateConstants DEF Typed, TypeOK
  <2> QED BY <2>4, <2>5 DEF Alone
<1> QED BY <1>1, AlwaysAccounted, PTL

====
