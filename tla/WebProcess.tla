---- MODULE WebProcess ----
(***************************************************************************)
(* The processes that serve the API: each validates its settings, creates  *)
(* the tables, opens its clients in the order of its lifespan, serves      *)
(* requests through the response cache, and closes its clients again.      *)
(* They share the database and the cache; a supervisor starts them again.  *)
(***************************************************************************)
EXTENDS ProductionSecurity, ResponseCache

CONSTANTS
  Configurations,    \* settings the processes may be deployed with
  MaxFaults, MaxStops  \* bounds: failures and crashes; orderly shutdowns

ASSUME WebConstants ==
  /\ Configurations \subseteq Settings
  /\ MaxFaults \in Nat /\ MaxStops \in Nat

VARIABLES
  settings,  \* of all processes
  tables,    \* the tables exist
  proc,      \* the processes, with their registries and clients
  spent      \* faults and stops so far

webVars == <<settings, tables, proc, spent>>
vars == <<webVars, cacheVars>>

Steps == {"start", "check_tables", "create_tables", "cache", "limiter", "broker",
          "serving", "close_broker", "close_cache", "close_limiter", "ended"}
Clients == {"none", "open", "closed"}

Processors ==
  [pc : Steps,
   missing : BOOLEAN,  \* create_all found no tables
   cache : Clients, limiter : Clients,  \* what the providers have registered
   broker : Clients,
   warned : SUBSET Warnings(settings),  \* by the validator
   masked : BOOLEAN]   \* something was raised in finally

NoProcess == [pc |-> "start", missing |-> FALSE, cache |-> "none", limiter |-> "none",
              broker |-> "none", warned |-> {}, masked |-> FALSE]

TypeOK ==
  /\ CacheTypeOK
  /\ settings \in Configurations
  /\ tables \in BOOLEAN
  /\ proc \in [Processes -> Processors]
  /\ spent \in [faults : Nat, stops : Nat]

Init ==
  /\ CacheInit
  /\ settings \in Configurations
  /\ tables \in BOOLEAN  \* a migration may have made them
  /\ proc = [p \in Processes |-> NoProcess]
  /\ spent = [faults |-> 0, stops |-> 0]

To(p, step) == proc' = [proc EXCEPT ![p].pc = step]
Fault == spent.faults < MaxFaults /\ spent' = [spent EXCEPT !.faults = @ + 1]

(***************************************************************************)
(* Start                                                                   *)
(***************************************************************************)
\* MUTANT of Validate: the settings are looked at in the lifespan, after the tables.
LateValidate(p) ==
  /\ proc[p].pc = "start"
  /\ To(p, "check_tables")
  /\ UNCHANGED <<settings, tables, spent, cacheVars>>

\* lifespan_with_security: what is refused here never enters the lifespan.
Validate(p) ==
  /\ proc[p].pc = "start"
  /\ proc' = [proc EXCEPT ![p].pc = IF Refused(settings) THEN "ended" ELSE "check_tables",
                          ![p].warned = Logged(settings)]
  /\ UNCHANGED <<settings, tables, spent, cacheVars>>

\* create_all asks which tables exist, and creates those that did not.  The factory
\* is called without create_tables_on_startup, so that this step is never left out.
CheckTables(p) ==
  /\ proc[p].pc = "check_tables"
  /\ proc' = [proc EXCEPT ![p].pc = "create_tables", ![p].missing = ~tables]
  /\ UNCHANGED <<settings, tables, spent, cacheVars>>

\* MUTANT of CreateTables: it does not look before it creates.
CreateBlindly(p) ==
  /\ proc[p].pc = "create_tables"
  /\ IF tables THEN To(p, "close_broker") /\ UNCHANGED tables
     ELSE To(p, "cache") /\ tables' = TRUE
  /\ UNCHANGED <<settings, spent, cacheVars>>

\* A table that another process has created meanwhile is an error.
CreateTables(p) ==
  /\ proc[p].pc = "create_tables"
  /\ IF proc[p].missing /\ tables THEN To(p, "close_broker") /\ UNCHANGED tables
     ELSE To(p, "cache") /\ tables' = TRUE
  /\ UNCHANGED <<settings, spent, cacheVars>>

\* Nothing is registered for a backend that is neither redis nor memcached.
Known(backend) == backend \in {"redis", "memcached"}
UsesCache == settings.cache.enabled /\ Known(settings.cache.backend)
UsesLimiter == settings.limiter.enabled /\ Known(settings.limiter.backend)

InitializeCache(p) ==
  /\ proc[p].pc = "cache"
  /\ proc' = [proc EXCEPT ![p].pc = "limiter",
                          ![p].cache = IF UsesCache THEN "open" ELSE "none"]
  /\ UNCHANGED <<settings, tables, spent, cacheVars>>

InitializeLimiter(p) ==
  /\ proc[p].pc = "limiter"
  /\ proc' = [proc EXCEPT ![p].pc = "broker",
                          ![p].limiter = IF UsesLimiter THEN "open" ELSE "none"]
  /\ UNCHANGED <<settings, tables, spent, cacheVars>>

StartBroker(p) ==
  /\ proc[p].pc = "broker"
  /\ proc' = [proc EXCEPT ![p].pc = "serving", ![p].broker = "open"]
  /\ UNCHANGED <<settings, tables, spent, cacheVars>>

\* The database or the broker cannot be reached.
StartFails(p) ==
  /\ proc[p].pc \in {"check_tables", "create_tables", "broker"}
  /\ Fault /\ To(p, "close_broker")
  /\ UNCHANGED <<settings, tables, cacheVars>>

(***************************************************************************)
(* Serving                                                                 *)
(***************************************************************************)
\* get_backend: what initialize_cache has registered as the default, a closed
\* client included.
Backend(p) == IF proc[p].cache = "none" THEN None ELSE settings.cache.backend

\* Endpoints run in a process that serves.
Serve(r) ==
  /\ \/ \E p \in Processes :
          /\ proc[p].pc = "serving"
          /\ \/ \E i \in Items : Get(r, p, i, Backend(p))
             \/ \E w \in Writers : Write(r, p, w)
     \/ /\ requests[r].process # None
        /\ \/ LookUp(r) \/ RunGet(r) \/ Store(r) \/ Delete(r) \/ Unlink(r) \/ CacheFails(r)
           \/ RunWrite(r, Backend(requests[r].process))
           \/ Scan(r, Backend(requests[r].process))
  /\ UNCHANGED webVars

(***************************************************************************)
(* Stop                                                                    *)
(***************************************************************************)
\* An orderly shutdown waits for the requests of the process.
Stop(p) ==
  /\ proc[p].pc = "serving" /\ spent.stops < MaxStops
  /\ \A r \in Requests : requests[r].process # p
  /\ To(p, "close_broker")
  /\ spent' = [spent EXCEPT !.stops = @ + 1]
  /\ UNCHANGED <<settings, tables, cacheVars>>

CloseBroker(p) ==
  /\ proc[p].pc = "close_broker"
  /\ proc' = [proc EXCEPT ![p].pc = "close_cache", ![p].broker = "closed"]
  /\ UNCHANGED <<settings, tables, spent, cacheVars>>

\* Closing a backend that was never registered raises, and ends the finally: that is
\* what happens when the tables could not be created.
Close(p, step, client, enabled, next) ==
  /\ proc[p].pc = step
  /\ proc' = [proc EXCEPT ![p] =
       IF ~enabled THEN [@ EXCEPT !.pc = next]
       ELSE IF @[client] = "none" THEN [@ EXCEPT !.pc = "ended", !.masked = TRUE]
       ELSE [@ EXCEPT !.pc = next, ![client] = "closed"]]
  /\ UNCHANGED <<settings, tables, spent, cacheVars>>

\* MUTANT of CloseCache: it goes on to the end and leaves the limiter open.
CloseCacheOnly(p) == Close(p, "close_cache", "cache", UsesCache, "ended")
CloseCache(p) == Close(p, "close_cache", "cache", UsesCache, "close_limiter")
CloseLimiter(p) == Close(p, "close_limiter", "limiter", UsesLimiter, "ended")

\* The shutdown of the broker or the close of a client raises.
StopFails(p) ==
  /\ proc[p].pc \in {"close_broker", "close_cache", "close_limiter"}
  /\ Fault
  /\ proc' = [proc EXCEPT ![p].pc = "ended", ![p].masked = TRUE]
  /\ UNCHANGED <<settings, tables, cacheVars>>

Crash(p) ==
  /\ proc[p].pc # "ended"
  /\ Fault
  /\ Die(p)
  /\ proc' = [proc EXCEPT ![p] = [NoProcess EXCEPT !.pc = "ended"]]
  /\ UNCHANGED <<settings, tables>>

\* The supervisor starts a new process in the place of one that ended.
Restart(p) ==
  /\ proc[p].pc = "ended"
  /\ proc' = [proc EXCEPT ![p] = NoProcess]
  /\ UNCHANGED <<settings, tables, spent, cacheVars>>

\* What the process does on its own.
Proceed(p) ==
  \/ Validate(p) \/ CheckTables(p) \/ CreateTables(p)
  \/ InitializeCache(p) \/ InitializeLimiter(p) \/ StartBroker(p)
  \/ CloseBroker(p) \/ CloseCache(p) \/ CloseLimiter(p) \/ Restart(p)

Next ==
  \/ \E p \in Processes : Proceed(p) \/ StartFails(p) \/ Stop(p) \/ StopFails(p) \/ Crash(p)
  \/ \E r \in Requests : Serve(r)
  \/ \E i \in Items : Expire(i) /\ UNCHANGED webVars

Spec == Init /\ [][Next]_vars /\ \A p \in Processes : WF_vars(Proceed(p))

(***************************************************************************)
(* Properties                                                              *)
(***************************************************************************)
\* Every process that ended in good order has closed what it opened, whether its
\* start failed or it was stopped, unless something was raised in the finally of its
\* lifespan, which skips the clients that come after.
EndedMeansClosed ==
  \A p \in Processes :
    proc[p].pc = "ended" /\ ~proc[p].masked =>
      "open" \notin {proc[p].cache, proc[p].limiter, proc[p].broker}

\* A redis database that two of cache, sessions (which are given that of the cache) and
\* limiter use is reported by every process that serves with validated settings: a key
\* of one may meet a clear of the other (_check_redis_instance_sharing).
SharingIsReported ==
  \A p \in Processes :
    LET cache == settings.cache.backend = "redis"
        sessions == settings.auth.backend = "redis"
        limiter == settings.limiter.backend = "redis" /\ settings.limiter.at = settings.cache.at
    IN  /\ proc[p].pc = "serving" /\ Validated(settings)
        /\ (cache /\ sessions) \/ (cache /\ limiter) \/ (sessions /\ limiter)
        => <<"shared", "redis">> \in proc[p].warned

\* Settings that the validator refuses never reach the shared database or the cache:
\* they are refused before the lifespan begins, by every process and at each restart.
RefusedSettingsTouchNothing ==
  [][Refused(settings) => UNCHANGED <<tables, versions, cached>>]_vars

\* Processes that start on one empty database collide in create_all, and the one that
\* comes second dies; whatever fails, in the end all of them serve.
AllServeInTheEnd ==
  ~Refused(settings) => <>[](\A p \in Processes : proc[p].pc = "serving")
====
