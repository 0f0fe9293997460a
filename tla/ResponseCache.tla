---- MODULE ResponseCache ----
(***************************************************************************)
(* Endpoints under @cache: a GET is answered from the cache, or runs and   *)
(* stores its answer; any other method runs and then deletes what its      *)
(* decorator names, one await at a time.                                   *)
(***************************************************************************)
EXTENDS Naturals, FiniteSets

CONSTANTS
  Items,      \* the resources behind one prefix, each with a key
  Falsy,      \* those whose answer is falsy: an empty list, zero
  Writers,    \* the decorated endpoints that write, see WriterTypes
  Requests,   \* slots of requests in flight
  Processes,
  None,
  MaxRequests, MaxCacheFaults  \* bounds

\* A writer changes the resources in affects and has its decorator delete its own
\* key, those of to_invalidate_extra, and what pattern_to_invalidate_extra matches.
WriterTypes == [item : Items, affects : SUBSET Items, extra : SUBSET Items, pattern : BOOLEAN]

ASSUME CacheConstants ==
  /\ Falsy \subseteq Items
  /\ Writers \subseteq WriterTypes
  /\ \A w \in Writers :
       /\ w.item \in w.affects
       /\ w.affects \subseteq IF w.pattern THEN Items ELSE {w.item} \cup w.extra
  /\ None \notin Items \cup {"redis", "memcached"}
  /\ MaxRequests \in Nat /\ MaxCacheFaults \in Nat

VARIABLES
  versions,  \* the rows: how often each resource was written
  cached,    \* the cache server: an entry or Absent
  crowded,   \* its database holds more keys than one page of SCAN
  requests,  \* in flight, with the variables of the decorator
  missed,    \* history: what a deletion failed on, skipped or never got to
  used       \* requests and faults so far

cacheVars == <<versions, cached, crowded, requests, missed, used>>

\* An answer that was computed before the last write.
Stale(i) == cached[i].here /\ cached[i].version < versions[i]

Absent == [here |-> FALSE, version |-> 0, raced |-> FALSE]
Entries == [here : BOOLEAN, version : Nat,
            raced : BOOLEAN]  \* history: written over while it was computed

Tasks ==
  [pc : {"idle", "get", "read", "set", "write", "delete", "scan", "unlink"},
   process : Processes \cup {None}, item : Items \cup {None},
   version : Nat,         \* result
   todo : SUBSET Items,   \* affected, and not deleted so far
   extra : SUBSET Items,  \* keys that are still to be deleted by name
   pattern : BOOLEAN, page : SUBSET Items]

NoTask == [pc |-> "idle", process |-> None, item |-> None, version |-> 0,
           todo |-> {}, extra |-> {}, pattern |-> FALSE, page |-> {}]

CacheTypeOK ==
  /\ versions \in [Items -> Nat]
  /\ cached \in [Items -> Entries]
  /\ crowded \in BOOLEAN
  /\ requests \in [Requests -> Tasks]
  /\ missed \subseteq Items
  /\ used \in [requests : Nat, faults : Nat]

CacheInit ==
  /\ versions = [i \in Items |-> 0]
  /\ cached = [i \in Items |-> Absent]
  /\ crowded \in BOOLEAN
  /\ requests = [r \in Requests |-> NoTask]
  /\ missed = {}
  /\ used = [requests |-> 0, faults |-> 0]

Finish(r) == requests' = [requests EXCEPT ![r] = NoTask]
Goto(r, step) == requests' = [requests EXCEPT ![r].pc = step]

Begin(r, p, new) ==
  /\ requests[r].pc = "idle" /\ used.requests < MaxRequests
  /\ used' = [used EXCEPT !.requests = @ + 1]
  /\ requests' = [requests EXCEPT ![r] = [new EXCEPT !.process = p]]
  /\ UNCHANGED <<versions, cached, crowded, missed>>

\* backend is what get_backend returns, None when it raises: the endpoint then runs
\* without the cache, and only a writer leaves anything behind.
Get(r, p, i, backend) ==
  /\ backend # None
  /\ Begin(r, p, [NoTask EXCEPT !.pc = "get", !.item = i])

Write(r, p, w) ==
  Begin(r, p, [NoTask EXCEPT !.pc = "write", !.item = w.item, !.todo = w.affects,
                             !.extra = w.extra, !.pattern = w.pattern])

(***************************************************************************)
(* GET                                                                     *)
(***************************************************************************)
\* if cached_data: an entry that is falsy counts as none.
LookUp(r) ==
  /\ requests[r].pc = "get"
  /\ IF cached[requests[r].item].here /\ requests[r].item \notin Falsy
     THEN Finish(r) ELSE Goto(r, "read")
  /\ UNCHANGED <<versions, cached, crowded, missed, used>>

RunGet(r) ==
  /\ requests[r].pc = "read"
  /\ requests' = [requests EXCEPT ![r].pc = "set", ![r].version = versions[requests[r].item]]
  /\ UNCHANGED <<versions, cached, crowded, missed, used>>

Put(r) ==
  /\ requests[r].pc = "set"
  /\ LET i == requests[r].item IN
     /\ cached' = [cached EXCEPT ![i] =
          [here |-> TRUE, version |-> requests[r].version,
           raced |-> requests[r].version # versions[i]]]
     /\ missed' = missed \ {i}

Store(r) ==
  /\ Put(r) /\ Finish(r)
  /\ UNCHANGED <<versions, crowded, used>>

(***************************************************************************)
(* The other methods                                                       *)
(***************************************************************************)
\* The endpoint commits, or raises and changes nothing; without a backend
\* that is all.
RunWrite(r, backend) ==
  /\ requests[r].pc = "write"
  /\ \/ /\ versions' = [i \in Items |->
                          IF i \in requests[r].todo THEN versions[i] + 1 ELSE versions[i]]
        /\ IF backend = None THEN Finish(r) ELSE Goto(r, "delete")
     \/ Finish(r) /\ UNCHANGED versions
  /\ UNCHANGED <<cached, crowded, missed, used>>

Drop(keys) ==
  /\ cached' = [i \in Items |-> IF i \in keys THEN Absent ELSE cached[i]]
  /\ missed' = missed \ keys

\* MUTANT of AfterDelete: the keys of to_invalidate_extra are forgotten.
ForgetExtra(r, keys) ==
  LET new == [requests[r] EXCEPT !.todo = @ \ keys, !.extra = {}]
  IN requests' = [requests EXCEPT ![r] = IF new.pattern THEN [new EXCEPT !.pc = "scan"] ELSE NoTask]
\* Next comes an extra key, then the pattern, then the answer.
AfterDelete(r, keys) ==
  LET new == [requests[r] EXCEPT !.todo = @ \ keys, !.extra = @ \ keys]
  IN requests' = [requests EXCEPT ![r] =
       IF new.extra # {} THEN new
       ELSE IF new.pattern THEN [new EXCEPT !.pc = "scan"] ELSE NoTask]

Delete(r) ==
  /\ requests[r].pc = "delete"
  /\ \E i \in IF requests[r].item \in requests[r].todo
              THEN {requests[r].item} ELSE requests[r].extra :
       Drop({i}) /\ AfterDelete(r, {i})
  /\ UNCHANGED <<versions, crowded, used>>

\* delete_pattern of the redis backend reads one page of keys; memcached's raises, which
\* is logged, and the answer is given.
Scan(r, backend) ==
  /\ requests[r].pc = "scan"
  /\ LET matching == {i \in Items : cached[i].here} IN
     \/ /\ backend = "redis"
        /\ \E page \in SUBSET matching :
             /\ crowded \/ page = matching
             /\ requests' = [requests EXCEPT ![r].pc = "unlink", ![r].page = page]
             /\ missed' = missed \cup {i \in matching \ page : Stale(i)}
     \/ /\ backend = "memcached" /\ Finish(r)
        /\ missed' = missed \cup {i \in matching : Stale(i)}
  /\ UNCHANGED <<versions, cached, crowded, used>>

Unlink(r) ==
  /\ requests[r].pc = "unlink"
  /\ Drop(requests[r].page)
  /\ Finish(r)
  /\ UNCHANGED <<versions, crowded, used>>

(***************************************************************************)
(* Failures                                                                *)
(***************************************************************************)
\* What a request that ends here leaves undeleted.
Abandoned(r) ==
  IF requests[r].pc \in {"delete", "scan", "unlink"}
  THEN {i \in requests[r].todo : Stale(i)} ELSE {}

\* A command raises and so does the request.  A set may have taken effect all the
\* same; a deletion that has is like one that succeeds before the next one raises.
CacheFails(r) ==
  /\ requests[r].pc \in {"get", "set", "delete", "scan", "unlink"}
  /\ used.faults < MaxCacheFaults
  /\ used' = [used EXCEPT !.faults = @ + 1]
  /\ \/ missed' = missed \cup Abandoned(r) /\ UNCHANGED cached
     \/ Put(r)
  /\ Finish(r)
  /\ UNCHANGED <<versions, crowded>>

\* expiration, or the server restarts: the entry is gone.
Expire(i) ==
  /\ cached[i].here
  /\ cached' = [cached EXCEPT ![i] = Absent]
  /\ missed' = missed \ {i}
  /\ UNCHANGED <<versions, crowded, requests, used>>

\* The process of some requests dies, and they with it.
Die(p) ==
  LET dead == {r \in Requests : requests[r].process = p}
  IN /\ requests' = [r \in Requests |-> IF r \in dead THEN NoTask ELSE requests[r]]
     /\ missed' = missed \cup UNION {Abandoned(r) : r \in dead}
     /\ UNCHANGED <<versions, cached, crowded, used>>

(***************************************************************************)
(* Properties                                                              *)
(***************************************************************************)
\* A cached answer that is out of date is one that a writer is about to delete, one
\* that was written over while it was being computed, or one whose deletion failed,
\* was cut off by a crash, is not supported, or was beyond the page that was read.
\* The order of the endpoint and its deletions rules out all else (cache.inner).
StaleEntriesExplained ==
  \A i \in Items :
    Stale(i) =>
      \/ cached[i].raced
      \/ i \in missed
      \/ \E r \in Requests :
           requests[r].pc \in {"delete", "scan", "unlink"} /\ i \in requests[r].todo
====
