---- MODULE WebProcessProofs ----
(***************************************************************************)
(* Proofs about WebProcess and the response cache that its processes       *)
(* share, for any settings, resources, writers, requests and processes,    *)
(* and any number of failures, crashes and shutdowns.                      *)
(***************************************************************************)
EXTENDS WebProcess, FiniteSetTheorems, TLAPS

------------------------------------------------------------------------
(* The response cache.                                                    *)

\* Of a request with the variables k: a writer that has no pattern has only its own key
\* and the extra ones left to delete.
Fits(k) ==
  /\ k.pc # "idle" => k.process \in Processes
  /\ k.pc \in {"get", "read", "set"} => k.item \in Items
  /\ k.pc \in {"write", "delete"} /\ ~k.pattern => k.todo \subseteq {k.item} \cup k.extra

CacheTyped == CacheTypeOK /\ \A r \in Requests : Fits(requests[r])

\* The request with the variables k is about to delete the entry of i.
Deleting(k, i) ==
  i \in k.todo /\ (k.pc \in {"delete", "scan"} \/ (k.pc = "unlink" /\ i \in k.page))

\* StaleEntriesExplained, and more: once a page is read, a writer explains no entry that
\* is not on it.
Explained ==
  \A i \in Items :
    Stale(i) => \/ cached[i].raced \/ i \in missed
                \/ \E r \in Requests : Deleting(requests[r], i)

\* No process uses the cache: nothing is in it, and nothing is on its way there.
Cold ==
  /\ \A i \in Items : ~cached[i].here
  /\ \A r \in Requests : requests[r].pc \notin {"get", "read", "set"}

\* The request has new variables.
Turns(r, new) ==
  /\ new \in Tasks /\ Fits(new)
  /\ requests' = [requests EXCEPT ![r] = new]

\* The rest of the cache has its types.
RestTyped ==
  /\ versions' \in [Items -> Nat] /\ cached' \in [Items -> Entries]
  /\ crowded' \in BOOLEAN /\ missed' \subseteq Items
  /\ used' \in [requests : Nat, faults : Nat]

\* An entry that is stale after the step of a request is explained: by the way it was
\* written, by what the request has missed or has yet to delete, or as it was before.
Explains(r, new) ==
  \A i \in Items :
    Stale(i)' =>
      \/ cached'[i].raced \/ i \in missed' \/ Deleting(new, i)
      \/ /\ Stale(i) /\ ~Deleting(requests[r], i)
         /\ cached[i].raced => cached'[i].raced
         /\ i \in missed => i \in missed'

\* The variables of a request and the entry of a resource.
LEMMA CacheTypes ==
  ASSUME CacheTyped
  PROVE  /\ requests \in [Requests -> Tasks] /\ cached \in [Items -> Entries]
         /\ versions \in [Items -> Nat] /\ missed \subseteq Items
         /\ used \in [requests : Nat, faults : Nat] /\ crowded \in BOOLEAN
         /\ \A r \in Requests : requests[r] \in Tasks /\ Fits(requests[r])
BY DEF CacheTyped, CacheTypeOK

\* A step that explains its part keeps all entries explained.
LEMMA StaysExplained ==
  ASSUME CacheTyped, Explained, NEW r \in Requests, NEW new, Turns(r, new), Explains(r, new)
  PROVE  Explained'
<1> SUFFICES ASSUME NEW i \in Items, Stale(i)'
             PROVE  \/ cached'[i].raced \/ i \in missed'
                    \/ \E q \in Requests : Deleting(requests'[q], i)
  BY DEF Explained, Deleting
<1>1. requests'[r] = new /\ \A q \in Requests \ {r} : requests'[q] = requests[q]
  BY CacheTypes DEF Turns
<1>2. CASE Deleting(new, i)
  BY <1>1, <1>2
<1>3. CASE /\ Stale(i) /\ ~Deleting(requests[r], i)
           /\ cached[i].raced => cached'[i].raced
           /\ i \in missed => i \in missed'
  <2>1. CASE cached[i].raced \/ i \in missed
    BY <1>3, <2>1
  <2>2. ASSUME NEW q \in Requests, Deleting(requests[q], i)
        PROVE  Deleting(requests'[q], i)
    BY <1>1, <1>3, <2>2
  <2> QED BY <1>3, <2>1, <2>2 DEF Explained
<1> QED BY <1>2, <1>3 DEF Explains

\* A request that has ended.
LEMMA Idle == NoTask \in Tasks /\ Fits(NoTask) /\ \A i : ~Deleting(NoTask, i)
BY DEF NoTask, Tasks, Fits, Deleting

LEMMA BeginSteps ==
  ASSUME CacheTyped, NEW r \in Requests, NEW p \in Processes, NEW backend,
         \/ \E i \in Items : Get(r, p, i, backend)
         \/ \E w \in Writers : Write(r, p, w)
  PROVE  \E new : /\ Turns(r, new) /\ Explains(r, new) /\ RestTyped
                  /\ new.process = p /\ new.pc \in {"get", "write"}
                  /\ new.pc = "get" => backend # None
<1>1. /\ requests[r].pc = "idle" /\ UNCHANGED <<versions, cached, crowded, missed>>
      /\ used' = [used EXCEPT !.requests = @ + 1]
  BY DEF Get, Write, Begin
<1>0. RestTyped
  <2>1. used' \in [requests : Nat, faults : Nat]
    BY <1>1, CacheTypes
  <2> QED BY <1>1, <2>1, CacheTypes DEF RestTyped
<1>2. ASSUME NEW new, Turns(r, new) PROVE Explains(r, new)
  BY <1>1 DEF Explains, Stale, Deleting
<1>3. ASSUME NEW i \in Items, Get(r, p, i, backend)
      PROVE  \E new : /\ Turns(r, new) /\ new.process = p /\ new.pc = "get"
                      /\ backend # None
  <2> DEFINE new == [NoTask EXCEPT !.pc = "get", !.item = i, !.process = p]
  <2>1. /\ new \in Tasks /\ new.pc = "get" /\ new.item = i /\ new.process = p
        /\ new = [[NoTask EXCEPT !.pc = "get", !.item = i] EXCEPT !.process = p]
    BY DEF NoTask, Tasks
  <2>2. requests' = [requests EXCEPT ![r] = new] /\ backend # None
    BY <1>3, <2>1 DEF Get, Begin
  <2> HIDE DEF new
  <2> QED BY <2>1, <2>2 DEF Turns, Fits
<1>4. ASSUME NEW w \in Writers, Write(r, p, w)
      PROVE  \E new : Turns(r, new) /\ new.process = p /\ new.pc = "write"
  <2> DEFINE old == [NoTask EXCEPT !.pc = "write", !.item = w.item, !.todo = w.affects,
                                   !.extra = w.extra, !.pattern = w.pattern]
             new == [old EXCEPT !.process = p]
  <2>1. /\ w.item \in Items /\ w.affects \subseteq Items /\ w.extra \subseteq Items
        /\ w.pattern \in BOOLEAN
        /\ w.affects \subseteq IF w.pattern THEN Items ELSE {w.item} \cup w.extra
    BY CacheConstants DEF WriterTypes
  <2>2. /\ new \in Tasks /\ new.pc = "write" /\ new.item = w.item /\ new.process = p
        /\ new.todo = w.affects /\ new.extra = w.extra /\ new.pattern = w.pattern
    BY <2>1 DEF NoTask, Tasks
  <2>3. requests' = [requests EXCEPT ![r] = new]
    BY <1>4 DEF Write, Begin
  <2> HIDE DEF new
  <2> QED BY <2>1, <2>2, <2>3 DEF Turns, Fits
<1> QED BY <1>0, <1>2, <1>3, <1>4

\* A request that goes on, or ends, is one of the same process.
Same(r, new) ==
  /\ new.pc # "idle" => new.process = requests[r].process /\ requests[r].pc # "idle"
  /\ new.pc \in {"get", "read", "set"} => requests[r].pc \in {"get", "read", "set"}

\* What a step of a request in flight comes to.
Served(r) ==
  \E new : Turns(r, new) /\ Explains(r, new) /\ Same(r, new) /\ RestTyped

LEMMA ReadSteps ==
  ASSUME CacheTyped, NEW r \in Requests, LookUp(r) \/ RunGet(r)
  PROVE  Served(r) /\ UNCHANGED cached
<1>1. /\ requests[r].pc \in {"get", "read"} /\ UNCHANGED <<versions, cached, crowded, missed, used>>
      /\ requests[r] \in Tasks /\ Fits(requests[r]) /\ RestTyped
  BY CacheTypes DEF LookUp, RunGet, RestTyped
<1>2. ASSUME NEW new, Turns(r, new) PROVE Explains(r, new)
  BY <1>1 DEF Explains, Stale, Deleting
<1>3. CASE Finish(r)
  BY <1>1, <1>2, <1>3, Idle DEF Finish, Turns, Same, Served, NoTask
<1>4. CASE LookUp(r) /\ Goto(r, "read")
  <2> DEFINE new == [requests[r] EXCEPT !.pc = "read"]
  <2>1. /\ new \in Tasks /\ new.pc = "read" /\ new.item = requests[r].item
        /\ new.process = requests[r].process
    BY <1>1 DEF Tasks
  <2>2. requests' = [requests EXCEPT ![r] = new]
    BY <1>4, CacheTypes DEF Goto
  <2> HIDE DEF new
  <2>3. Turns(r, new) /\ Same(r, new)
    BY <1>1, <2>1, <2>2 DEF Turns, Fits, Same
  <2> QED BY <1>1, <1>2, <2>3 DEF Served
<1>5. CASE RunGet(r)
  <2> DEFINE new == [requests[r] EXCEPT !.pc = "set", !.version = versions[requests[r].item]]
  <2>1. requests[r].item \in Items /\ versions[requests[r].item] \in Nat
    BY <1>1, CacheTypes DEF Fits, RunGet
  <2>2. /\ new \in Tasks /\ new.pc = "set" /\ new.item = requests[r].item
        /\ new.process = requests[r].process
    BY <1>1, <2>1 DEF Tasks
  <2>3. requests' = [requests EXCEPT ![r] = new]
    BY <1>5, CacheTypes DEF RunGet
  <2> HIDE DEF new
  <2>4. Turns(r, new) /\ Same(r, new)
    BY <1>1, <2>2, <2>3 DEF Turns, Fits, Same
  <2> QED BY <1>1, <1>2, <2>4 DEF Served
<1> QED BY <1>1, <1>3, <1>4, <1>5 DEF LookUp

\* The request ends.
LEMMA Ends ==
  ASSUME CacheTyped, NEW r \in Requests, Finish(r), Explains(r, NoTask), RestTyped
  PROVE  Served(r)
<1>1. Turns(r, NoTask) /\ Same(r, NoTask)
  BY Idle DEF Finish, Turns, Same, NoTask
<1> QED BY <1>1 DEF Served

\* An answer that is stored is out of date only if it was written over meanwhile.
LEMMA PutStep ==
  ASSUME CacheTyped, NEW r \in Requests, Put(r), Finish(r), UNCHANGED <<versions, crowded>>,
         used' \in [requests : Nat, faults : Nat]
  PROVE  Served(r)
<1> DEFINE i == requests[r].item
           entry == [here |-> TRUE, version |-> requests[r].version,
                     raced |-> requests[r].version # versions[i]]
<1>1. /\ requests[r].pc = "set" /\ i \in Items /\ versions[i] \in Nat
      /\ requests[r].version \in Nat
  BY CacheTypes DEF Put, Fits, Tasks
<1>2. /\ entry \in Entries /\ entry.version = requests[r].version
      /\ entry.raced <=> requests[r].version # versions[i]
  BY <1>1 DEF Entries
<1>3. cached' = [cached EXCEPT ![i] = entry] /\ missed' = missed \ {i}
  BY DEF Put
<1> HIDE DEF entry
<1>4. RestTyped
  BY <1>2, <1>3, CacheTypes DEF RestTyped
<1>5. Explains(r, NoTask)
  <2> SUFFICES ASSUME NEW j \in Items, Stale(j)'
               PROVE  \/ cached'[j].raced
                      \/ /\ Stale(j) /\ ~Deleting(requests[r], j)
                         /\ cached[j].raced => cached'[j].raced
                         /\ j \in missed => j \in missed'
    BY DEF Explains
  <2>1. CASE j = i
    <3>1. cached'[i] = entry /\ versions' = versions
      BY <1>1, <1>3, CacheTypes
    <3> QED BY <1>1, <1>2, <2>1, <3>1 DEF Stale
  <2>2. CASE j # i
    BY <1>1, <1>3, <2>2, CacheTypes DEF Stale, Deleting
  <2> QED BY <2>1, <2>2
<1> QED BY <1>4, <1>5, Ends

\* A writer that commits has the keys of what it wrote to delete, or there is no cache.
LEMMA RunWriteStep ==
  ASSUME CacheTyped, NEW r \in Requests, NEW backend, RunWrite(r, backend),
         backend = None => Cold
  PROVE  Served(r) /\ UNCHANGED cached
<1>1. /\ requests[r].pc = "write" /\ UNCHANGED <<cached, crowded, missed, used>>
      /\ requests[r] \in Tasks /\ Fits(requests[r])
  BY CacheTypes DEF RunWrite
<1>2. RestTyped
  BY CacheTypes DEF RunWrite, RestTyped
<1>3. CASE UNCHANGED versions /\ Finish(r)
  BY <1>1, <1>2, <1>3, Ends DEF Explains, Stale, Deleting
<1>4. CASE backend = None /\ Finish(r)
  <2>1. Explains(r, NoTask)
    BY <1>1, <1>4 DEF Explains, Stale, Cold
  <2> QED BY <1>1, <1>2, <1>4, <2>1, Ends
<1>5. CASE /\ Goto(r, "delete")
           /\ versions' = [i \in Items |-> IF i \in requests[r].todo THEN versions[i] + 1 ELSE versions[i]]
  <2> DEFINE new == [requests[r] EXCEPT !.pc = "delete"]
  <2>1. /\ new \in Tasks /\ new.pc = "delete" /\ new.item = requests[r].item
        /\ new.process = requests[r].process /\ new.todo = requests[r].todo
        /\ new.extra = requests[r].extra /\ new.pattern = requests[r].pattern
    BY <1>1 DEF Tasks
  <2>2. requests' = [requests EXCEPT ![r] = new]
    BY <1>5, CacheTypes DEF Goto
  <2> HIDE DEF new
  <2>3. Turns(r, new) /\ Same(r, new)
    BY <1>1, <2>1, <2>2 DEF Turns, Fits, Same
  <2>4. Explains(r, new)
    BY <1>1, <1>5, <2>1 DEF Explains, Stale, Deleting
  <2> QED BY <1>1, <1>2, <2>3, <2>4 DEF Served
<1> QED BY <1>1, <1>3, <1>4, <1>5 DEF RunWrite

\* Entries that are dropped are not stale; those that are not are as before.
LEMMA Drops ==
  ASSUME CacheTyped, NEW keys \in SUBSET Items, Drop(keys), UNCHANGED <<versions, crowded, used>>
  PROVE  /\ RestTyped
         /\ \A i \in Items : ~cached'[i].here \/ (i \notin keys /\ cached'[i] = cached[i])
         /\ \A i \in Items : Stale(i)' =>
              /\ i \notin keys /\ Stale(i) /\ cached'[i] = cached[i]
              /\ i \in missed => i \in missed'
<1>1. Absent \in Entries /\ ~Absent.here
  BY DEF Absent, Entries
<1>2. /\ cached' = [i \in Items |-> IF i \in keys THEN Absent ELSE cached[i]]
      /\ missed' = missed \ keys
  BY DEF Drop
<1>3. RestTyped
  BY <1>1, <1>2, CacheTypes DEF RestTyped
<1>4. \A i \in Items : IF i \in keys THEN cached'[i] = Absent ELSE cached'[i] = cached[i]
  BY <1>2
<1> QED BY <1>1, <1>2, <1>3, <1>4 DEF Stale

\* One key is deleted; what the writer still has to delete, it will.
LEMMA DeleteStep ==
  ASSUME CacheTyped, NEW r \in Requests, Delete(r)
  PROVE  Served(r) /\ \A i \in Items : cached'[i].here => cached[i].here
<1> DEFINE k == requests[r]
<1>1. /\ k \in Tasks /\ Fits(k) /\ k.pc = "delete" /\ UNCHANGED <<versions, crowded, used>>
  BY CacheTypes DEF Delete
<1>2. PICK i \in IF k.item \in k.todo THEN {k.item} ELSE k.extra :
        Drop({i}) /\ AfterDelete(r, {i})
  BY DEF Delete
<1>3. i \in Items
  BY <1>1, <1>2 DEF Tasks
<1> DEFINE new == [k EXCEPT !.todo = @ \ {i}, !.extra = @ \ {i}]
<1>4. /\ new \in Tasks /\ new.pc = "delete" /\ new.item = k.item /\ new.process = k.process
      /\ new.todo = k.todo \ {i} /\ new.extra = k.extra \ {i} /\ new.pattern = k.pattern
  BY <1>1 DEF Tasks
<1> DEFINE last == [new EXCEPT !.pc = "scan"]
<1>5. /\ last \in Tasks /\ last.pc = "scan" /\ last.process = k.process
      /\ last.todo = k.todo \ {i}
  <2> HIDE DEF new
  <2> QED BY <1>4 DEF Tasks
<1>6. requests' = [requests EXCEPT ![r] =
         IF new.extra # {} THEN new ELSE IF new.pattern THEN last ELSE NoTask]
  BY <1>2 DEF AfterDelete
<1> HIDE DEF new, last
<1>7. /\ RestTyped
      /\ \A j \in Items : ~cached'[j].here \/ cached'[j] = cached[j]
      /\ \A j \in Items : Stale(j)' =>
           /\ j # i /\ Stale(j) /\ cached'[j] = cached[j] /\ (j \in missed => j \in missed')
  <2>1. {i} \in SUBSET Items
    BY <1>3
  <2> QED BY <1>1, <1>2, <2>1, Drops
<1>8. ~k.pattern => k.todo \subseteq {k.item} \cup k.extra
  BY <1>1 DEF Fits
<1>9. CASE new.extra # {}
  <2>1. Turns(r, new) /\ Same(r, new)
    BY <1>1, <1>2, <1>4, <1>6, <1>8, <1>9 DEF Turns, Fits, Same
  <2>2. Explains(r, new)
    BY <1>4, <1>7 DEF Explains, Deleting
  <2> QED BY <1>7, <2>1, <2>2 DEF Served
<1>10. CASE new.extra = {} /\ new.pattern
  <2>1. Turns(r, last) /\ Same(r, last)
    BY <1>1, <1>5, <1>6, <1>10 DEF Turns, Fits, Same
  <2>2. Explains(r, last)
    BY <1>5, <1>7 DEF Explains, Deleting
  <2> QED BY <1>7, <2>1, <2>2 DEF Served
<1>11. CASE new.extra = {} /\ ~new.pattern
  <2>1. k.todo \ {i} = {}
    BY <1>2, <1>4, <1>8, <1>11
  <2>2. Explains(r, NoTask)
    BY <1>7, <2>1 DEF Explains, Deleting
  <2>3. Finish(r)
    BY <1>6, <1>11 DEF Finish
  <2> QED BY <1>7, <2>2, <2>3, Ends
<1> QED BY <1>7, <1>9, <1>10, <1>11

\* A page of keys is read; what is stale and not on it is missed.
LEMMA ScanStep ==
  ASSUME CacheTyped, NEW r \in Requests, NEW backend, Scan(r, backend)
  PROVE  Served(r) /\ UNCHANGED cached
<1> DEFINE k == requests[r]
           matching == {i \in Items : cached[i].here}
<1>1. /\ k \in Tasks /\ Fits(k) /\ k.pc = "scan" /\ UNCHANGED <<versions, cached, crowded, used>>
  BY CacheTypes DEF Scan
<1>2. missed \subseteq missed' /\ missed' \subseteq Items
  BY CacheTypes DEF Scan
<1>3. RestTyped
  BY <1>1, <1>2, CacheTypes DEF RestTyped
<1>4. ASSUME NEW page \in SUBSET matching,
             requests' = [requests EXCEPT ![r].pc = "unlink", ![r].page = page],
             missed' = missed \cup {i \in matching \ page : Stale(i)}
      PROVE  Served(r)
  <2> DEFINE new == [k EXCEPT !.pc = "unlink", !.page = page]
  <2>1. /\ new \in Tasks /\ new.pc = "unlink" /\ new.process = k.process
        /\ new.todo = k.todo /\ new.page = page
    BY <1>1 DEF Tasks
  <2>2. requests' = [requests EXCEPT ![r] = new]
    BY <1>4, CacheTypes
  <2> HIDE DEF new
  <2>3. Turns(r, new) /\ Same(r, new)
    BY <1>1, <2>1, <2>2 DEF Turns, Fits, Same
  <2>4. Explains(r, new)
    BY <1>1, <1>2, <1>4, <2>1 DEF Explains, Deleting, Stale
  <2> QED BY <1>3, <2>3, <2>4 DEF Served
<1>5. CASE Finish(r) /\ missed' = missed \cup {i \in matching : Stale(i)}
  <2>1. Explains(r, NoTask)
    BY <1>1, <1>5 DEF Explains, Stale
  <2> QED BY <1>1, <1>3, <1>5, <2>1, Ends
<1> QED BY <1>1, <1>4, <1>5 DEF Scan

LEMMA UnlinkStep ==
  ASSUME CacheTyped, NEW r \in Requests, Unlink(r)
  PROVE  Served(r) /\ \A i \in Items : cached'[i].here => cached[i].here
<1>1. /\ requests[r] \in Tasks /\ requests[r].pc = "unlink" /\ Finish(r)
      /\ Drop(requests[r].page) /\ UNCHANGED <<versions, crowded, used>>
  BY CacheTypes DEF Unlink
<1>2. requests[r].page \in SUBSET Items
  BY <1>1 DEF Tasks
<1>3. /\ RestTyped
      /\ \A i \in Items : ~cached'[i].here \/ cached'[i] = cached[i]
      /\ \A i \in Items : Stale(i)' =>
           /\ i \notin requests[r].page /\ Stale(i) /\ cached'[i] = cached[i]
           /\ i \in missed => i \in missed'
  BY <1>1, <1>2, Drops
<1>4. Explains(r, NoTask)
  BY <1>1, <1>3 DEF Explains, Deleting
<1> QED BY <1>1, <1>3, <1>4, Ends

\* A request that a command fails in has missed what it had yet to delete.
LEMMA AbandonStep ==
  ASSUME CacheTyped, NEW r \in Requests, missed' = missed \cup Abandoned(r),
         UNCHANGED <<versions, cached>>
  PROVE  Explains(r, NoTask) /\ missed' \subseteq Items
<1>1. Abandoned(r) \subseteq Items
  BY CacheTypes DEF Abandoned, Tasks
<1>2. \A i \in Items : Stale(i)' => Stale(i)
  BY DEF Stale
<1>3. \A i \in Items : Stale(i) /\ Deleting(requests[r], i) => i \in Abandoned(r)
  BY DEF Abandoned, Deleting
<1> QED BY <1>1, <1>2, <1>3, CacheTypes DEF Explains

LEMMA CacheFailsStep ==
  ASSUME CacheTyped, NEW r \in Requests, CacheFails(r)
  PROVE  /\ Served(r)
         /\ requests[r].pc # "set" => UNCHANGED cached
<1>1. /\ Finish(r) /\ UNCHANGED <<versions, crowded>> /\ used \in [requests : Nat, faults : Nat]
      /\ used' = [used EXCEPT !.faults = @ + 1]
  BY CacheTypes DEF CacheFails
<1>2. used' \in [requests : Nat, faults : Nat]
  BY <1>1
<1>3. CASE missed' = missed \cup Abandoned(r) /\ UNCHANGED cached
  <2>1. Explains(r, NoTask) /\ missed' \subseteq Items
    BY <1>1, <1>3, AbandonStep
  <2>2. RestTyped
    BY <1>1, <1>2, <1>3, <2>1, CacheTypes DEF RestTyped
  <2> QED BY <1>1, <1>3, <2>1, <2>2, Ends
<1>4. CASE Put(r)
  BY <1>1, <1>2, <1>4, PutStep DEF Put
<1> QED BY <1>3, <1>4 DEF CacheFails

LEMMA StoreStep ==
  ASSUME CacheTyped, NEW r \in Requests, Store(r)
  PROVE  Served(r)
BY PutStep, CacheTypes DEF Store

------------------------------------------------------------------------
(* The steps of the cache keep what is true of it.                        *)

CacheSound == CacheTyped /\ Explained

\* Of a step of one request.
LEMMA TurnKeepsCache ==
  ASSUME CacheSound, NEW r \in Requests, NEW new, Turns(r, new), Explains(r, new), RestTyped
  PROVE  /\ CacheSound' /\ requests'[r] = new
         /\ \A q \in Requests \ {r} : requests'[q] = requests[q]
<1>1. /\ requests' \in [Requests -> Tasks] /\ requests'[r] = new
      /\ \A q \in Requests \ {r} : requests'[q] = requests[q]
  BY CacheTypes DEF CacheSound, Turns
<1>2. CacheTypeOK'
  BY <1>1 DEF CacheTypeOK, RestTyped
<1>3. CacheTyped'
  BY <1>1, <1>2, CacheTypes DEF CacheTyped, CacheSound, Turns, Fits
<1> QED BY <1>1, <1>3, StaysExplained DEF CacheSound

LEMMA ExpireKeepsCache ==
  ASSUME CacheSound, NEW i \in Items, Expire(i)
  PROVE  CacheSound' /\ UNCHANGED requests /\ cached[i].here
         /\ \A j \in Items : cached'[j].here => cached[j].here
<1>1. Absent \in Entries /\ ~Absent.here
  BY DEF Absent, Entries
<1>2. /\ cached' = [cached EXCEPT ![i] = Absent] /\ missed' = missed \ {i}
      /\ UNCHANGED <<versions, crowded, requests, used>> /\ cached[i].here
  BY DEF Expire
<1>3. CacheTyped'
  BY <1>1, <1>2, CacheTypes DEF CacheTyped, CacheTypeOK, CacheSound
<1>4. ~cached'[i].here /\ \A j \in Items \ {i} : cached'[j] = cached[j]
  BY <1>1, <1>2, CacheTypes DEF CacheSound
<1>5. Explained'
  <2> SUFFICES ASSUME NEW j \in Items, Stale(j)'
               PROVE  \/ cached'[j].raced \/ j \in missed'
                      \/ \E q \in Requests : Deleting(requests'[q], j)
    BY DEF Explained, Deleting
  <2>1. j # i /\ Stale(j) /\ cached'[j] = cached[j] /\ (j \in missed => j \in missed')
    BY <1>2, <1>4 DEF Stale
  <2> QED BY <1>2, <2>1 DEF CacheSound, Explained
<1> QED BY <1>2, <1>3, <1>4, <1>5 DEF CacheSound

\* The requests of a process that dies leave undeleted what they had to delete.
LEMMA DieKeepsCache ==
  ASSUME CacheSound, NEW p \in Processes, Die(p)
  PROVE  /\ CacheSound' /\ UNCHANGED <<versions, cached>>
         /\ \A r \in Requests : \/ requests'[r].pc = "idle"
                                \/ requests'[r] = requests[r] /\ requests[r].process # p
<1> DEFINE dead == {r \in Requests : requests[r].process = p}
<1>1. /\ requests' = [r \in Requests |-> IF r \in dead THEN NoTask ELSE requests[r]]
      /\ missed' = missed \cup UNION {Abandoned(r) : r \in dead}
      /\ UNCHANGED <<versions, cached, crowded, used>>
  BY DEF Die
<1>2. \A r \in Requests : IF r \in dead THEN requests'[r] = NoTask ELSE requests'[r] = requests[r]
  BY <1>1
<1>3. \A r \in Requests : Abandoned(r) \subseteq Items
  BY CacheTypes DEF CacheSound, Abandoned, Tasks
<1>4. CacheTyped'
  <2>1. missed' \subseteq Items
    BY <1>1, <1>3, CacheTypes DEF CacheSound
  <2>2. requests' \in [Requests -> Tasks]
    BY <1>1, Idle, CacheTypes DEF CacheSound
  <2>3. \A r \in Requests : Fits(requests'[r])
    BY <1>2, Idle, CacheTypes DEF CacheSound
  <2> QED BY <1>1, <2>1, <2>2, <2>3, CacheTypes DEF CacheTyped, CacheTypeOK, CacheSound
<1>5. Explained'
  <2> SUFFICES ASSUME NEW i \in Items, Stale(i)'
               PROVE  \/ cached'[i].raced \/ i \in missed'
                      \/ \E q \in Requests : Deleting(requests'[q], i)
    BY DEF Explained, Deleting
  <2>1. Stale(i) /\ cached'[i] = cached[i] /\ (i \in missed => i \in missed')
    BY <1>1 DEF Stale
  <2>2. ASSUME NEW q \in Requests, Deleting(requests[q], i)
        PROVE  i \in missed' \/ Deleting(requests'[q], i)
    <3>1. CASE q \in dead
      <4>1. i \in Abandoned(q)
        BY <2>1, <2>2 DEF Abandoned, Deleting
      <4> QED BY <1>1, <3>1, <4>1
    <3>2. CASE q \notin dead
      BY <1>2, <2>2, <3>2
    <3> QED BY <3>1, <3>2
  <2> QED BY <2>1, <2>2 DEF CacheSound, Explained
<1>6. NoTask.pc = "idle"
  BY DEF NoTask
<1>7. \A r \in Requests : \/ requests'[r].pc = "idle"
                          \/ requests'[r] = requests[r] /\ requests[r].process # p
  <2> SUFFICES ASSUME NEW r \in Requests
               PROVE  \/ requests'[r].pc = "idle"
                      \/ requests'[r] = requests[r] /\ requests[r].process # p
    OBVIOUS
  <2>1. CASE requests[r].process = p
    <3>1. requests'[r] = NoTask
      BY <1>2, <2>1
    <3> QED BY <1>6, <3>1
  <2>2. CASE requests[r].process # p
    BY <1>2, <2>2
  <2> QED BY <2>1, <2>2
<1>8. CacheSound'
  BY <1>4, <1>5 DEF CacheSound
<1> QED BY <1>1, <1>7, <1>8

------------------------------------------------------------------------
(* The processes.                                                         *)

\* Of a process with the variables k: it goes into its lifespan with settings that were
\* not refused, has only the clients that the settings name, and has closed those that
\* come before its step.
Ready(k) ==
  /\ k.pc \notin {"start", "ended"} => k.warned = Logged(settings) /\ ~Refused(settings)
  /\ k.pc = "start" => k.cache = "none" /\ k.limiter = "none" /\ k.broker = "none"
  /\ k.cache # "none" => UsesCache
  /\ k.limiter # "none" => UsesLimiter
  /\ k.pc \in {"limiter", "broker", "serving"} /\ UsesCache => k.cache # "none"
  /\ k.pc \in {"close_cache", "close_limiter"} => k.broker # "open"
  /\ k.pc = "close_limiter" => k.cache # "open"
  /\ k.pc = "ended" /\ ~k.masked =>
       k.cache # "open" /\ k.limiter # "open" /\ k.broker # "open"

ProcessesTyped ==
  /\ settings \in Configurations /\ tables \in BOOLEAN
  /\ proc \in [Processes -> Processors] /\ spent \in [faults : Nat, stops : Nat]
  /\ \A p \in Processes : Ready(proc[p])

\* A request is one of a process that serves.
InService ==
  \A r \in Requests : requests[r].pc # "idle" => proc[requests[r].process].pc = "serving"

\* Without a cache, or with settings that are refused, nothing gets into it.
Unused == ~UsesCache \/ Refused(settings) => Cold

Sound == CacheSound /\ ProcessesTyped /\ InService /\ Unused

\* The process goes on, and no request of it is in flight if it stops serving.
Runs(p, new) ==
  /\ new \in Processors /\ Ready(new)
  /\ proc' = [proc EXCEPT ![p] = new]
  /\ UNCHANGED <<settings, cacheVars>>
  /\ tables' \in BOOLEAN /\ (tables' # tables => proc[p].pc \notin {"start", "ended"})
  /\ spent' \in [faults : Nat, stops : Nat]
  /\ \/ proc[p].pc # "serving" \/ new.pc = "serving"
     \/ \A r \in Requests : requests[r].process # p

\* The variables of a process.
LEMMA ProcessTypes ==
  ASSUME ProcessesTyped, NEW p \in Processes
  PROVE  /\ proc[p] \in Processors /\ Ready(proc[p])
         /\ proc \in [Processes -> Processors]
         /\ tables \in BOOLEAN /\ spent \in [faults : Nat, stops : Nat]
BY DEF ProcessesTyped

\* A process that goes to another step and changes nothing else.
LEMMA Goes ==
  ASSUME ProcessesTyped, NEW p \in Processes, NEW step \in Steps, To(p, step),
         Ready([proc[p] EXCEPT !.pc = step]), UNCHANGED <<settings, cacheVars>>,
         tables' \in BOOLEAN, tables' # tables => proc[p].pc \notin {"start", "ended"},
         spent' \in [faults : Nat, stops : Nat],
         proc[p].pc # "serving" \/ \A r \in Requests : requests[r].process # p
  PROVE  \E new : Runs(p, new)
<1> DEFINE new == [proc[p] EXCEPT !.pc = step]
<1>1. new \in Processors
  BY ProcessTypes DEF Processors
<1>2. proc' = [proc EXCEPT ![p] = new]
  BY ProcessTypes DEF To
<1>3. Ready(new)
  OBVIOUS
<1> HIDE DEF new
<1> QED BY <1>1, <1>2, <1>3 DEF Runs

\* The record of a process with another step.
LEMMA Stepped ==
  ASSUME ProcessesTyped, NEW p \in Processes, NEW step
  PROVE  LET new == [proc[p] EXCEPT !.pc = step]
         IN /\ new.pc = step /\ new.cache = proc[p].cache /\ new.limiter = proc[p].limiter
            /\ new.broker = proc[p].broker /\ new.warned = proc[p].warned
            /\ new.masked = proc[p].masked /\ new.missing = proc[p].missing
BY ProcessTypes DEF Processors

\* The steps of a process are what they are called.
LEMMA StepNames ==
  {"start", "check_tables", "create_tables", "cache", "limiter", "broker",
   "serving", "close_broker", "close_cache", "close_limiter", "ended"} \subseteq Steps
BY DEF Steps

LEMMA LoggedAreWarnings == Logged(settings) \subseteq Warnings(settings)
BY DEF Logged

LEMMA ValidateRuns ==
  ASSUME ProcessesTyped, NEW p \in Processes, Validate(p)
  PROVE  \E new : Runs(p, new)
<1> DEFINE step == IF Refused(settings) THEN "ended" ELSE "check_tables"
           new == [proc[p] EXCEPT !.pc = step, !.warned = Logged(settings)]
<1>1. step \in Steps
  BY StepNames
<1>2. /\ new \in Processors /\ new.pc = step /\ new.warned = Logged(settings)
      /\ new.cache = proc[p].cache /\ new.limiter = proc[p].limiter
      /\ new.broker = proc[p].broker
  <2> HIDE DEF step
  <2> QED BY <1>1, ProcessTypes, LoggedAreWarnings DEF Processors
<1>3. /\ proc' = [proc EXCEPT ![p] = new] /\ proc[p].pc = "start"
      /\ UNCHANGED <<settings, tables, spent, cacheVars>>
  BY ProcessTypes DEF Validate
<1> HIDE DEF new
<1>4. Ready(new)
  BY <1>2, <1>3, ProcessTypes DEF Ready
<1> QED BY <1>2, <1>3, <1>4, ProcessTypes DEF Runs

LEMMA TablesRun ==
  ASSUME ProcessesTyped, NEW p \in Processes, CheckTables(p) \/ CreateTables(p)
  PROVE  \E new : Runs(p, new)
<1>1. CASE CheckTables(p)
  <2> DEFINE new == [proc[p] EXCEPT !.pc = "create_tables", !.missing = ~tables]
  <2>1. /\ new \in Processors /\ new.pc = "create_tables" /\ new.warned = proc[p].warned
        /\ new.cache = proc[p].cache /\ new.limiter = proc[p].limiter
    BY StepNames, ProcessTypes DEF Processors
  <2>2. /\ proc' = [proc EXCEPT ![p] = new] /\ proc[p].pc = "check_tables"
        /\ UNCHANGED <<settings, tables, spent, cacheVars>>
    BY <1>1, ProcessTypes DEF CheckTables
  <2> HIDE DEF new
  <2>3. Ready(new)
    BY <2>1, <2>2, ProcessTypes DEF Ready
  <2> QED BY <2>1, <2>2, <2>3, ProcessTypes DEF Runs
<1>2. CASE CreateTables(p)
  <2>1. /\ proc[p].pc = "create_tables" /\ Ready(proc[p]) /\ tables' \in BOOLEAN
        /\ UNCHANGED <<settings, spent, cacheVars>>
    BY <1>2, ProcessTypes DEF CreateTables
  <2>2. PICK step \in {"close_broker", "cache"} : To(p, step)
    BY <1>2 DEF CreateTables
  <2>3. Ready([proc[p] EXCEPT !.pc = step])
    BY <2>1, Stepped DEF Ready
  <2> QED BY <2>1, <2>2, <2>3, StepNames, Goes, ProcessTypes
<1> QED BY <1>1, <1>2

LEMMA ClientsRun ==
  ASSUME ProcessesTyped, NEW p \in Processes,
         InitializeCache(p) \/ InitializeLimiter(p) \/ StartBroker(p)
  PROVE  \E new : Runs(p, new)
<1>1. CASE InitializeCache(p)
  <2> DEFINE client == IF UsesCache THEN "open" ELSE "none"
             new == [proc[p] EXCEPT !.pc = "limiter", !.cache = client]
  <2>1. client \in Clients
    BY DEF Clients
  <2>2. /\ new \in Processors /\ new.pc = "limiter" /\ new.warned = proc[p].warned
        /\ new.cache = client /\ new.limiter = proc[p].limiter
    <3> HIDE DEF client
    <3> QED BY <2>1, StepNames, ProcessTypes DEF Processors
  <2>3. /\ proc' = [proc EXCEPT ![p] = new] /\ proc[p].pc = "cache"
        /\ UNCHANGED <<settings, tables, spent, cacheVars>>
    BY <1>1, ProcessTypes DEF InitializeCache
  <2> HIDE DEF new
  <2>4. Ready(new)
    BY <2>2, <2>3, ProcessTypes DEF Ready
  <2> QED BY <2>2, <2>3, <2>4, ProcessTypes DEF Runs
<1>2. CASE InitializeLimiter(p)
  <2> DEFINE client == IF UsesLimiter THEN "open" ELSE "none"
             new == [proc[p] EXCEPT !.pc = "broker", !.limiter = client]
  <2>1. client \in Clients
    BY DEF Clients
  <2>2. /\ new \in Processors /\ new.pc = "broker" /\ new.warned = proc[p].warned
        /\ new.cache = proc[p].cache /\ new.limiter = client
    <3> HIDE DEF client
    <3> QED BY <2>1, StepNames, ProcessTypes DEF Processors
  <2>3. /\ proc' = [proc EXCEPT ![p] = new] /\ proc[p].pc = "limiter"
        /\ UNCHANGED <<settings, tables, spent, cacheVars>>
    BY <1>2, ProcessTypes DEF InitializeLimiter
  <2> HIDE DEF new
  <2>4. Ready(new)
    BY <2>2, <2>3, ProcessTypes DEF Ready
  <2> QED BY <2>2, <2>3, <2>4, ProcessTypes DEF Runs
<1>3. CASE StartBroker(p)
  <2> DEFINE new == [proc[p] EXCEPT !.pc = "serving", !.broker = "open"]
  <2>1. "open" \in Clients
    BY DEF Clients
  <2>2. /\ new \in Processors /\ new.pc = "serving" /\ new.warned = proc[p].warned
        /\ new.cache = proc[p].cache /\ new.limiter = proc[p].limiter
    BY <2>1, StepNames, ProcessTypes DEF Processors
  <2>3. /\ proc' = [proc EXCEPT ![p] = new] /\ proc[p].pc = "broker"
        /\ UNCHANGED <<settings, tables, spent, cacheVars>>
    BY <1>3, ProcessTypes DEF StartBroker
  <2> HIDE DEF new
  <2>4. Ready(new)
    BY <2>2, <2>3, ProcessTypes DEF Ready
  <2> QED BY <2>2, <2>3, <2>4, ProcessTypes DEF Runs
<1> QED BY <1>1, <1>2, <1>3

\* The supervisor starts the process again.
LEMMA RestartRuns ==
  ASSUME ProcessesTyped, NEW p \in Processes, Restart(p)
  PROVE  \E new : Runs(p, new)
<1>1. /\ NoProcess \in Processors /\ Ready(NoProcess)
  BY StepNames DEF NoProcess, Processors, Ready, Clients
<1> QED BY <1>1, ProcessTypes DEF Restart, Runs

LEMMA CloseBrokerRuns ==
  ASSUME ProcessesTyped, NEW p \in Processes, CloseBroker(p)
  PROVE  \E new : Runs(p, new)
<1> DEFINE new == [proc[p] EXCEPT !.pc = "close_cache", !.broker = "closed"]
<1>1. "closed" \in Clients
  BY DEF Clients
<1>2. /\ new \in Processors /\ new.pc = "close_cache" /\ new.warned = proc[p].warned
      /\ new.cache = proc[p].cache /\ new.limiter = proc[p].limiter /\ new.broker = "closed"
  BY <1>1, StepNames, ProcessTypes DEF Processors
<1>3. /\ proc' = [proc EXCEPT ![p] = new] /\ proc[p].pc = "close_broker"
      /\ UNCHANGED <<settings, tables, spent, cacheVars>>
  BY ProcessTypes DEF CloseBroker
<1> HIDE DEF new
<1>4. Ready(new)
  BY <1>2, <1>3, ProcessTypes DEF Ready
<1> QED BY <1>2, <1>3, <1>4, ProcessTypes DEF Runs

\* The two clients are closed in the order in which they were opened.
LEMMA CloseRuns ==
  ASSUME ProcessesTyped, NEW p \in Processes, CloseCache(p) \/ CloseLimiter(p)
  PROVE  \E new : Runs(p, new)
<1>1. CASE CloseCache(p)
  <2> DEFINE masked == [proc[p] EXCEPT !.pc = "ended", !.masked = TRUE]
             on == [proc[p] EXCEPT !.pc = "close_limiter"]
             closed == [proc[p] EXCEPT !.pc = "close_limiter", !["cache"] = "closed"]
             new == IF ~UsesCache THEN on ELSE IF proc[p].cache = "none" THEN masked ELSE closed
  <2>1. /\ proc' = [proc EXCEPT ![p] = new] /\ proc[p].pc = "close_cache"
        /\ UNCHANGED <<settings, tables, spent, cacheVars>>
    BY <1>1, ProcessTypes DEF CloseCache, Close
  <2>2. /\ masked \in Processors /\ masked.pc = "ended" /\ masked.masked
        /\ masked.cache = proc[p].cache /\ masked.limiter = proc[p].limiter
    BY StepNames, ProcessTypes DEF Processors
  <2>3. /\ on \in Processors /\ on.pc = "close_limiter" /\ on.cache = proc[p].cache
        /\ on.limiter = proc[p].limiter /\ on.broker = proc[p].broker
        /\ on.warned = proc[p].warned
    BY StepNames, ProcessTypes DEF Processors
  <2>4. /\ closed \in Processors /\ closed.pc = "close_limiter" /\ closed.cache = "closed"
        /\ closed.limiter = proc[p].limiter /\ closed.broker = proc[p].broker
        /\ closed.warned = proc[p].warned
    BY StepNames, ProcessTypes DEF Processors, Clients
  <2> HIDE DEF masked, on, closed
  <2>5. new \in Processors
    BY <2>2, <2>3, <2>4
  <2>6. Ready(new)
    BY <2>1, <2>2, <2>3, <2>4, ProcessTypes DEF Ready
  <2> HIDE DEF new
  <2> QED BY <2>1, <2>5, <2>6, ProcessTypes DEF Runs
<1>2. CASE CloseLimiter(p)
  <2> DEFINE masked == [proc[p] EXCEPT !.pc = "ended", !.masked = TRUE]
             on == [proc[p] EXCEPT !.pc = "ended"]
             closed == [proc[p] EXCEPT !.pc = "ended", !["limiter"] = "closed"]
             new == IF ~UsesLimiter THEN on ELSE IF proc[p].limiter = "none" THEN masked ELSE closed
  <2>1. /\ proc' = [proc EXCEPT ![p] = new] /\ proc[p].pc = "close_limiter"
        /\ UNCHANGED <<settings, tables, spent, cacheVars>>
    BY <1>2, ProcessTypes DEF CloseLimiter, Close
  <2>2. /\ masked \in Processors /\ masked.pc = "ended" /\ masked.masked
        /\ masked.cache = proc[p].cache /\ masked.limiter = proc[p].limiter
    BY StepNames, ProcessTypes DEF Processors
  <2>3. /\ on \in Processors /\ on.pc = "ended" /\ on.cache = proc[p].cache
        /\ on.limiter = proc[p].limiter /\ on.broker = proc[p].broker
    BY StepNames, ProcessTypes DEF Processors
  <2>4. /\ closed \in Processors /\ closed.pc = "ended" /\ closed.cache = proc[p].cache
        /\ closed.limiter = "closed" /\ closed.broker = proc[p].broker
    BY StepNames, ProcessTypes DEF Processors, Clients
  <2> HIDE DEF masked, on, closed
  <2>5. new \in Processors
    BY <2>2, <2>3, <2>4
  <2>6. Ready(new)
    BY <2>1, <2>2, <2>3, <2>4, ProcessTypes DEF Ready
  <2> HIDE DEF new
  <2> QED BY <2>1, <2>5, <2>6, ProcessTypes DEF Runs
<1> QED BY <1>1, <1>2

\* A bounded number of failures.
LEMMA FaultTyped ==
  ASSUME ProcessesTyped, Fault
  PROVE  spent' \in [faults : Nat, stops : Nat]
BY DEF ProcessesTyped, Fault

LEMMA FailuresRun ==
  ASSUME ProcessesTyped, NEW p \in Processes, StartFails(p) \/ Stop(p) \/ StopFails(p)
  PROVE  \E new : Runs(p, new)
<1>1. CASE StartFails(p)
  <2>1. Ready([proc[p] EXCEPT !.pc = "close_broker"])
    BY <1>1, Stepped, ProcessTypes DEF StartFails, Ready
  <2> QED BY <1>1, <2>1, StepNames, Goes, FaultTyped, ProcessTypes DEF StartFails
<1>2. CASE Stop(p)
  <2>1. Ready([proc[p] EXCEPT !.pc = "close_broker"])
    BY <1>2, Stepped, ProcessTypes DEF Stop, Ready
  <2>2. spent' \in [faults : Nat, stops : Nat]
    BY <1>2, ProcessTypes DEF Stop
  <2> QED BY <1>2, <2>1, <2>2, StepNames, Goes, ProcessTypes DEF Stop
<1>3. CASE StopFails(p)
  <2> DEFINE new == [proc[p] EXCEPT !.pc = "ended", !.masked = TRUE]
  <2>1. /\ new \in Processors /\ new.pc = "ended" /\ new.masked
        /\ new.cache = proc[p].cache /\ new.limiter = proc[p].limiter
    BY StepNames, ProcessTypes DEF Processors
  <2>2. /\ proc' = [proc EXCEPT ![p] = new] /\ proc[p].pc # "serving"
        /\ UNCHANGED <<settings, tables, cacheVars>>
    BY <1>3, ProcessTypes DEF StopFails
  <2> HIDE DEF new
  <2>3. Ready(new)
    BY <2>1, <2>2, ProcessTypes DEF Ready
  <2> QED BY <1>3, <2>1, <2>2, <2>3, FaultTyped, ProcessTypes DEF Runs, StopFails
<1> QED BY <1>1, <1>2, <1>3

LEMMA ProcessRuns ==
  ASSUME ProcessesTyped, NEW p \in Processes,
         Proceed(p) \/ StartFails(p) \/ Stop(p) \/ StopFails(p)
  PROVE  \E new : Runs(p, new)
BY ValidateRuns, TablesRun, ClientsRun, CloseBrokerRuns, CloseRuns, RestartRuns, FailuresRun
   DEF Proceed

------------------------------------------------------------------------
(* Every step keeps what is true of the processes and of the cache.       *)

\* Settings that stay the same say the same.
LEMMA SameSettings ==
  ASSUME UNCHANGED settings
  PROVE  /\ UsesCache' = UsesCache /\ UsesLimiter' = UsesLimiter
         /\ Refused(settings') = Refused(settings) /\ Logged(settings') = Logged(settings)
         /\ Processors' = Processors
         /\ \A k : Ready(k)' <=> Ready(k)
BY DEF UsesCache, UsesLimiter, Processors, Ready

\* A process that goes on.
LEMMA RunKeepsSound ==
  ASSUME Sound, NEW p \in Processes, NEW new, Runs(p, new)
  PROVE  Sound'
<1>1. /\ settings' = settings /\ UNCHANGED cacheVars
      /\ proc'[p] = new /\ \A q \in Processes \ {p} : proc'[q] = proc[q]
      /\ proc' \in [Processes -> Processors]
  BY ProcessTypes DEF Runs, Sound
<1>2. CacheSound'
  BY <1>1 DEF Sound, CacheSound, CacheTyped, CacheTypeOK, Explained, Stale, cacheVars
<1>3. ProcessesTyped'
  BY <1>1, SameSettings DEF Sound, ProcessesTyped, Runs
<1>4. InService'
  <2> SUFFICES ASSUME NEW r \in Requests, requests'[r].pc # "idle"
               PROVE  proc'[requests'[r].process].pc = "serving"
    BY DEF InService
  <2>1. /\ requests'[r] = requests[r] /\ requests[r].pc # "idle"
        /\ requests[r].process \in Processes /\ proc[requests[r].process].pc = "serving"
    BY <1>1, CacheTypes DEF cacheVars, Sound, InService, Fits, CacheSound
  <2> QED BY <1>1, <2>1 DEF Runs
<1>5. Unused'
  BY <1>1, SameSettings DEF Sound, Unused, Cold, cacheVars
<1> QED BY <1>2, <1>3, <1>4, <1>5 DEF Sound

\* A crash.
LEMMA CrashKeepsSound ==
  ASSUME Sound, NEW p \in Processes, Crash(p)
  PROVE  Sound' /\ UNCHANGED <<settings, tables, versions, cached>>
<1> DEFINE new == [NoProcess EXCEPT !.pc = "ended"]
<1>1. /\ new \in Processors /\ new.pc = "ended" /\ new.cache = "none"
      /\ new.limiter = "none" /\ new.broker = "none"
  BY StepNames DEF NoProcess, Processors, Clients
<1>2. /\ proc' = [proc EXCEPT ![p] = new] /\ UNCHANGED <<settings, tables>>
      /\ spent' \in [faults : Nat, stops : Nat] /\ Die(p)
  BY FaultTyped DEF Crash, Sound
<1> HIDE DEF new
<1>3. /\ proc'[p] = new /\ \A q \in Processes \ {p} : proc'[q] = proc[q]
      /\ proc' \in [Processes -> Processors]
  BY <1>1, <1>2, ProcessTypes DEF Sound
<1>4. /\ CacheSound' /\ UNCHANGED <<versions, cached>>
      /\ \A r \in Requests : \/ requests'[r].pc = "idle"
                             \/ requests'[r] = requests[r] /\ requests[r].process # p
  BY <1>2, DieKeepsCache DEF Sound
<1>5. ProcessesTyped'
  <2>1. Ready(new)
    BY <1>1 DEF Ready
  <2> QED BY <1>1, <1>2, <1>3, <2>1, SameSettings DEF Sound, ProcessesTyped
<1>6. InService'
  <2> SUFFICES ASSUME NEW r \in Requests, requests'[r].pc # "idle"
               PROVE  proc'[requests'[r].process].pc = "serving"
    BY DEF InService
  <2>1. /\ requests'[r] = requests[r] /\ requests[r].pc # "idle"
        /\ requests[r].process \in Processes \ {p}
        /\ proc[requests[r].process].pc = "serving"
    BY <1>4, CacheTypes DEF Sound, InService, Fits, CacheSound
  <2> QED BY <1>3, <2>1
<1>7. Unused'
  <2>1. ASSUME Cold PROVE Cold'
    BY <1>4, <2>1 DEF Cold
  <2> QED BY <1>2, <2>1, SameSettings DEF Sound, Unused
<1> QED BY <1>2, <1>4, <1>5, <1>6, <1>7 DEF Sound

\* A process that serves has a backend only if the settings name one, and is
\* not refused.
LEMMA Backends ==
  ASSUME Sound, NEW p \in Processes, proc[p].pc = "serving"
  PROVE  /\ ~Refused(settings)
         /\ Backend(p) # None <=> UsesCache
<1>1. Ready(proc[p]) /\ ~Refused(settings)
  BY ProcessTypes DEF Sound, Ready
<1>2. UsesCache => settings.cache.backend \in {"redis", "memcached"}
  BY DEF UsesCache, Known
<1>3. None \notin {"redis", "memcached"}
  BY CacheConstants
<1>4. proc[p].cache # "none" <=> UsesCache
  BY <1>1 DEF Ready
<1> QED BY <1>1, <1>2, <1>3, <1>4 DEF Backend

\* A step of a request that is one of a process that serves, and that puts something
\* into the cache only if the settings name one.
LEMMA TurnKeepsSound ==
  ASSUME Sound, NEW r \in Requests, NEW new, Turns(r, new), Explains(r, new), RestTyped,
         UNCHANGED webVars,
         new.pc # "idle" => proc[new.process].pc = "serving",
         ~UsesCache \/ Refused(settings) =>
           new.pc \notin {"get", "read", "set"} /\ \A i \in Items : cached'[i].here => cached[i].here
  PROVE  Sound'
<1>1. /\ CacheSound' /\ requests'[r] = new
      /\ \A q \in Requests \ {r} : requests'[q] = requests[q]
  BY TurnKeepsCache DEF Sound
<1>2. UNCHANGED <<settings, tables, proc, spent>>
  BY DEF webVars
<1>3. ProcessesTyped'
  BY <1>2, SameSettings DEF Sound, ProcessesTyped
<1>4. InService'
  BY <1>1, <1>2 DEF Sound, InService
<1>5. Unused'
  <2>1. ASSUME Cold, ~UsesCache \/ Refused(settings) PROVE Cold'
    BY <1>1, <2>1 DEF Cold
  <2> QED BY <1>2, <2>1, SameSettings DEF Sound, Unused
<1> QED BY <1>1, <1>3, <1>4, <1>5 DEF Sound

\* A request comes in.
LEMMA BeginKeepsSound ==
  ASSUME Sound, NEW r \in Requests, NEW p \in Processes, proc[p].pc = "serving",
         \/ \E i \in Items : Get(r, p, i, Backend(p))
         \/ \E w \in Writers : Write(r, p, w),
         UNCHANGED webVars
  PROVE  Sound' /\ ~Refused(settings)
<1>1. PICK new : /\ Turns(r, new) /\ Explains(r, new) /\ RestTyped
                 /\ new.process = p /\ new.pc \in {"get", "write"}
                 /\ new.pc = "get" => Backend(p) # None
  BY BeginSteps DEF Sound, CacheSound
<1>2. UNCHANGED cached
  BY DEF Get, Write, Begin
<1>3. ~UsesCache \/ Refused(settings) => new.pc \notin {"get", "read", "set"}
  BY <1>1, Backends
<1> QED BY <1>1, <1>2, <1>3, Backends, TurnKeepsSound

\* What a step of a request in flight comes to, and that it fills no cache that
\* is not used.
LEMMA ServedSteps ==
  ASSUME Sound, NEW r \in Requests, NEW backend, backend = None => Cold,
         \/ LookUp(r) \/ RunGet(r) \/ Store(r) \/ Delete(r) \/ Unlink(r) \/ CacheFails(r)
         \/ RunWrite(r, backend) \/ Scan(r, backend)
  PROVE  /\ Served(r) /\ requests[r].pc # "idle"
         /\ Cold => \A i \in Items : cached'[i].here => cached[i].here
<1>1. CacheTyped
  BY DEF Sound, CacheSound
<1>2. CASE LookUp(r) \/ RunGet(r)
  BY <1>1, <1>2, ReadSteps DEF LookUp, RunGet
<1>3. CASE Store(r)
  BY <1>1, <1>3, StoreStep DEF Store, Put, Cold
<1>4. CASE Delete(r)
  BY <1>1, <1>4, DeleteStep DEF Delete
<1>5. CASE Unlink(r)
  BY <1>1, <1>5, UnlinkStep DEF Unlink
<1>6. CASE CacheFails(r)
  BY <1>1, <1>6, CacheFailsStep DEF CacheFails, Cold
<1>7. CASE RunWrite(r, backend)
  BY <1>1, <1>7, RunWriteStep DEF RunWrite
<1>8. CASE Scan(r, backend)
  BY <1>1, <1>8, ScanStep DEF Scan
<1> QED BY <1>2, <1>3, <1>4, <1>5, <1>6, <1>7, <1>8

\* A request goes on.
LEMMA ServeKeepsSound ==
  ASSUME Sound, NEW r \in Requests, Serve(r)
  PROVE  Sound' /\ UNCHANGED webVars /\ ~Refused(settings)
<1>0. UNCHANGED webVars
  BY DEF Serve
<1>1. ASSUME NEW p \in Processes, proc[p].pc = "serving",
             \/ \E i \in Items : Get(r, p, i, Backend(p))
             \/ \E w \in Writers : Write(r, p, w)
      PROVE  Sound' /\ ~Refused(settings)
  BY <1>0, <1>1, BeginKeepsSound
<1>2. CASE \/ LookUp(r) \/ RunGet(r) \/ Store(r) \/ Delete(r) \/ Unlink(r) \/ CacheFails(r)
           \/ RunWrite(r, Backend(requests[r].process))
           \/ Scan(r, Backend(requests[r].process))
  <2> DEFINE p == requests[r].process
  <2>1. requests[r].pc # "idle"
    BY <1>2 DEF LookUp, RunGet, Store, Put, Delete, Unlink, CacheFails, RunWrite, Scan
  <2>2. p \in Processes /\ proc[p].pc = "serving"
    BY <2>1, CacheTypes DEF Sound, CacheSound, InService, Fits
  <2>3. ~Refused(settings) /\ (Backend(p) # None <=> UsesCache)
    BY <2>2, Backends
  <2>4. Backend(p) = None => Cold
    BY <2>3 DEF Sound, Unused
  <2>5. /\ Served(r)
        /\ Cold => \A i \in Items : cached'[i].here => cached[i].here
    BY <1>2, <2>4, ServedSteps
  <2>6. PICK new : Turns(r, new) /\ Explains(r, new) /\ Same(r, new) /\ RestTyped
    BY <2>5 DEF Served
  <2>7. ~UsesCache \/ Refused(settings) =>
          /\ new.pc \notin {"get", "read", "set"}
          /\ \A i \in Items : cached'[i].here => cached[i].here
    <3>1. ~UsesCache \/ Refused(settings) => Cold
      BY DEF Sound, Unused
    <3>2. Cold => requests[r].pc \notin {"get", "read", "set"}
      BY DEF Cold
    <3> QED BY <2>5, <2>6, <3>1, <3>2 DEF Same
  <2>8. new.pc # "idle" => proc[new.process].pc = "serving"
    BY <2>2, <2>6 DEF Same
  <2> QED BY <1>0, <2>3, <2>6, <2>7, <2>8, TurnKeepsSound
<1> QED BY <1>0, <1>1, <1>2 DEF Serve

\* An entry is gone.
LEMMA ExpireKeepsSound ==
  ASSUME Sound, NEW i \in Items, Expire(i), UNCHANGED webVars
  PROVE  Sound' /\ ~Refused(settings)
<1>1. /\ CacheSound' /\ UNCHANGED requests /\ cached[i].here
      /\ \A j \in Items : cached'[j].here => cached[j].here
  BY ExpireKeepsCache DEF Sound
<1>2. UNCHANGED <<settings, tables, proc, spent>>
  BY DEF webVars
<1>3. ProcessesTyped'
  BY <1>2, SameSettings DEF Sound, ProcessesTyped
<1>4. InService'
  BY <1>1, <1>2 DEF Sound, InService
<1>5. UsesCache /\ ~Refused(settings)
  BY <1>1 DEF Sound, Unused, Cold
<1>6. Unused'
  BY <1>2, <1>5, SameSettings DEF Unused
<1> QED BY <1>1, <1>3, <1>4, <1>5, <1>6 DEF Sound

\* Nothing runs, and nothing is cached, at first.
LEMMA InitSound == Init => Sound
<1> SUFFICES ASSUME Init PROVE Sound
  OBVIOUS
<1>1. /\ versions = [i \in Items |-> 0] /\ cached = [i \in Items |-> Absent]
      /\ crowded \in BOOLEAN /\ requests = [r \in Requests |-> NoTask]
      /\ missed = {} /\ used = [requests |-> 0, faults |-> 0]
  BY DEF Init, CacheInit
<1>2. Absent \in Entries /\ ~Absent.here
  BY DEF Absent, Entries
<1>3. NoTask.pc = "idle"
  BY DEF NoTask
<1>4. CacheSound
  <2>1. CacheTypeOK
    BY <1>1, <1>2, Idle DEF CacheTypeOK
  <2>2. \A r \in Requests : Fits(requests[r])
    BY <1>1, Idle
  <2>3. Explained
    BY <1>1, <1>2 DEF Explained, Stale
  <2> QED BY <2>1, <2>2, <2>3 DEF CacheSound, CacheTyped
<1>5. ProcessesTyped
  <2>1. NoProcess \in Processors /\ Ready(NoProcess)
    BY StepNames DEF NoProcess, Processors, Ready, Clients
  <2> QED BY <2>1 DEF Init, ProcessesTyped
<1>6. InService
  BY <1>1, <1>3 DEF InService
<1>7. Unused
  BY <1>1, <1>2, <1>3 DEF Unused, Cold
<1> QED BY <1>4, <1>5, <1>6, <1>7 DEF Sound

\* Settings that are refused: no step reaches the tables or the cache.
LEMMA RefusedStep ==
  ASSUME Sound, Next, Refused(settings)
  PROVE  UNCHANGED <<tables, versions, cached>>
<1>1. ASSUME NEW p \in Processes, Proceed(p) \/ StartFails(p) \/ Stop(p) \/ StopFails(p)
      PROVE  UNCHANGED <<tables, versions, cached>>
  <2>1. PICK new : Runs(p, new)
    BY <1>1, ProcessRuns DEF Sound
  <2>2. proc[p].pc \in {"start", "ended"}
    BY ProcessTypes DEF Sound, Ready
  <2> QED BY <2>1, <2>2 DEF Runs, cacheVars
<1>2. ASSUME NEW p \in Processes, Crash(p)
      PROVE  UNCHANGED <<tables, versions, cached>>
  BY <1>2, CrashKeepsSound
<1>3. ASSUME NEW r \in Requests, Serve(r)
      PROVE  FALSE
  BY <1>3, ServeKeepsSound
<1>4. ASSUME NEW i \in Items, Expire(i), UNCHANGED webVars
      PROVE  FALSE
  BY <1>4, ExpireKeepsSound
<1> QED BY <1>1, <1>2, <1>3, <1>4 DEF Next

\* The inductive invariant.
LEMMA StepSound == Sound /\ [Next]_vars => Sound'
<1> SUFFICES ASSUME Sound, [Next]_vars PROVE Sound'
  OBVIOUS
<1>1. ASSUME NEW p \in Processes, Proceed(p) \/ StartFails(p) \/ Stop(p) \/ StopFails(p)
      PROVE  Sound'
  <2>1. PICK new : Runs(p, new)
    BY <1>1, ProcessRuns DEF Sound
  <2> QED BY <2>1, RunKeepsSound
<1>2. ASSUME NEW p \in Processes, Crash(p)
      PROVE  Sound'
  BY <1>2, CrashKeepsSound
<1>3. ASSUME NEW r \in Requests, Serve(r)
      PROVE  Sound'
  BY <1>3, ServeKeepsSound
<1>4. ASSUME NEW i \in Items, Expire(i), UNCHANGED webVars
      PROVE  Sound'
  BY <1>4, ExpireKeepsSound
<1>5. CASE UNCHANGED vars
  BY <1>5, SameSettings
     DEF vars, webVars, cacheVars, Sound, CacheSound, CacheTyped, CacheTypeOK, Explained,
         Stale, ProcessesTyped, InService, Unused, Cold
<1> QED BY <1>1, <1>2, <1>3, <1>4, <1>5 DEF Next

\* It holds of every behaviour.
LEMMA AlwaysSound == Spec => []Sound
BY InitSound, StepSound, PTL DEF Spec

------------------------------------------------------------------------
(* The theorems.                                                          *)

\* The processes, the cache and the requests have their types.
THEOREM ProcessesAreTyped == Spec => []TypeOK
<1>1. Sound => TypeOK
  BY DEF Sound, CacheSound, CacheTyped, ProcessesTyped, TypeOK
<1> QED BY <1>1, AlwaysSound, PTL

\* A process that ended in good order has closed what it opened.
THEOREM ProcessesClose == Spec => []EndedMeansClosed
<1>1. Sound => EndedMeansClosed
  BY DEF Sound, ProcessesTyped, Ready, EndedMeansClosed
<1> QED BY <1>1, AlwaysSound, PTL

\* A cached answer that is out of date has a known reason to be.
THEOREM StaleEntriesAreExplained == Spec => []StaleEntriesExplained
<1>1. Sound => StaleEntriesExplained
  BY DEF Sound, CacheSound, Explained, Deleting, StaleEntriesExplained
<1> QED BY <1>1, AlwaysSound, PTL

\* Two services on one redis database: two configurations at that instance.
Shares(s) ==
  LET cache == s.cache.backend = "redis"
      sessions == s.auth.backend = "redis"
      limiter == s.limiter.backend = "redis" /\ s.limiter.at = s.cache.at
  IN  (cache /\ sessions) \/ (cache /\ limiter) \/ (sessions /\ limiter)

LEMMA SharedIsFound ==
  ASSUME NEW s \in Settings, Shares(s)
  PROVE  <<"shared", "redis">> \in Warnings(s)
<1> DEFINE x == [service |-> "cache", at |-> s.cache.at, password |-> s.cache.password]
           l == [service |-> "rate_limiter", at |-> s.limiter.at, password |-> s.limiter.password]
           a == [service |-> "sessions", at |-> s.cache.at, password |-> s.cache.password]
           here == {c \in RedisConfigurations(s) : c.at = s.cache.at}
<1>1. s.cache.at \in Instances
  BY DEF Settings, CacheSettings
<1>2. /\ x.service = "cache" /\ l.service = "rate_limiter" /\ a.service = "sessions"
      /\ x.at = s.cache.at /\ a.at = s.cache.at /\ l.at = s.limiter.at
  OBVIOUS
<1>3. RedisConfigurations(s) =
        {c \in {x, l, a} :
           CASE c.service = "cache" -> s.cache.backend = "redis"
             [] c.service = "rate_limiter" -> s.limiter.backend = "redis"
             [] c.service = "sessions" -> s.auth.backend = "redis"}
  BY DEF RedisConfigurations
<1> HIDE DEF x, l, a
<1>4. PICK y, z : {y, z} \subseteq here /\ y # z
  <2>1. CASE s.cache.backend = "redis" /\ s.auth.backend = "redis"
    <3>1. x \in here /\ a \in here /\ x # a
      BY <1>2, <1>3, <2>1
    <3> QED BY <3>1
  <2>2. CASE s.cache.backend = "redis" /\ s.limiter.backend = "redis" /\ s.limiter.at = s.cache.at
    <3>1. x \in here /\ l \in here /\ x # l
      BY <1>2, <1>3, <2>2
    <3> QED BY <3>1
  <2>3. CASE s.auth.backend = "redis" /\ s.limiter.backend = "redis" /\ s.limiter.at = s.cache.at
    <3>1. a \in here /\ l \in here /\ a # l
      BY <1>2, <1>3, <2>3
    <3> QED BY <3>1
  <2> QED BY <2>1, <2>2, <2>3 DEF Shares
<1>5. IsFiniteSet(here)
  <2>1. IsFiniteSet({x}) /\ IsFiniteSet({l}) /\ IsFiniteSet({a})
    BY FS_Singleton
  <2>2. IsFiniteSet({x} \cup {l} \cup {a})
    BY <2>1, FS_Union
  <2>3. here \subseteq {x} \cup {l} \cup {a}
    BY <1>3
  <2> QED BY <2>2, <2>3, FS_Subset
<1>6. Cardinality({y, z}) = 2
  <2>1. IsFiniteSet({y}) /\ Cardinality({y}) = 1
    BY FS_Singleton
  <2>2. Cardinality({y} \cup {z}) = Cardinality({y}) + 1
    BY <1>4, <2>1, FS_AddElement
  <2>3. {y} \cup {z} = {y, z}
    OBVIOUS
  <2> QED BY <2>1, <2>2, <2>3
<1>7. Cardinality(here) > 1
  <2>1. Cardinality({y, z}) <= Cardinality(here) /\ Cardinality(here) \in Nat
    BY <1>4, <1>5, FS_Subset, FS_CardinalityType
  <2> QED BY <1>6, <2>1
<1>8. s.cache.at \in SharedInstances(s)
  BY <1>1, <1>7 DEF SharedInstances
<1>9. <<"shared", "redis">> \in RedisWarnings(s)
  BY <1>8 DEF RedisWarnings
<1> QED BY <1>9 DEF Warnings

\* Every process that serves with validated settings has reported a redis database that
\* two of cache, sessions and limiter use.
THEOREM SharingIsAlwaysReported == Spec => []SharingIsReported
<1>1. ASSUME Sound PROVE SharingIsReported
  <2> SUFFICES ASSUME NEW p \in Processes,
                      proc[p].pc = "serving", Validated(settings), Shares(settings)
               PROVE  <<"shared", "redis">> \in proc[p].warned
    BY DEF SharingIsReported, Shares
  <2>1. proc[p].warned = Logged(settings) /\ ~Refused(settings)
    BY <1>1, ProcessTypes DEF Sound, Ready
  <2>2. Logged(settings) = Warnings(settings)
    BY <2>1 DEF Logged
  <2>3. settings \in Settings
    BY <1>1, WebConstants DEF Sound, ProcessesTyped
  <2>4. <<"shared", "redis">> \in Warnings(settings)
    BY <2>3, SharedIsFound
  <2> QED BY <2>1, <2>2, <2>4
<1> QED BY <1>1, AlwaysSound, PTL

\* Settings that the validator refuses never reach the tables or the cache.
THEOREM RefusedSettingsStayOut == Spec => RefusedSettingsTouchNothing
<1>1. Sound /\ [Next]_vars => [Refused(settings) => UNCHANGED <<tables, versions, cached>>]_vars
  BY RefusedStep
<1> QED BY <1>1, AlwaysSound, PTL DEF Spec, RefusedSettingsTouchNothing
====
