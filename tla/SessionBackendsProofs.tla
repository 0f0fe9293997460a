---- MODULE SessionBackendsProofs ----
(***************************************************************************)
(* Proofs about SessionBackends, for any users, sessions, records and      *)
(* callers, every backend and timeout, and any number of calls, failures   *)
(* and dropped keys.                                                       *)
(***************************************************************************)
EXTENDS SessionBackends, TLAPS

------------------------------------------------------------------------
(* Types, and what a call has at each of its steps.                       *)

\* What a call has found or been given by each of its steps.
Ready(t) ==
  \/ call[t] = NoCall
  \/ /\ call[t].op \in {"create", "update", "delete", "extend"}
     /\ call[t].pc \in {"look", "write", "read_list", "write_list"}
     /\ call[t].session \in Sessions
     /\ call[t].op \in {"create", "update"} => call[t].value \in Values
     /\ call[t].pc = "look" => call[t].copy = None
     /\ call[t].pc = "write" /\ call[t].op # "create" => call[t].copy \in Values

Typed == TypeOK /\ \A t \in Callers : Ready(t)

\* An idle caller is typed.
LEMMA NoCallType == NoCall \in Calls
BY DEF NoCall, Calls

\* What the steps of a call have in common.
LEMMA CallShape ==
  ASSUME Typed, NEW t \in Callers
  PROVE  /\ call[t] \in Calls /\ Ready(t)
         /\ call[t] # NoCall => OwnerOf(t) \in Users
BY BackendConstants DEF Typed, TypeOK, OwnerOf, Ready

\* A change of one call.
LEMMA CallUpdate ==
  ASSUME Typed, NEW t \in Callers, NEW new \in Calls, call' = [call EXCEPT ![t] = new],
         \/ new = NoCall
         \/ /\ new.op \in {"create", "update", "delete", "extend"}
            /\ new.pc \in {"look", "write", "read_list", "write_list"}
            /\ new.session \in Sessions
            /\ new.op \in {"create", "update"} => new.value \in Values
            /\ new.pc = "look" => new.copy = None
            /\ new.pc = "write" /\ new.op # "create" => new.copy \in Values
  PROVE  call' \in [Callers -> Calls] /\ \A q \in Callers : Ready(q)'
BY DEF Typed, TypeOK, Ready

\* Sets and deletions of sessions and lists keep the types.
LEMMA EntrySet ==
  ASSUME Typed, NEW t \in Callers, call[t] # NoCall, NEW v \in Values, SetEntry(t, v)
  PROVE  entry' \in [Sessions -> Entries \cup {None}]
<1>1. Until(timeout) \in Nat
  BY BackendConstants DEF Typed, TypeOK, Until
<1> QED BY <1>1, CallShape DEF SetEntry, Typed, TypeOK, Entries, Ready

\* A session that is dropped leaves no key.
LEMMA DropType ==
  ASSUME Typed, NEW t \in Callers, DropEntry(t)
  PROVE  entry' \in [Sessions -> Entries \cup {None}]
BY DEF DropEntry, Typed, TypeOK

\* A list that is set is a list, whatever life it is given.
LEMMA ListSet ==
  ASSUME Typed, NEW u \in Users, NEW ids \in SUBSET Sessions, NEW life \in Nat, SetList(u, ids, life)
  PROVE  index' \in [Users -> Lists \cup {None}]
<1>1. Until(life) \in Nat
  BY DEF Typed, TypeOK, Until
<1> QED BY <1>1 DEF SetList, Typed, TypeOK, Lists

\* What is read of a list.
LEMMA ListType ==
  ASSUME Typed, NEW u \in Users
  PROVE  /\ GetUserSessions(u) \in SUBSET Sessions
         /\ Alive(index[u]) => index[u] \in Lists
BY DEF GetUserSessions, Alive, Typed, TypeOK, Lists

\* What is read of a session.
LEMMA EntryType ==
  ASSUME Typed, NEW s \in Sessions
  PROVE  /\ Alive(entry[s]) => entry[s] \in Entries /\ entry[s].value \in Values
         /\ Get(s) \in Values \cup {None}
BY DEF Get, Alive, Typed, TypeOK, Entries

\* The lives that keys are given are numbers.
LEMMA LivesAreNumbers ==
  timeout \in Timeouts => timeout \in Nat /\ timeout + Grace \in Nat /\ Day \in Nat
BY BackendConstants

\* A call that is over leaves its session known or not.
LEMMA ReturnType ==
  ASSUME Typed, NEW t \in Callers, call[t] # NoCall, Return(t)
  PROVE  /\ known' \subseteq Sessions
         /\ call' \in [Callers -> Calls] /\ \A q \in Callers : Ready(q)'
<1>1. call' \in [Callers -> Calls] /\ \A q \in Callers : Ready(q)'
  BY CallUpdate, NoCallType DEF Return
<1>2. known' \subseteq Sessions
  BY CallShape DEF Return, Ready, Typed, TypeOK
<1> QED BY <1>1, <1>2

\* The write of a session on memcached keeps its type.
LEMMA ChangeType ==
  ASSUME Typed, NEW t \in Callers, call[t] # NoCall, call[t].pc = "write", Change(t)
  PROVE  entry' \in [Sessions -> Entries \cup {None}]
<1>1. Ready(t)
  BY CallShape
<1> QED BY <1>1, EntrySet, DropType DEF Change, Ready

\* The transaction on Redis keeps the types of both keys.
LEMMA TransactionType ==
  ASSUME Typed, NEW t \in Callers, call[t] # NoCall, call[t].pc = "write", Transaction(t)
  PROVE  /\ entry' \in [Sessions -> Entries \cup {None}]
         /\ index' \in [Users -> Lists \cup {None}]
<1> DEFINE s == call[t].session
           u == OwnerOf(t)
<1>1. Ready(t) /\ u \in Users /\ s \in Sessions
  BY CallShape DEF Ready
<1>2. /\ entry \in [Sessions -> Entries \cup {None}]
      /\ index \in [Users -> Lists \cup {None}]
      /\ timeout \in Timeouts
  BY DEF Typed, TypeOK
<1>3. ASSUME IF Alive(index[u]) THEN SetList(u, index[u].ids, timeout + Grace)
             ELSE UNCHANGED index
      PROVE  index' \in [Users -> Lists \cup {None}]
  <2>1. CASE Alive(index[u])
    <3>1. index[u].ids \in SUBSET Sessions
      BY <1>1, <2>1, ListType DEF Lists
    <3> QED BY <1>1, <1>2, <1>3, <2>1, <3>1, ListSet, LivesAreNumbers
  <2>2. CASE ~Alive(index[u])
    BY <1>2, <1>3, <2>2
  <2> QED BY <2>1, <2>2
<1>4. CASE /\ call[t].op = "create" /\ SetEntry(t, call[t].value)
           /\ SetList(u, GetUserSessions(u) \cup {s}, timeout + Grace)
  <2>1. GetUserSessions(u) \cup {s} \in SUBSET Sessions
    BY <1>1, ListType
  <2> QED BY <1>1, <1>2, <1>4, <2>1, EntrySet, ListSet, LivesAreNumbers DEF Ready
<1>5. CASE /\ call[t].op = "update" /\ SetEntry(t, call[t].value)
           /\ IF Alive(index[u]) THEN SetList(u, index[u].ids, timeout + Grace)
              ELSE UNCHANGED index
  BY <1>1, <1>3, <1>5, EntrySet DEF Ready
<1>6. CASE /\ call[t].op = "extend"
           /\ IF Alive(index[u]) THEN SetList(u, index[u].ids, timeout + Grace)
              ELSE UNCHANGED index
           /\ IF Alive(entry[s]) THEN SetEntry(t, entry[s].value) ELSE UNCHANGED entry
  <2>1. entry' \in [Sessions -> Entries \cup {None}]
    BY <1>1, <1>2, <1>6, EntryType, EntrySet
  <2> QED BY <1>3, <1>6, <2>1
<1>7. CASE /\ call[t].op = "delete" /\ DropEntry(t)
           /\ index' = IF Alive(index[u]) THEN [index EXCEPT ![u].ids = @ \ {s}] ELSE index
  <2>1. index' \in [Users -> Lists \cup {None}]
    <3>1. CASE Alive(index[u])
      BY <1>1, <1>2, <1>7, <3>1, ListType DEF Lists
    <3>2. CASE ~Alive(index[u])
      BY <1>2, <1>7, <3>2
    <3> QED BY <3>1, <3>2
  <2> QED BY <1>7, <2>1, DropType
<1> QED BY <1>4, <1>5, <1>6, <1>7 DEF Transaction

\* A failure is counted.
LEMMA FaultType == ASSUME Typed, Fault PROVE spent' \in [calls : Nat, faults : Nat]
BY DEF Typed, TypeOK, Fault

\* At the start no call is under way.
LEMMA TypedInit == Init => Typed
BY NoCallType DEF Init, Typed, TypeOK, Ready

\* No step breaks the types, or leaves a call without what its next command needs.
LEMMA TypedStep == Typed /\ [Next]_vars => Typed'
<1> SUFFICES ASSUME Typed, [Next]_vars PROVE Typed'
  OBVIOUS
<1> DEFINE Settings == backend' \in Backends /\ timeout' \in Timeouts /\ clock' \in Nat
           Tables == /\ entry' \in [Sessions -> Entries \cup {None}]
                     /\ index' \in [Users -> Lists \cup {None}]
           AllReady == call' \in [Callers -> Calls] /\ \A q \in Callers : Ready(q)'
           Marks == /\ overlapped' \subseteq Users /\ hurt' \subseteq Users
                    /\ shortened' \subseteq Users
           Rest == known' \subseteq Sessions /\ spent' \in [calls : Nat, faults : Nat]
<1> SUFFICES Settings /\ Tables /\ AllReady /\ Marks /\ Rest
  BY DEF Typed, TypeOK
<1>t. /\ UNCHANGED <<settings, clock>> => Settings
      /\ UNCHANGED <<entry, index>> => Tables
      /\ UNCHANGED call => AllReady
      /\ UNCHANGED <<overlapped, hurt, shortened>> => Marks
      /\ UNCHANGED <<known, spent>> => Rest
      /\ UNCHANGED known => known' \subseteq Sessions
      /\ UNCHANGED spent => spent' \in [calls : Nat, faults : Nat]
      /\ UNCHANGED entry => entry' \in [Sessions -> Entries \cup {None}]
      /\ UNCHANGED index => index' \in [Users -> Lists \cup {None}]
      /\ overlapped \subseteq Users /\ hurt \subseteq Users /\ shortened \subseteq Users
      /\ clock \in Nat /\ spent \in [calls : Nat, faults : Nat] /\ timeout \in Timeouts
      /\ entry \in [Sessions -> Entries \cup {None}]
      /\ index \in [Users -> Lists \cup {None}]
  BY DEF Typed, TypeOK, Ready, settings
<1> HIDE DEF Settings, Tables, AllReady, Marks, Rest
<1>1. ASSUME NEW t \in Callers, NEW s \in Sessions, NEW v \in Values \cup {None},
             NEW op \in {"create", "update", "delete", "extend"}, Begin(t, op, s, v)
      PROVE  Settings /\ Tables /\ AllReady /\ Marks /\ Rest
  <2> DEFINE new == [NoCall EXCEPT !.op = op, !.session = s, !.value = v, !.begun = clock,
                                   !.pc = IF op = "create" THEN "write" ELSE "look"]
  <2>1. new \in Calls
    BY <1>t DEF NoCall, Calls
  <2>2. /\ new.op = op /\ new.session = s /\ new.value = v /\ new.copy = None
        /\ new.pc = IF op = "create" THEN "write" ELSE "look"
    BY DEF NoCall
  <2>3. call' = [call EXCEPT ![t] = new]
    BY <1>1 DEF Begin
  <2>4. op \in {"create", "update"} => v \in Values
    BY <1>1 DEF Begin
  <2> HIDE DEF new
  <2>5. AllReady
    BY <2>1, <2>2, <2>3, <2>4, CallUpdate DEF AllReady
  <2>6. Rest
    BY <1>1, <1>t DEF Begin, Rest, history
  <2> QED BY <1>1, <1>t, <2>5, <2>6 DEF Begin, history
<1>2. ASSUME NEW t \in Callers, CallMemory(t)
      PROVE  Settings /\ Tables /\ AllReady /\ Marks /\ Rest
  <2>1. call[t] # NoCall /\ Ready(t)
    BY <1>2, CallShape DEF CallMemory, NoCall
  <2>2. AllReady /\ Rest
    BY <1>2, <1>t, <2>1, ReturnType DEF CallMemory, AllReady, Rest
  <2>3. Tables
    <3>1. entry' \in [Sessions -> Entries \cup {None}]
      <4>1. CASE call[t].op = "create"
        BY <1>2, <2>1, <4>1, EntrySet DEF CallMemory, Ready
      <4>2. CASE call[t].op = "delete"
        BY <1>2, <2>1, <4>2, DropType DEF CallMemory, Ready
      <4>3. CASE call[t].op = "update"
        BY <1>2, <1>t, <2>1, <4>3, EntrySet DEF CallMemory, Ready
      <4>4. CASE call[t].op = "extend"
        BY <1>2, <1>t, <2>1, <4>4, EntrySet, EntryType DEF CallMemory, Ready
      <4> QED BY <2>1, <4>1, <4>2, <4>3, <4>4 DEF Ready
    <3> QED BY <1>2, <1>t, <3>1 DEF CallMemory, Tables
  <2> QED BY <1>2, <1>t, <2>2, <2>3 DEF CallMemory
<1>3. ASSUME NEW t \in Callers, Look(t)
      PROVE  Settings /\ Tables /\ AllReady /\ Marks /\ Rest
  <2>1. call[t] # NoCall /\ Ready(t) /\ call[t] \in Calls
    BY <1>3, CallShape DEF Look, NoCall
  <2>2. AllReady /\ Rest
    <3>1. CASE Alive(entry[call[t].session])
      <4> DEFINE new == [call[t] EXCEPT !.pc = "write", !.copy = entry[call[t].session].value]
      <4>1. entry[call[t].session].value \in Values
        BY <2>1, <3>1, EntryType DEF Ready
      <4>2. call' = [call EXCEPT ![t] = new]
        BY <1>3, <3>1 DEF Look, Typed, TypeOK
      <4>3. new \in Calls
        BY <2>1, <4>1 DEF Calls
      <4>4. /\ new.op = call[t].op /\ new.session = call[t].session /\ new.value = call[t].value
            /\ new.copy \in Values /\ new.pc = "write"
        BY <2>1, <4>1 DEF Calls
      <4> HIDE DEF new
      <4>5. AllReady
        BY <2>1, <4>2, <4>3, <4>4, CallUpdate DEF AllReady, Ready
      <4> QED BY <1>3, <1>t, <3>1, <4>5 DEF Look, Rest
    <3>2. CASE ~Alive(entry[call[t].session])
      BY <1>3, <1>t, <2>1, <3>2, ReturnType DEF Look, AllReady, Rest
    <3> QED BY <3>1, <3>2
  <2> QED BY <1>3, <1>t, <2>2 DEF Look
<1>4. ASSUME NEW t \in Callers, WriteRedis(t)
      PROVE  Settings /\ Tables /\ AllReady /\ Marks /\ Rest
  <2>1. call[t] # NoCall
    BY <1>4 DEF WriteRedis, NoCall
  <2> QED BY <1>4, <1>t, <2>1, ReturnType, TransactionType DEF WriteRedis, AllReady, Rest, Tables
<1>5. ASSUME NEW t \in Callers, WriteMemcached(t)
      PROVE  Settings /\ Tables /\ AllReady /\ Marks /\ Rest
  <2>1. call[t] # NoCall /\ Ready(t) /\ call[t] \in Calls
    BY <1>5, CallShape DEF WriteMemcached, NoCall
  <2>2. AllReady
    <3> DEFINE new == [call[t] EXCEPT !.pc = "read_list"]
    <3>1. call' = [call EXCEPT ![t] = new]
      BY <1>5 DEF WriteMemcached, Goto
    <3>2. /\ new \in Calls /\ new.op = call[t].op /\ new.session = call[t].session
          /\ new.value = call[t].value /\ new.pc = "read_list"
      BY <2>1 DEF Calls
    <3> HIDE DEF new
    <3> QED BY <2>1, <3>1, <3>2, CallUpdate DEF AllReady, Ready
  <2> QED BY <1>5, <1>t, <2>1, <2>2, ChangeType DEF WriteMemcached, Tables, history
<1>6. ASSUME NEW t \in Callers, ReadList(t)
      PROVE  Settings /\ Tables /\ AllReady /\ Marks /\ Rest
  <2>1. call[t] # NoCall /\ Ready(t) /\ call[t] \in Calls /\ OwnerOf(t) \in Users
    BY <1>6, CallShape DEF ReadList, NoCall
  <2>2. CASE /\ call' = [call EXCEPT ![t].pc = "write_list", ![t].list = Listed(t)]
             /\ UNCHANGED known
    <3> DEFINE new == [call[t] EXCEPT !.pc = "write_list", !.list = Listed(t)]
    <3>1. Listed(t) \in SUBSET Sessions
      BY <2>1, ListType DEF Listed, Ready
    <3>2. call' = [call EXCEPT ![t] = new]
      BY <2>2 DEF Typed, TypeOK
    <3>3. /\ new \in Calls /\ new.op = call[t].op /\ new.session = call[t].session
          /\ new.value = call[t].value /\ new.pc = "write_list"
      BY <2>1, <3>1 DEF Calls
    <3> HIDE DEF new
    <3>4. AllReady
      BY <2>1, <3>2, <3>3, CallUpdate DEF AllReady, Ready
    <3> QED BY <1>6, <1>t, <2>1, <2>2, <3>4 DEF ReadList, Rest, Marks
  <2>3. CASE Return(t) /\ UNCHANGED overlapped
    BY <1>6, <1>t, <2>1, <2>3, ReturnType DEF ReadList, AllReady, Rest
  <2> QED BY <1>6, <2>2, <2>3 DEF ReadList
<1>7. ASSUME NEW t \in Callers, WriteList(t)
      PROVE  Settings /\ Tables /\ AllReady /\ Marks /\ Rest
  <2>1. call[t] # NoCall /\ call[t] \in Calls /\ OwnerOf(t) \in Users
    BY <1>7, CallShape DEF WriteList, NoCall
  <2>2. Tables
    BY <1>7, <1>t, <2>1, ListSet, LivesAreNumbers DEF WriteList, PutList, Tables, Calls
  <2>3. AllReady /\ Rest
    BY <1>7, <1>t, <2>1, ReturnType DEF WriteList, AllReady, Rest
  <2> QED BY <1>7, <1>t, <2>1, <2>2, <2>3 DEF WriteList, Marks
<1>8. ASSUME NEW t \in Callers, Fail(t)
      PROVE  Settings /\ Tables /\ AllReady /\ Marks /\ Rest
  <2>1. call[t] # NoCall /\ call[t] \in Calls /\ OwnerOf(t) \in Users
    BY <1>8, CallShape DEF Fail
  <2>2. Tables
    <3>1. CASE UNCHANGED <<entry, index>>
      BY <1>t, <3>1
    <3>2. CASE call[t].pc = "write" /\ Transaction(t)
      BY <2>1, <3>2, TransactionType DEF Tables
    <3>3. CASE call[t].pc = "write" /\ Change(t) /\ UNCHANGED index
      BY <1>t, <2>1, <3>3, ChangeType DEF Tables
    <3>4. CASE PutList(t) /\ UNCHANGED entry
      BY <1>t, <2>1, <3>4, ListSet, LivesAreNumbers DEF PutList, Tables, Calls
    <3> QED BY <1>8, <3>1, <3>2, <3>3, <3>4 DEF Fail
  <2>3. AllReady
    BY <1>8, CallUpdate, NoCallType DEF Fail, AllReady
  <2> QED BY <1>8, <1>t, <2>1, <2>2, <2>3, FaultType DEF Fail, Marks, Rest
<1>9. ASSUME NEW gone \in SUBSET Sessions, NEW lists \in SUBSET Users, DropKeys(gone, lists)
      PROVE  Settings /\ Tables /\ AllReady /\ Marks /\ Rest
  <2>1. Tables
    <3>1. entry' \in [Sessions -> Entries \cup {None}]
      BY <1>9, <1>t DEF DropKeys
    <3>2. index' \in [Users -> Lists \cup {None}]
      BY <1>9, <1>t DEF DropKeys
    <3> QED BY <3>1, <3>2 DEF Tables
  <2>2. Rest
    BY <1>9, <1>t, FaultType DEF DropKeys, Rest
  <2>3. Marks
    BY <1>9, <1>t DEF DropKeys, Marks
  <2> QED BY <1>9, <1>t, <2>1, <2>2, <2>3 DEF DropKeys
<1>10. CASE Tick
  <2>1. clock' \in Nat
    BY <1>10, <1>t DEF Tick
  <2>2. Settings
    BY <1>10, <1>t, <2>1 DEF Tick, Settings, settings, Typed, TypeOK
  <2> QED BY <1>10, <1>t, <2>2 DEF Tick, history
<1>11. CASE UNCHANGED vars
  BY <1>11, <1>t DEF vars, history
<1> QED BY <1>1, <1>2, <1>3, <1>4, <1>5, <1>6, <1>7, <1>8, <1>9, <1>10, <1>11 DEF Next

\* So they hold in every behavior.
LEMMA TypedAlways == Spec => []Typed
BY TypedInit, TypedStep, PTL DEF Spec

\* Every variable keeps its type.
THEOREM SessionsAreTyped == Spec => []TypeOK
<1>1. Typed => TypeOK
  BY DEF Typed
<1> QED BY <1>1, TypedAlways, PTL

------------------------------------------------------------------------
(* The refinement of SessionContract.                                     *)

\* A session that was set can be read at once: no timeout is above what memcached counts.
LEMMA SetIsRead ==
  ASSUME Typed, NEW t \in Callers, call[t] # NoCall, NEW v \in Values, SetEntry(t, v),
         UNCHANGED <<settings, clock>>
  PROVE  \A s \in Sessions : Get(s)' = IF s = call[t].session THEN v ELSE Get(s)
<1>1. /\ Until(timeout) = clock + timeout /\ clock \in Nat
      /\ timeout \in Nat /\ timeout >= 1
  BY BackendConstants DEF Typed, TypeOK, Until
<1>2. \A s \in Sessions : entry'[s] = IF s = call[t].session
                                        THEN [value |-> v, until |-> clock + timeout] ELSE entry[s]
  BY <1>1 DEF SetEntry, Typed, TypeOK
<1>3. /\ backend' = backend /\ clock' = clock
      /\ [value |-> v, until |-> clock + timeout] \in Entries
      /\ [value |-> v, until |-> clock + timeout] # None
      /\ [value |-> v, until |-> clock + timeout].until = clock + timeout
      /\ [value |-> v, until |-> clock + timeout].value = v
  BY <1>1, BackendNone DEF settings, Entries
<1> QED BY <1>1, <1>2, <1>3 DEF Get, Alive

\* A session that was dropped is read no more.
LEMMA DropIsRead ==
  ASSUME Typed, NEW t \in Callers, DropEntry(t), UNCHANGED <<settings, clock>>
  PROVE  \A s \in Sessions : Get(s)' = IF s = call[t].session THEN None ELSE Get(s)
BY DEF DropEntry, Typed, TypeOK, Get, Alive, settings

\* Nothing else changes what is read.
LEMMA GetStays ==
  UNCHANGED <<settings, clock, entry>> => \A s \in Sessions : Get(s)' = Get(s)
BY DEF Get, Alive, settings

\* The states of the contract.
Data == [s \in Sessions |-> Get(s)]
Called == [q \in Callers |-> Calling(q)]

\* A call under way is one of the contract, with the data it has seen.
LEMMA CallingShape ==
  ASSUME Typed, NEW t \in Callers
  PROVE  /\ call[t] = NoCall => Calling(t) = Contract!Idle
         /\ call[t].pc \in {"read_list", "write_list"} => Calling(t) = Contract!Over
         /\ call[t].pc \in {"look", "write"} =>
              /\ Calling(t) = [op |-> call[t].op, session |-> call[t].session,
                               value |-> call[t].value, seen |-> {call[t].copy} \ {None}]
              /\ call[t].op \in {"create", "update", "delete", "extend"}
              /\ call[t].session \in Sessions
BY CallShape DEF Calling, Contract!Idle, Contract!Over, NoCall, Ready

\* The calls of the others are what they were.
LEMMA OtherCalls ==
  ASSUME Typed, NEW t \in Callers, NEW new, call' = [call EXCEPT ![t] = new]
  PROVE  Called' = [Called EXCEPT ![t] = Calling(t)']
<1>1. \A q \in Callers \ {t} : call'[q] = call[q]
  BY DEF Typed, TypeOK
<1>2. \A q \in Callers \ {t} : Calling(q)' = Calling(q)
  BY <1>1 DEF Calling
<1> QED BY <1>2 DEF Called

\* A call that changes what its session is answered, by something the contract allows.
LEMMA ActStep ==
  ASSUME Typed, NEW t \in Callers, call[t].pc \in {"look", "write"}, NEW v,
         LET c == call[t] IN
           \/ c.op = "create" /\ v = c.value
           \/ c.op = "update" /\ v = c.value /\ (c.copy # None \/ Get(c.session) # None)
           \/ c.op = "extend" /\ v # None /\ v \in {c.copy, Get(c.session)}
           \/ c.op = "delete" /\ v = None,
         \A s \in Sessions : Get(s)' = IF s = call[t].session THEN v ELSE Get(s),
         NEW new, call' = [call EXCEPT ![t] = new],
         Calling(t)' \in {Contract!Idle, Contract!Over}
  PROVE  Contract!ContractNext
<1> DEFINE c == call[t]
<1>1. /\ Called[t] = [op |-> c.op, session |-> c.session, value |-> c.value,
                      seen |-> {c.copy} \ {None}]
      /\ c.op \in {"create", "update", "delete", "extend"} /\ c.session \in Sessions
  BY CallingShape DEF Called
<1>2. Data' = [Data EXCEPT ![c.session] = v]
  BY <1>1 DEF Data
<1>3. v \in Contract!Outcomes(Called[t])
  BY <1>1 DEF Contract!Outcomes, Contract!There, Data
<1>4. Contract!Under(t)
  BY <1>1 DEF Contract!Under, Called
<1>5. \E w \in Contract!Outcomes(Called[t]) : Data' = [Data EXCEPT ![Called[t].session] = w]
  <2>1. Called[t].session = c.session
    BY <1>1
  <2>2. Data' = [Data EXCEPT ![Called[t].session] = v]
    BY <1>2, <2>1
  <2> QED BY <1>3, <2>2, Zenon
<1>6. \E after \in {Contract!Idle, Contract!Over} : Called' = [Called EXCEPT ![t] = after]
  BY OtherCalls
<1>7. Contract!Act(t)
  BY <1>4, <1>5, <1>6, Zenon DEF Contract!Act, Data, Called
<1> QED BY <1>7 DEF Contract!ContractNext

\* A call that ends, or does the rest of its work, and changes no answer.
LEMMA ReturnStep ==
  ASSUME Typed, NEW t \in Callers, call[t] # NoCall,
         \A s \in Sessions : Get(s)' = Get(s),
         NEW new, call' = [call EXCEPT ![t] = new],
         Calling(t)' \in {Contract!Idle, Contract!Over}
  PROVE  Contract!ContractNext
<1>1. Called[t] # Contract!Idle
  BY CallShape, CallingShape DEF Called, Contract!Idle, Contract!Over, Ready
<1>2. Data' = Data
  BY DEF Data
<1>3. Contract!Return(t)
  BY <1>1, <1>2, OtherCalls DEF Contract!Return, Data, Called
<1> QED BY <1>3 DEF Contract!ContractNext

\* Keys that disappear take their sessions with them.
LEMMA VanishStep ==
  ASSUME NEW gone \in SUBSET Sessions, UNCHANGED call,
         \A s \in Sessions : Get(s)' = IF s \in gone THEN None ELSE Get(s)
  PROVE  Contract!ContractNext
<1>1. Data' = [s \in Sessions |-> IF s \in gone THEN None ELSE Data[s]]
  BY DEF Data
<1>2. Called' = Called
  BY DEF Called, Calling
<1>3. Contract!Vanish(gone)
  BY <1>1, <1>2 DEF Contract!Vanish, Data, Called
<1> QED BY <1>3 DEF Contract!ContractNext

\* What a call that is over looks like to the contract.
LEMMA ReturnsIdle ==
  ASSUME Typed, NEW t \in Callers, call' = [call EXCEPT ![t] = NoCall]
  PROVE  Calling(t)' \in {Contract!Idle, Contract!Over}
<1>1. call'[t] = NoCall
  BY DEF Typed, TypeOK
<1> QED BY <1>1 DEF Calling, Contract!Idle

\* The transaction on Redis, and the change on memcached, are what the contract allows.
LEMMA WriteStep ==
  ASSUME Typed, NEW t \in Callers, call[t].pc = "write",
         Transaction(t) \/ Change(t), UNCHANGED <<settings, clock>>,
         NEW new, call' = [call EXCEPT ![t] = new],
         Calling(t)' \in {Contract!Idle, Contract!Over}
  PROVE  Contract!ContractNext
<1> DEFINE c == call[t]
<1>1. /\ c # NoCall /\ c.session \in Sessions
      /\ c.op \in {"create", "update", "delete", "extend"}
      /\ c.op \in {"create", "update"} => c.value \in Values
      /\ c.op # "create" => c.copy \in Values
  BY CallShape DEF Ready, NoCall
<1>2. None \notin Values
  BY BackendNone
<1>3. CASE c.op \in {"create", "update"}
  <2>1. SetEntry(t, c.value)
    BY <1>3 DEF Transaction, Change
  <2>2. \A s \in Sessions : Get(s)' = IF s = c.session THEN c.value ELSE Get(s)
    BY <1>1, <1>3, <2>1, SetIsRead
  <2> QED BY <1>1, <1>2, <1>3, <2>2, ActStep
<1>4. CASE c.op = "delete"
  <2>1. DropEntry(t)
    BY <1>4 DEF Transaction, Change
  <2>2. \A s \in Sessions : Get(s)' = IF s = c.session THEN None ELSE Get(s)
    BY <2>1, DropIsRead
  <2> QED BY <1>4, <2>2, ActStep
<1>5. CASE c.op = "extend"
  <2>1. \/ Alive(entry[c.session]) /\ SetEntry(t, entry[c.session].value)
        \/ SetEntry(t, c.copy)
        \/ UNCHANGED entry
    BY <1>5 DEF Transaction, Change
  <2>2. CASE Alive(entry[c.session]) /\ SetEntry(t, entry[c.session].value)
    <3> DEFINE v == entry[c.session].value
    <3>1. v \in Values /\ Get(c.session) = v
      BY <1>1, <2>2, EntryType DEF Get
    <3>2. \A s \in Sessions : Get(s)' = IF s = c.session THEN v ELSE Get(s)
      BY <1>1, <2>2, <3>1, SetIsRead
    <3> QED BY <1>2, <1>5, <3>1, <3>2, ActStep
  <2>3. CASE SetEntry(t, c.copy)
    <3>1. c.copy \in Values
      BY <1>1, <1>5
    <3>2. \A s \in Sessions : Get(s)' = IF s = c.session THEN c.copy ELSE Get(s)
      BY <1>1, <2>3, <3>1, SetIsRead
    <3> QED BY <1>2, <1>5, <3>1, <3>2, ActStep
  <2>4. CASE UNCHANGED entry
    BY <1>1, <2>4, GetStays, ReturnStep
  <2> QED BY <2>1, <2>2, <2>3, <2>4
<1> QED BY <1>1, <1>3, <1>4, <1>5

\* A call of a backend begins as a call of the contract.
LEMMA BeginStep ==
  ASSUME Typed, NEW t \in Callers, NEW s \in Sessions, NEW v \in Values \cup {None},
         NEW op \in {"create", "update", "delete", "extend"}, Begin(t, op, s, v)
  PROVE  Contract!ContractNext
<1> DEFINE new == [NoCall EXCEPT !.op = op, !.session = s, !.value = v, !.begun = clock,
                                 !.pc = IF op = "create" THEN "write" ELSE "look"]
<1>1. /\ new.op = op /\ new.session = s /\ new.value = v /\ new.copy = None
      /\ new.pc \in {"look", "write"}
  BY DEF NoCall
<1>2. call' = [call EXCEPT ![t] = new] /\ call[t] = NoCall
  BY DEF Begin
<1> HIDE DEF new
<1>3. call'[t] = new /\ new # NoCall
  BY <1>1, <1>2 DEF Typed, TypeOK, NoCall
<1>4. Calling(t)' = [op |-> op, session |-> s, value |-> v, seen |-> {}]
  BY <1>1, <1>3 DEF Calling
<1>5. Called[t] = Contract!Idle
  BY <1>2, CallingShape DEF Called
<1>6. Data' = Data
  BY GetStays DEF Begin, Data
<1>7. Contract!Begin(t, op, s, v)
  BY <1>2, <1>4, <1>5, <1>6, OtherCalls DEF Contract!Begin, Data, Called
<1> QED BY <1>7 DEF Contract!ContractNext

\* The first command sees the session, or ends the call.
LEMMA LookStep ==
  ASSUME Typed, NEW t \in Callers, Look(t)
  PROVE  Contract!ContractNext
<1> DEFINE c == call[t]
<1>1. /\ c # NoCall /\ c.session \in Sessions /\ c.copy = None /\ c \in Calls
      /\ c.op \in {"update", "create", "delete", "extend"} /\ c.pc = "look"
  BY CallShape DEF Look, Ready, NoCall
<1>2. \A s \in Sessions : Get(s)' = Get(s)
  BY GetStays DEF Look
<1>3. CASE ~Alive(entry[c.session])
  BY <1>1, <1>2, <1>3, ReturnStep, ReturnsIdle DEF Look, Return
<1>4. CASE Alive(entry[c.session])
  <2> DEFINE v == entry[c.session].value
             new == [c EXCEPT !.pc = "write", !.copy = v]
  <2>1. v \in Values /\ v = Get(c.session) /\ v # None
    BY <1>1, <1>4, EntryType, BackendNone DEF Get
  <2>2. call' = [call EXCEPT ![t] = new]
    BY <1>4 DEF Look, Typed, TypeOK
  <2>3. /\ new.op = c.op /\ new.session = c.session /\ new.value = c.value
        /\ new.copy = v /\ new.pc = "write" /\ new # NoCall
    BY <1>1 DEF Calls, NoCall
  <2> HIDE DEF new
  <2>4. call'[t] = new
    BY <2>2 DEF Typed, TypeOK
  <2>5. Calling(t)' = [op |-> c.op, session |-> c.session, value |-> c.value, seen |-> {v}]
    BY <2>1, <2>3, <2>4 DEF Calling
  <2>6. Called[t] = [op |-> c.op, session |-> c.session, value |-> c.value, seen |-> {}]
    BY <1>1, CallingShape DEF Called
  <2>7. Contract!There(c.session) = {v}
    BY <1>1, <2>1 DEF Contract!There
  <2>8. Data' = Data
    BY <1>2 DEF Data
  <2>9. Called' = [Called EXCEPT ![t].seen = @ \cup Contract!There(Called[t].session)]
    <3>1. Called[t].session = c.session /\ Called[t].seen = {}
      BY <2>6
    <3>2. Contract!There(Called[t].session) = {v}
      BY <2>7, <3>1
    <3>3. Calling(t)' = [Called[t] EXCEPT !.seen = @ \cup {v}]
      BY <2>5, <2>6
    <3>4. Called' = [Called EXCEPT ![t] = [Called[t] EXCEPT !.seen = @ \cup {v}]]
      BY <2>2, <3>3, OtherCalls
    <3> QED BY <3>2, <3>4
  <2>10. Contract!Under(t) /\ Contract!There(Called[t].session) # {}
    BY <1>1, <2>6, <2>7 DEF Contract!Under, Called
  <2>11. Contract!See(t)
    BY <2>8, <2>9, <2>10, Zenon DEF Contract!See, Data, Called
  <2> QED BY <2>11 DEF Contract!ContractNext
<1> QED BY <1>3, <1>4

\* In memory a call acts, or finds nothing and ends.
LEMMA MemoryStep ==
  ASSUME Typed, NEW t \in Callers, CallMemory(t)
  PROVE  Contract!ContractNext
<1> DEFINE c == call[t]
<1>1. /\ c # NoCall /\ c.session \in Sessions /\ c.pc \in {"look", "write"}
      /\ c.op \in {"create", "update", "delete", "extend"}
      /\ c.op \in {"create", "update"} => c.value \in Values
  BY CallShape DEF CallMemory, Ready, NoCall
<1>2. /\ call' = [call EXCEPT ![t] = NoCall] /\ UNCHANGED <<settings, clock>>
      /\ Calling(t)' \in {Contract!Idle, Contract!Over}
  BY ReturnsIdle DEF CallMemory, Return
<1>3. Alive(entry[c.session]) => /\ entry[c.session].value \in Values
                                 /\ entry[c.session].value = Get(c.session)
  BY <1>1, EntryType DEF Get
<1>4. None \notin Values
  BY BackendNone
<1>5. ASSUME NEW v \in Values, SetEntry(t, v),
             \/ c.op = "create" /\ v = c.value
             \/ c.op = "update" /\ v = c.value /\ Get(c.session) # None
             \/ c.op = "extend" /\ v = Get(c.session)
      PROVE  Contract!ContractNext
  <2>1. \A s \in Sessions : Get(s)' = IF s = c.session THEN v ELSE Get(s)
    BY <1>1, <1>2, <1>5, SetIsRead
  <2> QED BY <1>1, <1>2, <1>4, <1>5, <2>1, ActStep
<1>6. CASE c.op = "delete"
  <2>1. \A s \in Sessions : Get(s)' = IF s = c.session THEN None ELSE Get(s)
    BY <1>2, <1>6, DropIsRead DEF CallMemory
  <2> QED BY <1>1, <1>2, <1>6, <2>1, ActStep
<1>7. CASE UNCHANGED entry
  BY <1>1, <1>2, <1>7, GetStays, ReturnStep
<1>8. CASE c.op = "create"
  BY <1>1, <1>5, <1>8 DEF CallMemory
<1>9. CASE c.op = "update"
  BY <1>1, <1>3, <1>4, <1>5, <1>7, <1>9 DEF CallMemory
<1>10. CASE c.op = "extend"
  BY <1>1, <1>3, <1>4, <1>5, <1>7, <1>10 DEF CallMemory
<1> QED BY <1>1, <1>6, <1>8, <1>9, <1>10

\* Every step of a backend is one of the contract, or changes nothing it knows of.
LEMMA ContractStep ==
  ASSUME Typed, [Next]_vars
  PROVE  [Contract!ContractNext]_(Contract!contractVars)
<1>1. ASSUME NEW t \in Callers, WriteRedis(t) PROVE Contract!ContractNext
  BY <1>1, WriteStep, ReturnsIdle DEF WriteRedis, Return
<1>2. ASSUME NEW t \in Callers, WriteMemcached(t) PROVE Contract!ContractNext
  <2> DEFINE new == [call[t] EXCEPT !.pc = "read_list"]
  <2>1. call' = [call EXCEPT ![t] = new] /\ call'[t] = new
    BY <1>2 DEF WriteMemcached, Goto, Typed, TypeOK
  <2>2. new.pc = "read_list" /\ new # NoCall
    BY CallShape DEF Calls, NoCall
  <2> HIDE DEF new
  <2>3. Calling(t)' = Contract!Over
    BY <2>1, <2>2 DEF Calling, Contract!Over, Contract!Idle
  <2> QED BY <1>2, <2>1, <2>3, WriteStep DEF WriteMemcached
<1>3. ASSUME NEW t \in Callers, call[t] # NoCall, UNCHANGED <<settings, clock, entry>>,
             call' = [call EXCEPT ![t] = NoCall]
      PROVE  Contract!ContractNext
  BY <1>3, GetStays, ReturnStep, ReturnsIdle
<1>4. ASSUME NEW t \in Callers, ReadList(t)
      PROVE  [Contract!ContractNext]_(Contract!contractVars)
  <2>1. call[t] # NoCall /\ call[t] \in Calls
    BY <1>4, CallShape DEF ReadList, NoCall
  <2>2. CASE Return(t)
    BY <1>3, <1>4, <2>1, <2>2 DEF ReadList, Return
  <2>3. CASE call' = [call EXCEPT ![t].pc = "write_list", ![t].list = Listed(t)]
    <3> DEFINE new == [call[t] EXCEPT !.pc = "write_list", !.list = Listed(t)]
    <3>1. call' = [call EXCEPT ![t] = new] /\ call'[t] = new
      BY <2>3 DEF Typed, TypeOK
    <3>2. new.pc = "write_list" /\ new # NoCall
      BY <2>1 DEF Calls, NoCall
    <3> HIDE DEF new
    <3>3. Calling(t)' = Contract!Over /\ Called[t] = Contract!Over
      BY <1>4, <3>1, <3>2, CallingShape DEF Calling, Called, ReadList, Contract!Over, Contract!Idle
    <3>4. Called' = Called
      BY <3>1, <3>3, OtherCalls DEF Called
    <3>5. Data' = Data
      BY <1>4, GetStays DEF ReadList, Data
    <3> QED BY <3>4, <3>5 DEF Contract!contractVars, Data, Called
  <2> QED BY <1>4, <2>2, <2>3 DEF ReadList
<1>5. ASSUME NEW t \in Callers, WriteList(t) PROVE Contract!ContractNext
  <2>1. call[t] # NoCall
    BY <1>5 DEF WriteList, NoCall
  <2> QED BY <1>3, <1>5, <2>1 DEF WriteList, Return
<1>6. ASSUME NEW t \in Callers, Fail(t) PROVE Contract!ContractNext
  <2>1. UNCHANGED <<settings, clock>> /\ call' = [call EXCEPT ![t] = NoCall] /\ call[t] # NoCall
    BY <1>6 DEF Fail
  <2>2. CASE UNCHANGED entry
    BY <1>3, <2>1, <2>2
  <2>3. CASE call[t].pc = "write" /\ (Transaction(t) \/ Change(t))
    BY <2>1, <2>3, WriteStep, ReturnsIdle
  <2> QED BY <1>6, <2>2, <2>3 DEF Fail
<1>7. ASSUME NEW gone \in SUBSET Sessions, NEW lists \in SUBSET Users, DropKeys(gone, lists)
      PROVE  Contract!ContractNext
  <2>1. \A s \in Sessions : Get(s)' = IF s \in gone THEN None ELSE Get(s)
    BY <1>7 DEF DropKeys, Get, Alive, settings
  <2> QED BY <1>7, <2>1, VanishStep DEF DropKeys
<1>8. ASSUME Tick PROVE Contract!ContractNext
  <2> DEFINE gone == {s \in Sessions : ~Alive(entry[s])'}
  <2>1. clock \in Nat /\ clock' = clock + 1 /\ UNCHANGED <<settings, entry, call>>
    BY <1>8 DEF Tick, Typed, TypeOK
  <2>2. \A s \in Sessions : Alive(entry[s]) => entry[s].until \in Nat
    BY EntryType DEF Entries
  <2>3. \A s \in Sessions : Alive(entry[s])' => Alive(entry[s])
    BY <2>1, <2>2 DEF Alive, settings, Typed, TypeOK, Entries
  <2>4. \A s \in Sessions : Get(s)' = IF s \in gone THEN None ELSE Get(s)
    BY <2>1, <2>3 DEF Get
  <2> QED BY <2>1, <2>4, VanishStep
<1>9. CASE UNCHANGED vars
  <2>1. Data' = Data /\ Called' = Called
    BY <1>9, GetStays DEF vars, Data, Called, Calling
  <2> QED BY <2>1 DEF Contract!contractVars, Data, Called
<1> QED BY <1>1, <1>2, <1>4, <1>5, <1>6, <1>7, <1>8, <1>9, BeginStep, LookStep, MemoryStep
        DEF Next

\* On each of the three backends, in any interleaving of calls, with failures, dropped
\* keys and expiry, a session is answered only what the contract of the storage allows.
THEOREM BackendsKeepContract == Spec => KeepsContract
<1>1. Init => Contract!ContractInit
  BY DEF Init, Contract!ContractInit, Get, Alive, Calling, Contract!Idle
<1>2. Typed /\ [Next]_vars => [Contract!ContractNext]_(Contract!contractVars)
  BY ContractStep
<1> QED BY <1>1, <1>2, TypedAlways, PTL DEF Spec, KeepsContract, Contract!ContractSpec

------------------------------------------------------------------------
(***************************************************************************)
(* A session that can be read is in the list of its user, except for the   *)
(* reasons ListedUnlessRaced names: for any users, sessions, callers and   *)
(* timeouts, on every backend.                                             *)
(***************************************************************************)

------------------------------------------------------------------------
(* The calls under way.                                                   *)

Of(s) == {t \in Callers : call[t].session = s}

\* Time does not outrun a call, and no session lives longer than its timeout.
Timely ==
  /\ \A t \in Callers : call[t] # NoCall =>
       clock <= call[t].begun + Grace /\ call[t].begun <= clock
  /\ \A s \in Sessions : entry[s] # None => entry[s].until <= clock + timeout

\* Nobody else has the session that a create makes, and its list will have it.
Creating(t) ==
  call[t].op = "create" =>
    /\ call[t].session \notin known /\ Of(call[t].session) = {t}
    /\ call[t].pc # "look"
    /\ call[t].pc = "write_list" => call[t].session \in call[t].list

\* Lists are written apart on memcached only, and two at once are noticed.
Lone ==
  /\ \A t \in Callers : call[t].pc \in {"read_list", "write_list"} => backend = "memcached"
  /\ \A t, q \in Callers :
       call[t].pc = "write_list" /\ call[q].pc = "write_list" /\ OwnerOf(t) = OwnerOf(q) =>
         t = q \/ OwnerOf(t) \in overlapped

Orderly == Typed /\ Timely /\ Lone /\ \A t \in Callers : Creating(t)

\* A call under way takes a step, or ends.
Others(t) == \A q \in Callers \ {t} : call'[q] = call[q]
Ends(t) ==
  /\ call[t] # NoCall /\ Others(t) /\ call'[t] = NoCall
  /\ known' \subseteq known \cup (IF call[t].op = "create" THEN {call[t].session} ELSE {})
Moves(t) ==
  /\ call[t] # NoCall /\ Others(t) /\ UNCHANGED known
  /\ call'[t].op = call[t].op /\ call'[t].session = call[t].session
  /\ call'[t].begun = call[t].begun /\ call'[t].pc # "look"
  /\ call'[t].pc \in {"read_list", "write_list"} => backend = "memcached"
  /\ call'[t].pc = "write_list" =>
       /\ call'[t].list = Listed(t)
       /\ Writing(t) => OwnerOf(t) \in overlapped'
Begins(t) ==
  \E op \in {"create", "update", "delete", "extend"}, s \in Sessions, v \in Values \cup {None} :
    Begin(t, op, s, v)

\* A call that is over.
LEMMA ReturnEnds ==
  ASSUME Typed, NEW t \in Callers, call[t] # NoCall, Return(t)
  PROVE  Ends(t)
BY DEF Typed, TypeOK, Return, Ends, Others

\* What a step does to the calls.
LEMMA CallSteps ==
  ASSUME Orderly, [Next]_vars
  PROVE  \/ UNCHANGED <<call, known>>
         \/ \E t \in Callers : Begins(t) \/ Ends(t) \/ Moves(t)
<1>t. Typed /\ Lone
  BY DEF Orderly
<1>1. ASSUME NEW t \in Callers, CallMemory(t) \/ WriteRedis(t) \/ WriteList(t) PROVE Ends(t)
  BY <1>1, <1>t, ReturnEnds DEF CallMemory, WriteRedis, WriteList, NoCall
<1>2. ASSUME NEW t \in Callers, Fail(t) PROVE Ends(t)
  BY <1>2, <1>t DEF Fail, Ends, Others, Typed, TypeOK
<1>3. ASSUME NEW t \in Callers, Look(t) PROVE Ends(t) \/ Moves(t)
  <2>1. call[t] # NoCall /\ call[t] \in Calls
    BY <1>3, <1>t, CallShape DEF Look, NoCall
  <2>2. CASE Alive(entry[call[t].session])
    BY <1>3, <1>t, <2>1, <2>2 DEF Look, Moves, Others, Typed, TypeOK, Calls
  <2> QED BY <1>3, <1>t, <2>1, <2>2, ReturnEnds DEF Look
<1>4. ASSUME NEW t \in Callers, WriteMemcached(t) PROVE Moves(t)
  <2>1. call[t] # NoCall /\ call[t] \in Calls
    BY <1>4, <1>t, CallShape DEF WriteMemcached, NoCall
  <2> QED BY <1>4, <1>t, <2>1
          DEF WriteMemcached, Goto, On, Moves, Others, Typed, TypeOK, Calls, history
<1>5. ASSUME NEW t \in Callers, ReadList(t) PROVE Ends(t) \/ Moves(t)
  <2>1. call[t] # NoCall /\ call[t] \in Calls /\ backend = "memcached"
    BY <1>5, <1>t, CallShape DEF ReadList, NoCall, Lone
  <2>2. CASE Return(t)
    BY <1>t, <2>1, <2>2, ReturnEnds
  <2>3. CASE /\ call' = [call EXCEPT ![t].pc = "write_list", ![t].list = Listed(t)]
             /\ overlapped' = IF Writing(t) THEN overlapped \cup {OwnerOf(t)} ELSE overlapped
             /\ UNCHANGED known
    <3>1. Others(t) /\ call'[t] = [call[t] EXCEPT !.pc = "write_list", !.list = Listed(t)]
      BY <1>t, <2>3 DEF Others, Typed, TypeOK
    <3>2. /\ call'[t].op = call[t].op /\ call'[t].session = call[t].session
          /\ call'[t].begun = call[t].begun /\ call'[t].pc = "write_list"
          /\ call'[t].list = Listed(t)
      BY <2>1, <3>1 DEF Calls
    <3>3. Writing(t) => OwnerOf(t) \in overlapped'
      BY <2>3
    <3> QED BY <2>1, <2>3, <3>1, <3>2, <3>3 DEF Moves
  <2> QED BY <1>5, <2>2, <2>3 DEF ReadList
<1>6. CASE \E gone \in SUBSET Sessions, lists \in SUBSET Users : DropKeys(gone, lists)
  BY <1>6 DEF DropKeys
<1>7. CASE Tick \/ UNCHANGED vars
  BY <1>7 DEF Tick, vars, history
<1> QED BY <1>1, <1>2, <1>3, <1>4, <1>5, <1>6, <1>7 DEF Next, Begins

\* Only Tick changes the time, and nothing undoes the history.
LEMMA ClockSteps ==
  ASSUME [Next]_vars
  PROVE  /\ UNCHANGED settings /\ (UNCHANGED clock \/ Tick)
         /\ overlapped \subseteq overlapped' /\ hurt \subseteq hurt' /\ shortened \subseteq shortened'
<1>1. ASSUME NEW t \in Callers, Begins(t)
      PROVE  UNCHANGED <<settings, clock, overlapped, hurt, shortened>>
  BY <1>1 DEF Begins, Begin, history
<1>2. ASSUME NEW t \in Callers,
             \/ CallMemory(t) \/ Look(t) \/ WriteRedis(t)
             \/ WriteMemcached(t) \/ ReadList(t) \/ WriteList(t) \/ Fail(t)
      PROVE  /\ UNCHANGED <<settings, clock>>
             /\ overlapped \subseteq overlapped' /\ hurt \subseteq hurt'
             /\ shortened \subseteq shortened'
  BY <1>2 DEF CallMemory, Look, WriteRedis, WriteMemcached, ReadList, WriteList, Fail, history
<1>3. CASE \E gone \in SUBSET Sessions, lists \in SUBSET Users : DropKeys(gone, lists)
  BY <1>3 DEF DropKeys
<1>4. CASE Tick
  BY <1>4 DEF Tick, history
<1>5. CASE UNCHANGED vars
  BY <1>5 DEF vars, history
<1> QED BY <1>1, <1>2, <1>3, <1>4, <1>5 DEF Next, Begins

\* What a step does to a session: nothing, or it is gone, or it has a new life.
LEMMA EntrySteps ==
  ASSUME Typed, [Next]_vars, NEW s \in Sessions
  PROVE  entry'[s] \in {None, entry[s]} \/ entry'[s].until = clock + timeout
<1> DEFINE Same == entry'[s] \in {None, entry[s]}
           New == entry'[s].until = clock + timeout
<1>t. /\ entry \in [Sessions -> Entries \cup {None}] /\ clock \in Nat
      /\ Until(timeout) = clock + timeout
  BY BackendConstants DEF Typed, TypeOK, Until
<1>1. ASSUME NEW t \in Callers, NEW v, SetEntry(t, v) PROVE Same \/ New
  BY <1>t, <1>1 DEF SetEntry
<1>2. ASSUME NEW t \in Callers, DropEntry(t) PROVE Same
  BY <1>t, <1>2 DEF DropEntry
<1>3. ASSUME UNCHANGED entry PROVE Same
  BY <1>3
<1> HIDE DEF Same, New
<1>4. ASSUME NEW t \in Callers, Transaction(t) \/ Change(t) PROVE Same \/ New
  BY <1>1, <1>2, <1>3, <1>4 DEF Transaction, Change
<1>5. ASSUME NEW t \in Callers, CallMemory(t) PROVE Same \/ New
  BY <1>1, <1>2, <1>3, <1>5 DEF CallMemory
<1>6. ASSUME NEW t \in Callers, Fail(t) PROVE Same \/ New
  BY <1>3, <1>4, <1>6 DEF Fail
<1>7. ASSUME NEW t \in Callers, WriteRedis(t) \/ WriteMemcached(t) PROVE Same \/ New
  BY <1>4, <1>7 DEF WriteRedis, WriteMemcached
<1>8. ASSUME NEW t \in Callers, Begins(t) \/ Look(t) \/ ReadList(t) \/ WriteList(t) PROVE Same
  BY <1>3, <1>8 DEF Begins, Begin, Look, ReadList, WriteList
<1>9. CASE \E gone \in SUBSET Sessions, lists \in SUBSET Users : DropKeys(gone, lists)
  BY <1>9, <1>t DEF DropKeys, Same
<1>10. CASE Tick
  BY <1>3, <1>10 DEF Tick, Same
<1>11. CASE UNCHANGED vars
  BY <1>3, <1>11 DEF vars, Same
<1>12. ASSUME NEW t \in Callers,
              \/ Begins(t) \/ CallMemory(t) \/ Look(t) \/ WriteRedis(t)
              \/ WriteMemcached(t) \/ ReadList(t) \/ WriteList(t) \/ Fail(t)
       PROVE  Same \/ New
  BY <1>5, <1>6, <1>7, <1>8, <1>12
<1>13. CASE \E t \in Callers :
                \/ Begins(t) \/ CallMemory(t) \/ Look(t) \/ WriteRedis(t)
                \/ WriteMemcached(t) \/ ReadList(t) \/ WriteList(t) \/ Fail(t)
  BY <1>12, <1>13 DEF Same, New
<1> QED BY <1>9, <1>10, <1>11, <1>13 DEF Next, Begins

\* So the calls stay orderly.
LEMMA OrderlyStep == Orderly /\ [Next]_vars => Orderly'
<1> SUFFICES ASSUME Orderly, [Next]_vars PROVE Orderly'
  OBVIOUS
<1>t. /\ Typed /\ Timely /\ Lone /\ \A t \in Callers : Creating(t)
      /\ Typed'
  BY TypedStep DEF Orderly
<1>c. /\ \A t \in Callers : call[t] # NoCall =>
           call[t].begun \in Nat /\ call[t].session \in Sessions
      /\ \A t \in Callers : call[t] = NoCall =>
           call[t].pc = "idle" /\ call[t].session = None /\ call[t].op = "none"
      /\ clock \in Nat /\ Grace \in Nat \ {0} /\ timeout \in Nat
      /\ \A s \in Sessions : entry[s] # None => entry[s].until \in Nat
      /\ None \notin Sessions
  <2>1. \A t \in Callers : call[t] # NoCall => call[t].begun \in Nat /\ call[t].session \in Sessions
    BY <1>t, CallShape DEF Calls, Ready
  <2>2. NoCall.pc = "idle" /\ NoCall.session = None /\ NoCall.op = "none"
    BY DEF NoCall
  <2> QED BY <1>t, <2>1, <2>2, BackendConstants, BackendNone DEF Typed, TypeOK, Entries
<1>e. ASSUME NEW t \in Callers, Ends(t)
      PROVE  /\ call'[t].pc = "idle" /\ call'[t].session = None /\ call'[t].op = "none"
             /\ call'[t] = NoCall
  BY <1>e DEF Ends, NoCall
<1>b. ASSUME NEW t \in Callers, Begins(t)
      PROVE  /\ Others(t) /\ UNCHANGED known /\ call[t] = NoCall
             /\ call'[t].begun = clock /\ call'[t].pc \in {"look", "write"}
             /\ call'[t].session \in Sessions
             /\ IF call'[t].op = "create"
                THEN Fresh(call'[t].session) /\ call'[t].pc = "write"
                ELSE call'[t].session \in known
  <2> PICK op \in {"create", "update", "delete", "extend"}, s \in Sessions,
           v \in Values \cup {None} : Begin(t, op, s, v)
    BY <1>b DEF Begins
  <2>1. call'[t] = [NoCall EXCEPT !.op = op, !.session = s, !.value = v, !.begun = clock,
                                  !.pc = IF op = "create" THEN "write" ELSE "look"]
    BY <1>t DEF Begin, Typed, TypeOK
  <2>2. /\ call'[t].op = op /\ call'[t].session = s /\ call'[t].begun = clock
        /\ call'[t].pc = IF op = "create" THEN "write" ELSE "look"
    BY <2>1 DEF NoCall
  <2> QED BY <1>t, <2>2 DEF Begin, Others, Typed, TypeOK, history
<1>1. Timely'
  <2>1. \A t \in Callers : call'[t] # NoCall =>
          clock' <= call'[t].begun + Grace /\ call'[t].begun <= clock'
    <3>1. CASE Tick
      BY <1>t, <1>c, <3>1 DEF Tick, Timely
    <3>2. CASE UNCHANGED clock
      <4>1. CASE UNCHANGED call
        BY <1>t, <3>2, <4>1 DEF Timely
      <4>2. ASSUME NEW t \in Callers, Begins(t) \/ Ends(t) \/ Moves(t)
            PROVE  \A q \in Callers : call'[q] # NoCall =>
                     clock <= call'[q].begun + Grace /\ call'[q].begun <= clock
        BY <1>t, <1>c, <1>b, <1>e, <4>2 DEF Timely, Ends, Moves, Others
      <4> QED BY <3>2, <4>1, <4>2, CallSteps
    <3> QED BY <3>1, <3>2, ClockSteps
  <2>2. \A s \in Sessions : entry'[s] # None => entry'[s].until <= clock' + timeout'
    <3>1. clock <= clock' /\ clock' \in Nat /\ timeout' = timeout
      BY <1>c, ClockSteps DEF Tick, settings
    <3> QED BY <1>t, <1>c, <3>1, EntrySteps DEF Timely
  <2> QED BY <2>1, <2>2 DEF Timely
<1>2. Lone'
  <2>1. \A t \in Callers : call'[t].pc \in {"read_list", "write_list"} => backend' = "memcached"
    <3>1. backend' = backend
      BY ClockSteps DEF settings
    <3>2. CASE UNCHANGED call
      BY <1>t, <3>1, <3>2 DEF Lone
    <3>3. ASSUME NEW t \in Callers, Begins(t) \/ Ends(t) \/ Moves(t)
          PROVE  \A q \in Callers : call'[q].pc \in {"read_list", "write_list"} => backend = "memcached"
      BY <1>t, <1>b, <1>e, <3>3 DEF Lone, Ends, Moves, Others
    <3> QED BY <3>1, <3>2, <3>3, CallSteps
  <2>2. ASSUME NEW p \in Callers, NEW q \in Callers, p # q, call'[p].pc = "write_list",
               call'[q].pc = "write_list", OwnerOf(p)' = OwnerOf(q)'
        PROVE  OwnerOf(p)' \in overlapped'
    <3>1. CASE UNCHANGED call
      BY <1>t, <2>2, <3>1, ClockSteps DEF Lone, OwnerOf
    <3>2. ASSUME NEW t \in Callers, Begins(t) \/ Ends(t) \/ Moves(t)
          PROVE  OwnerOf(p)' \in overlapped'
      <4>1. CASE Begins(t) \/ Ends(t) \/ t \notin {p, q}
        <5>1. call'[p] = call[p] /\ call'[q] = call[q]
          BY <1>b, <1>e, <2>2, <3>2, <4>1 DEF Ends, Moves, Others
        <5> QED BY <1>t, <2>2, <5>1, ClockSteps DEF Lone, OwnerOf
      <4>2. ASSUME NEW r \in Callers, Moves(t), r # t, call'[t].pc = "write_list",
                   call'[r].pc = "write_list", OwnerOf(t)' = OwnerOf(r)'
            PROVE  OwnerOf(t)' \in overlapped'
        BY <4>2 DEF Moves, Others, Writing, OwnerOf
      <4> QED BY <2>2, <3>2, <4>1, <4>2
    <3> QED BY <3>1, <3>2, CallSteps
  <2> QED BY <2>1, <2>2 DEF Lone
<1> DEFINE Same(s) == {p \in Callers : call'[p].session = s}
<1>3. ASSUME NEW q \in Callers, call'[q].op = "create"
      PROVE  /\ call'[q].session \notin known' /\ Same(call'[q].session) = {q}
             /\ call'[q].pc # "look"
             /\ call'[q].pc = "write_list" => call'[q].session \in call'[q].list
  <2>1. CASE UNCHANGED <<call, known>>
    BY <1>t, <1>3, <2>1 DEF Creating, Of
  <2>2. ASSUME NEW t \in Callers, Begins(t) \/ Ends(t) \/ Moves(t)
        PROVE  /\ call'[q].session \notin known' /\ Same(call'[q].session) = {q}
               /\ call'[q].pc # "look"
               /\ call'[q].pc = "write_list" => call'[q].session \in call'[q].list
    <3>1. CASE Begins(t)
      BY <1>t, <1>c, <1>b, <1>3, <3>1 DEF Creating, Of, Others, Fresh
    <3>2. CASE Ends(t)
      BY <1>t, <1>c, <1>e, <1>3, <3>2 DEF Creating, Of, Others, Ends
    <3>3. CASE Moves(t)
      <4>1. \A p \in Callers : call'[p].session = call[p].session /\ call'[p].op = call[p].op
        BY <3>3 DEF Moves, Others
      <4>2. Same(call'[q].session) = Of(call[q].session)
        BY <4>1 DEF Of
      <4> QED BY <1>t, <1>3, <3>3, <4>1, <4>2 DEF Creating, Others, Moves, Listed
    <3> QED BY <2>2, <3>1, <3>2, <3>3
  <2> QED BY <2>1, <2>2, CallSteps
<1>4. \A q \in Callers : Creating(q)'
  BY <1>3 DEF Creating, Of
<1> QED BY <1>t, <1>1, <1>2, <1>4 DEF Orderly

------------------------------------------------------------------------
(* The list of a user.                                                    *)

\* What ListedUnlessRaced grants.
Exempt(u) ==
  \/ u \in hurt
  \/ /\ backend = "memcached"
     /\ \/ u \in overlapped
        \/ timeout + Grace > Month
        \/ timeout + Grace > Day /\ u \in shortened

\* A call that has found its session and gives it a new life; on memcached,
\* once the session has it and its list does not.
Keeping(t) ==
  call[t].op \in {"update", "extend"} /\ call[t].pc \in {"write", "read_list", "write_list"}
Ahead(t) == Keeping(t) /\ call[t].pc \in {"read_list", "write_list"}

\* Session s can be read, or will be when a call is over.
Needed(s) == Alive(entry[s]) \/ \E t \in Of(s) : Keeping(t)

\* The list of its user outlives session s, and the calls that keep it.
Outlasted(s) ==
  LET until == index[UserOf[s]].until IN
  \/ \E t \in Of(s) : Ahead(t) /\ until > call[t].begun + Grace
  \/ /\ entry[s] # None => until >= entry[s].until + Grace
     /\ \A t \in Of(s) : Keeping(t) => until > call[t].begun + Grace

\* Session s is in the list, and in the lists that are about to be written.
Listing(s) ==
  /\ index[UserOf[s]] # None /\ s \in index[UserOf[s]].ids
  /\ Outlasted(s)
  /\ \A t \in Callers :
       call[t].pc = "write_list" /\ OwnerOf(t) = UserOf[s] =>
         s \in call[t].list \/ (call[t].op = "delete" /\ call[t].session = s)

Kept(s) == backend # "memory" /\ ~Exempt(UserOf[s]) /\ Needed(s) => Listing(s)

\* The numbers that are compared.
Measured ==
  /\ clock \in Nat /\ timeout \in Nat \ {0} /\ Grace \in Nat \ {0}
  /\ Day \in Nat /\ Month \in Nat /\ Day <= Month /\ timeout <= Month
  /\ \A t \in Callers : Keeping(t) => call[t] # NoCall
  /\ \A t \in Callers : call[t] # NoCall =>
       /\ call[t].begun \in Nat /\ call[t].begun <= clock
       /\ clock <= call[t].begun + Grace
  /\ \A s \in Sessions : entry[s] # None =>
       entry[s].until \in Nat /\ entry[s].until <= clock + timeout
  /\ \A u \in Users : index[u] # None => index[u].until \in Nat
  /\ \A s \in Sessions : UserOf[s] \in Users
  /\ known \subseteq Sessions

\* They are numbers, and keep their distance.
LEMMA OrderlyIsMeasured == Orderly => Measured
<1> SUFFICES ASSUME Orderly PROVE Measured
  OBVIOUS
<1>1. \A t \in Callers : call[t] # NoCall => call[t].begun \in Nat
  BY CallShape DEF Orderly, Calls
<1>2. NoCall.op = "none"
  BY DEF NoCall
<1> QED BY <1>1, <1>2, BackendConstants
        DEF Orderly, Typed, TypeOK, Timely, Entries, Lists, Keeping, Measured

\* And after a step.
LEMMA MeasuredNext == Orderly' => Measured'
BY OrderlyIsMeasured, PTL

\* The list of a session that can be read has not expired.
LEMMA ListIsRead ==
  ASSUME Orderly, NEW s \in Sessions, backend # "memory", Needed(s), Listing(s)
  PROVE  /\ Alive(index[UserOf[s]]) /\ s \in GetUserSessions(UserOf[s])
         /\ GetUserSessions(UserOf[s]) = index[UserOf[s]].ids
<1> DEFINE until == index[UserOf[s]].until
<1>1. until \in Nat
  BY OrderlyIsMeasured DEF Measured, Listing
<1>2. clock < until
  <2>1. ASSUME NEW t \in Of(s), Keeping(t), until > call[t].begun + Grace PROVE clock < until
    BY <1>1, <2>1, OrderlyIsMeasured DEF Measured, Of
  <2>2. CASE \E t \in Of(s) : Ahead(t) /\ until > call[t].begun + Grace
    BY <2>1, <2>2 DEF Ahead
  <2>3. CASE /\ entry[s] # None => until >= entry[s].until + Grace
             /\ \A t \in Of(s) : Keeping(t) => until > call[t].begun + Grace
    <3>1. CASE Alive(entry[s])
      BY <1>1, <2>3, <3>1, OrderlyIsMeasured DEF Measured, Alive
    <3>2. CASE \E t \in Of(s) : Keeping(t)
      BY <2>1, <2>3, <3>2
    <3> QED BY <3>1, <3>2 DEF Needed
  <2> QED BY <2>2, <2>3 DEF Listing, Outlasted
<1> QED BY <1>2 DEF Alive, GetUserSessions, Listing

\* What excuses a user stays.
LEMMA ExcusesStay ==
  ASSUME [Next]_vars, NEW u, Exempt(u)
  PROVE  Exempt(u)'
BY ClockSteps DEF Exempt, settings

\* A step that leaves the list of session s alone and gives the session no new life.
Undisturbed(s) ==
  /\ index[UserOf[s]] # None =>
       /\ index'[UserOf[s]] # None /\ index'[UserOf[s]].until = index[UserOf[s]].until
       /\ s \in index[UserOf[s]].ids => s \in index'[UserOf[s]].ids
  /\ entry'[s] \in {None, entry[s]}
  /\ \A t \in Callers :
       \/ call'[t] = call[t]
       \/ /\ call[t].session = s => ~Ahead(t)
          /\ call'[t].session = s => ~Keeping(t)'
          /\ OwnerOf(t)' = UserOf[s] => call'[t].pc # "write_list"

\* Then nothing the list stands for has changed.
LEMMA UndisturbedIsKept ==
  ASSUME Orderly, [Next]_vars, NEW s \in Sessions, Kept(s), Undisturbed(s)
  PROVE  Kept(s)'
<1> SUFFICES ASSUME backend' # "memory", ~Exempt(UserOf[s])', Needed(s)'
             PROVE  Listing(s)'
  BY DEF Kept
<1>1. backend # "memory" /\ ~Exempt(UserOf[s])
  BY ClockSteps, ExcusesStay DEF settings
<1>2. ASSUME NEW t \in Callers, call'[t].session = s, Keeping(t)'
      PROVE  call'[t] = call[t] /\ t \in Of(s) /\ Keeping(t)
  BY <1>2 DEF Undisturbed, Of, Keeping
<1>3. Alive(entry[s])' => Alive(entry[s])
  BY ClockSteps, OrderlyIsMeasured DEF Measured, Tick, Undisturbed, Alive, settings
<1>4. Needed(s)
  BY <1>2, <1>3 DEF Needed, Of
<1>5. Listing(s)
  BY <1>1, <1>4 DEF Kept
<1>6. Outlasted(s)'
  <2> DEFINE until == index[UserOf[s]].until
  <2>1. index'[UserOf[s]].until = until
    BY <1>5 DEF Undisturbed, Listing
  <2>2. CASE \E t \in Of(s) : Ahead(t) /\ until > call[t].begun + Grace
    <3> PICK t \in Of(s) : Ahead(t) /\ until > call[t].begun + Grace
      BY <2>2
    <3>1. call'[t] = call[t] /\ t \in Of(s)' /\ Ahead(t)'
      BY DEF Undisturbed, Of, Ahead, Keeping
    <3> QED BY <2>1, <3>1 DEF Outlasted
  <2>3. CASE /\ entry[s] # None => until >= entry[s].until + Grace
             /\ \A t \in Of(s) : Keeping(t) => until > call[t].begun + Grace
    <3>1. entry'[s] # None => until >= entry'[s].until + Grace
      BY <2>3 DEF Undisturbed
    <3>2. \A t \in Of(s)' : Keeping(t)' => until > call'[t].begun + Grace
      BY <1>2, <2>3 DEF Of
    <3> QED BY <2>1, <3>1, <3>2 DEF Outlasted
  <2> QED BY <1>5, <2>2, <2>3 DEF Listing, Outlasted
<1>7. \A t \in Callers :
        call'[t].pc = "write_list" /\ OwnerOf(t)' = UserOf[s] =>
          s \in call'[t].list \/ (call'[t].op = "delete" /\ call'[t].session = s)
  BY <1>5 DEF Undisturbed, Listing, OwnerOf
<1> QED BY <1>5, <1>6, <1>7 DEF Listing, Undisturbed

\* A step that gives the list of session s its full life.
LEMMA RenewedIsKept ==
  ASSUME Orderly', NEW s \in Sessions, index'[UserOf[s]] # None,
         s \in index'[UserOf[s]].ids,
         index'[UserOf[s]].until >= clock' + timeout' + Grace,
         \A t \in Callers : OwnerOf(t)' = UserOf[s] => call'[t].pc # "write_list"
  PROVE  Listing(s)'
<1> DEFINE until == index'[UserOf[s]].until
<1>1. /\ clock' \in Nat /\ timeout' \in Nat \ {0} /\ Grace \in Nat \ {0} /\ until \in Nat
      /\ entry'[s] # None => entry'[s].until \in Nat /\ entry'[s].until <= clock' + timeout'
      /\ \A t \in Callers : Keeping(t)' => call'[t].begun \in Nat /\ call'[t].begun <= clock'
  BY MeasuredNext DEF Measured
<1>2. entry'[s] # None => until >= entry'[s].until + Grace
  BY <1>1
<1>3. \A t \in Callers : Keeping(t)' => until > call'[t].begun + Grace
  BY <1>1
<1>4. Outlasted(s)'
  BY <1>2, <1>3 DEF Outlasted, Of
<1> QED BY <1>4 DEF Listing

------------------------------------------------------------------------
(* The steps.                                                             *)

Acts(t) ==
  \/ Look(t) \/ WriteRedis(t) \/ WriteMemcached(t) \/ ReadList(t) \/ WriteList(t) \/ Fail(t)

\* What a call under way is.
LEMMA Caller ==
  ASSUME Orderly, NEW t \in Callers, call[t] # NoCall
  PROVE  /\ call[t] \in Calls /\ call[t].session \in Sessions /\ OwnerOf(t) \in Users
         /\ call[t].op \in {"create", "update", "delete", "extend"}
         /\ call[t].pc \in {"look", "write", "read_list", "write_list"}
BY CallShape DEF Orderly, Ready

\* What is left of a call that is over.
LEMMA Ended ==
  ASSUME NEW t \in Callers, NEW s \in Sessions, call'[t] = NoCall
  PROVE  /\ call'[t].session # s /\ call'[t].pc = "idle" /\ call'[t].op = "none"
         /\ ~Keeping(t)'
BY BackendNone DEF NoCall, Keeping

\* A call changes its own session only, and the list of its own user.
LEMMA Elsewhere ==
  ASSUME Orderly, NEW t \in Callers, Acts(t), NEW s \in Sessions
  PROVE  /\ UNCHANGED <<settings, clock>> /\ Others(t) /\ call[t] # NoCall
         /\ \/ call'[t] = NoCall
            \/ /\ call'[t].session = call[t].session /\ call'[t].op = call[t].op
               /\ call'[t].begun = call[t].begun
         /\ call[t].session # s => entry'[s] = entry[s]
         /\ OwnerOf(t) # UserOf[s] => index'[UserOf[s]] = index[UserOf[s]]
<1>1. UNCHANGED <<settings, clock>> /\ call[t] # NoCall
  BY DEF Acts, Look, WriteRedis, WriteMemcached, ReadList, WriteList, Fail, NoCall
<1>2. /\ entry \in [Sessions -> Entries \cup {None}] /\ index \in [Users -> Lists \cup {None}]
      /\ call \in [Callers -> Calls] /\ call[t] \in Calls /\ UserOf[s] \in Users
  BY BackendConstants DEF Orderly, Typed, TypeOK
<1>3. /\ Others(t)
      /\ \/ call'[t] = NoCall
         \/ /\ call'[t].session = call[t].session /\ call'[t].op = call[t].op
            /\ call'[t].begun = call[t].begun
  <2>1. CASE call' = [call EXCEPT ![t] = NoCall]
    BY <1>2, <2>1 DEF Others
  <2>2. ASSUME NEW v, call' = [call EXCEPT ![t].pc = "write", ![t].copy = v]
        PROVE  /\ Others(t) /\ call'[t].session = call[t].session
               /\ call'[t].op = call[t].op /\ call'[t].begun = call[t].begun
    BY <1>2, <2>2 DEF Others, Calls
  <2>3. ASSUME NEW v, call' = [call EXCEPT ![t].pc = "write_list", ![t].list = v]
        PROVE  /\ Others(t) /\ call'[t].session = call[t].session
               /\ call'[t].op = call[t].op /\ call'[t].begun = call[t].begun
    BY <1>2, <2>3 DEF Others, Calls
  <2>4. CASE Goto(t, "read_list")
    BY <1>2, <2>4 DEF Others, Calls, Goto
  <2>5. CASE Look(t)
    BY <2>1, <2>2, <2>5 DEF Look, Return
  <2>6. CASE ReadList(t)
    BY <2>1, <2>3, <2>6 DEF ReadList, Return
  <2>7. CASE WriteMemcached(t)
    BY <2>4, <2>7 DEF WriteMemcached
  <2>8. CASE WriteRedis(t) \/ WriteList(t) \/ Fail(t)
    BY <2>1, <2>8 DEF WriteRedis, WriteList, Fail, Return
  <2> QED BY <2>5, <2>6, <2>7, <2>8 DEF Acts
<1>4. ASSUME Transaction(t) \/ Change(t), call[t].session # s PROVE entry'[s] = entry[s]
  BY <1>2, <1>4 DEF Transaction, Change, SetEntry, DropEntry
<1>5. ASSUME Transaction(t) \/ PutList(t), OwnerOf(t) # UserOf[s]
      PROVE  index'[UserOf[s]] = index[UserOf[s]]
  BY <1>2, <1>5 DEF Transaction, PutList, SetList
<1>6. call[t].session # s => entry'[s] = entry[s]
  BY <1>4 DEF Acts, Look, WriteRedis, WriteMemcached, ReadList, WriteList, Fail
<1>7. OwnerOf(t) # UserOf[s] => index'[UserOf[s]] = index[UserOf[s]]
  BY <1>5 DEF Acts, Look, WriteRedis, WriteMemcached, ReadList, WriteList, Fail, history
<1> QED BY <1>1, <1>3, <1>6, <1>7

\* So the lists of other users stay as good as they are.
LEMMA OthersAreKept ==
  ASSUME Orderly, [Next]_vars, NEW t \in Callers, Acts(t), NEW s \in Sessions, Kept(s),
         OwnerOf(t) # UserOf[s]
  PROVE  Kept(s)'
<1>1. call[t].session # s
  BY DEF OwnerOf
<1>2. index'[UserOf[s]] = index[UserOf[s]] /\ entry'[s] = entry[s] /\ Others(t)
  BY <1>1, Elsewhere
<1>3. \/ call'[t].session # s /\ OwnerOf(t)' # UserOf[s]
      \/ call'[t].session # s /\ call'[t].pc # "write_list"
  BY <1>1, Elsewhere, Ended DEF OwnerOf
<1> QED BY <1>1, <1>2, <1>3, UndisturbedIsKept DEF Undisturbed, Others

\* And the list of a user stays in force as long as one who begins needs it.
LEMMA LookKeeps ==
  ASSUME Orderly, [Next]_vars, NEW t \in Callers, Look(t), NEW s \in Sessions, Kept(s)
  PROVE  Kept(s)'
<1>1. /\ UNCHANGED <<settings, clock, entry, index>> /\ call[t].pc = "look" /\ call[t] # NoCall
      /\ Others(t)
  BY Elsewhere DEF Look, Acts
<1>2. ~Ahead(t)
  BY <1>1 DEF Ahead
<1>3. CASE call'[t] = NoCall
  BY <1>1, <1>2, <1>3, Ended, UndisturbedIsKept DEF Undisturbed, Others
<1>4. CASE /\ Alive(entry[call[t].session])
           /\ call' = [call EXCEPT ![t].pc = "write", ![t].copy = entry[call[t].session].value]
  <2>1. /\ call'[t].pc = "write" /\ call'[t].session = call[t].session
        /\ call'[t].begun = call[t].begun /\ call'[t].op = call[t].op
    BY <1>1, <1>4, Caller DEF Orderly, Typed, TypeOK, Calls
  <2>2. CASE call[t].session # s
    BY <1>1, <1>2, <2>1, <2>2, UndisturbedIsKept DEF Undisturbed, Others
  <2>3. CASE call[t].session = s
    <3> SUFFICES ASSUME backend' # "memory", ~Exempt(UserOf[s])' PROVE Listing(s)'
      BY DEF Kept
    <3> DEFINE until == index[UserOf[s]].until
    <3>1. Listing(s)
      BY <1>1, <1>4, <2>3, ExcusesStay DEF Kept, Needed, settings
    <3>2. entry[s].until \in Nat /\ clock < entry[s].until /\ entry[s] # None
      BY <1>4, <2>3, <1>1, OrderlyIsMeasured, ExcusesStay DEF Measured, Alive, settings
    <3>3. Outlasted(s)'
      <4>1. CASE \E q \in Of(s) : Ahead(q) /\ until > call[q].begun + Grace
        <5> PICK q \in Of(s) : Ahead(q) /\ until > call[q].begun + Grace
          BY <4>1
        <5>1. call'[q] = call[q] /\ q \in Of(s)' /\ Ahead(q)'
          BY <1>1, <1>2 DEF Others, Of, Ahead, Keeping
        <5> QED BY <1>1, <5>1 DEF Outlasted
      <4>2. CASE /\ until >= entry[s].until + Grace
                 /\ \A q \in Of(s) : Keeping(q) => until > call[q].begun + Grace
        <5>1. until > call'[t].begun + Grace
          BY <1>1, <2>1, <3>1, <3>2, <4>2, OrderlyIsMeasured DEF Measured, Listing
        <5>2. \A q \in Of(s)' : Keeping(q)' => until > call'[q].begun + Grace
          BY <1>1, <4>2, <5>1 DEF Of, Others, Keeping
        <5> QED BY <1>1, <4>2, <5>2 DEF Outlasted
      <4> QED BY <3>1, <3>2, <4>1, <4>2 DEF Listing, Outlasted
    <3>4. OwnerOf(t)' = UserOf[s] => call'[t].pc # "write_list"
      BY <2>1
    <3> QED BY <1>1, <3>1, <3>3, <3>4 DEF Listing, Others, OwnerOf
  <2> QED BY <2>2, <2>3
<1> QED BY <1>1, <1>3, <1>4 DEF Look, Return, Orderly, Typed, TypeOK

\* The session has its new life before its list, which has the life of the call.
LEMMA WriteMemcachedKeeps ==
  ASSUME Orderly, [Next]_vars, NEW t \in Callers, WriteMemcached(t),
         NEW s \in known, Kept(s)
  PROVE  Kept(s)'
<1>1. /\ UNCHANGED <<settings, clock, index, known>> /\ call[t].pc = "write" /\ call[t] # NoCall
      /\ Others(t) /\ s \in Sessions /\ backend = "memcached"
  BY Elsewhere DEF WriteMemcached, Acts, history, Orderly, Typed, TypeOK, On
<1>2. /\ call'[t].pc = "read_list" /\ call'[t].session = call[t].session
      /\ call'[t].begun = call[t].begun /\ call'[t].op = call[t].op
  BY Caller, <1>1 DEF WriteMemcached, Goto, Orderly, Typed, TypeOK, Calls
<1>3. ~Ahead(t)
  BY <1>1 DEF Ahead
<1>4. CASE call[t].session # s
  <2>1. entry'[s] = entry[s]
    BY <1>1, <1>4, Elsewhere DEF Acts
  <2> QED BY <1>1, <1>2, <1>3, <1>4, <2>1, UndisturbedIsKept DEF Undisturbed, Others
<1>5. CASE call[t].session = s /\ call[t].op = "delete"
  <2>1. entry'[s] = None
    BY <1>1, <1>5 DEF WriteMemcached, Change, DropEntry, Orderly, Typed, TypeOK
  <2>2. ~Keeping(t)'
    BY <1>2, <1>5 DEF Keeping
  <2> QED BY <1>1, <1>2, <1>3, <2>1, <2>2, UndisturbedIsKept DEF Undisturbed, Others
<1>6. CASE call[t].session = s /\ call[t].op \in {"update", "extend"}
  <2> SUFFICES ASSUME backend' # "memory", ~Exempt(UserOf[s])' PROVE Listing(s)'
    BY DEF Kept
  <2> DEFINE until == index[UserOf[s]].until
  <2>1. Keeping(t) /\ t \in Of(s) /\ Keeping(t)' /\ Ahead(t)' /\ t \in Of(s)'
    BY <1>1, <1>2, <1>6 DEF Keeping, Ahead, Of
  <2>2. Listing(s)
    BY <1>1, <2>1, ExcusesStay DEF Kept, Needed, settings
  <2>3. Outlasted(s)'
    <3>1. CASE \E q \in Of(s) : Ahead(q) /\ until > call[q].begun + Grace
      <4> PICK q \in Of(s) : Ahead(q) /\ until > call[q].begun + Grace
        BY <3>1
      <4>1. call'[q] = call[q] /\ q \in Of(s)' /\ Ahead(q)'
        BY <1>1, <1>3 DEF Others, Of, Ahead, Keeping
      <4> QED BY <1>1, <4>1 DEF Outlasted
    <3>2. CASE \A q \in Of(s) : Keeping(q) => until > call[q].begun + Grace
      BY <1>1, <1>2, <2>1, <3>2 DEF Outlasted
    <3> QED BY <2>2, <3>1, <3>2 DEF Listing, Outlasted
  <2> QED BY <1>1, <1>2, <2>2, <2>3 DEF Listing, Others, OwnerOf
<1>7. call[t].op # "create" \/ call[t].session # s
  BY DEF Orderly, Creating
<1> QED BY <1>1, <1>4, <1>5, <1>6, <1>7, Caller

\* The list that was read has the session, for it has not expired.
LEMMA ReadListKeeps ==
  ASSUME Orderly, [Next]_vars, NEW t \in Callers, ReadList(t),
         NEW s \in known', s \in known => Kept(s)
  PROVE  Kept(s)'
<1> DEFINE u == UserOf[s]
<1>1. /\ UNCHANGED <<settings, clock, entry, index>> /\ call[t].pc = "read_list"
      /\ call[t] # NoCall /\ Others(t)
  <2>1. UNCHANGED <<settings, clock, entry, index>> /\ call[t].pc = "read_list"
    BY DEF ReadList
  <2>2. s \in Sessions
    BY TypedStep DEF Orderly, Typed, TypeOK
  <2>3. call[t] # NoCall /\ Others(t)
    BY <2>2, Elsewhere DEF Acts
  <2> QED BY <2>1, <2>3
<1>2. s \in known /\ s \in Sessions /\ Kept(s)
  BY <1>1 DEF ReadList, Return, Orderly, Typed, TypeOK
<1> SUFFICES ASSUME backend' # "memory", ~Exempt(u)', Needed(s)' PROVE Listing(s)'
  BY DEF Kept
<1>3. CASE OwnerOf(t) # u
  BY <1>2, <1>3, OthersAreKept DEF Acts, Kept
<1>4. CASE OwnerOf(t) = u
  <2>1. backend # "memory" /\ ~Exempt(u)
    BY <1>1, ExcusesStay DEF settings
  <2>2. CASE call'[t] = NoCall
    <3>1. \A q \in Of(s)' : call'[q] = call[q] /\ q \in Of(s)
      BY <1>1, <1>2, <2>2, Ended DEF Of, Others
    <3>2. Needed(s)
      BY <1>1, <3>1 DEF Needed, Keeping, Alive, settings
    <3>3. Alive(index[u]) /\ s \in GetUserSessions(u)
      BY <1>2, <2>1, <3>2, ListIsRead DEF Kept
    <3>4. call[t].op = "delete" /\ call[t].session # s
      <4>1. call' # [call EXCEPT ![t].pc = "write_list", ![t].list = Listed(t)]
        BY <1>1, <1>2, <2>2, Ended, Caller DEF Orderly, Typed, TypeOK, Calls
      <4> QED BY <1>4, <3>3, <4>1 DEF ReadList
    <3>5. ~Ahead(t)
      BY <3>4 DEF Ahead, Keeping
    <3>6. Undisturbed(s)
      BY <1>1, <1>2, <2>2, <3>5, Ended DEF Undisturbed, Others
    <3> QED BY <1>2, <3>6, UndisturbedIsKept DEF Kept
  <2>3. CASE call' = [call EXCEPT ![t].pc = "write_list", ![t].list = Listed(t)]
    <3>1. /\ call'[t].pc = "write_list" /\ call'[t].session = call[t].session
          /\ call'[t].begun = call[t].begun /\ call'[t].op = call[t].op
          /\ call'[t].list = Listed(t)
      BY <1>1, <2>3, Caller DEF Orderly, Typed, TypeOK, Calls
    <3>2. Of(s)' = Of(s)
      BY <1>1, <3>1 DEF Of, Others
    <3>3. \A q \in Callers : (Keeping(q)' <=> Keeping(q)) /\ (Ahead(q)' <=> Ahead(q))
      BY <1>1, <3>1 DEF Keeping, Ahead, Others
    <3>4. Needed(s)
      <4>1. Alive(entry[s])' <=> Alive(entry[s])
        BY <1>1 DEF Alive, settings
      <4> QED BY <3>2, <3>3, <4>1 DEF Needed, Of
    <3>5. Listing(s) /\ s \in GetUserSessions(u)
      BY <1>2, <2>1, <3>4, ListIsRead DEF Kept
    <3>6. \A q \in Callers : call'[q].begun = call[q].begun
      BY <1>1, <3>1 DEF Others
    <3>7. Outlasted(s)'
      <4>1. Outlasted(s)
        BY <3>5 DEF Listing
      <4>2. \A q \in Of(s) : q \in Callers
        BY DEF Of
      <4> QED BY <1>1, <3>2, <3>3, <3>6, <4>1, <4>2 DEF Outlasted
    <3>8. s \in Listed(t) \/ (call[t].op = "delete" /\ call[t].session = s)
      BY <1>4, <3>5 DEF Listed
    <3> QED BY <1>1, <3>1, <3>5, <3>7, <3>8 DEF Listing, Others, OwnerOf
  <2> QED BY <2>2, <2>3 DEF ReadList, Return, Orderly, Typed, TypeOK
<1> QED BY <1>3, <1>4

\* The list that is written has the session, lives long enough, and is the only one.
LEMMA WriteListKeeps ==
  ASSUME Orderly, [Next]_vars, NEW t \in Callers, WriteList(t),
         NEW s \in known', s \in known => Kept(s)
  PROVE  Kept(s)'
<1> DEFINE u == UserOf[s]
<1>1. /\ UNCHANGED <<settings, clock, entry>> /\ call[t].pc = "write_list" /\ call[t] # NoCall
      /\ Others(t) /\ call'[t] = NoCall /\ backend = "memcached" /\ Return(t)
  <2>1. UNCHANGED <<settings, clock, entry>> /\ call[t].pc = "write_list" /\ Return(t)
    BY DEF WriteList
  <2>2. call[t] # NoCall /\ backend = "memcached"
    BY <2>1 DEF NoCall, Orderly, Lone
  <2>3. Ends(t)
    BY <2>1, <2>2, ReturnEnds DEF Orderly
  <2> QED BY <2>1, <2>2, <2>3 DEF Ends
<1>2. /\ s \in Sessions /\ u \in Users /\ Orderly' /\ index \in [Users -> Lists \cup {None}]
      /\ index' \in [Users -> Lists \cup {None}]
  BY OrderlyStep, BackendConstants DEF Orderly, Typed, TypeOK
<1> SUFFICES ASSUME backend' # "memory", ~Exempt(u)', Needed(s)' PROVE Listing(s)'
  BY DEF Kept
<1>3. CASE OwnerOf(t) # u
  <2>1. s \in known
    BY <1>1, <1>3 DEF Return, OwnerOf
  <2> QED BY <1>2, <1>3, <2>1, OthersAreKept DEF Acts, Kept
<1>4. CASE OwnerOf(t) = u
  <2>1. ~Exempt(u)
    BY ExcusesStay
  <2>2. \A q \in Callers : OwnerOf(q)' = u => call'[q].pc # "write_list"
    <3>1. \A q \in Callers \ {t} : OwnerOf(q) = u => call[q].pc # "write_list"
      BY <1>1, <1>4, <2>1 DEF Orderly, Lone, Exempt
    <3>2. call'[t].pc # "write_list"
      BY <1>1, <1>2, Ended
    <3> QED BY <1>1, <3>1, <3>2 DEF Others, OwnerOf
  <2>3. s \in call[t].list
    <3>1. CASE s \notin known
      BY <1>1, <3>1 DEF Return, Orderly, Creating
    <3>2. CASE s \in known
      <4>1. ~(call[t].op = "delete" /\ call[t].session = s)
        BY <1>1 DEF Return
      <4>2. \A q \in Of(s)' : Keeping(q)' => q \in Of(s) /\ Keeping(q)
        BY <1>1, <1>2, Ended DEF Of, Others, Keeping
      <4>3. Needed(s)
        BY <1>1, <4>2 DEF Needed, Alive, settings
      <4>4. Listing(s)
        BY <1>1, <2>1, <3>2, <4>3 DEF Kept
      <4> QED BY <1>1, <1>4, <4>1, <4>4 DEF Listing
    <3> QED BY <3>1, <3>2
  <2>4. index'[u].ids = call[t].list /\ index'[u].until >= clock' + timeout' + Grace
    <3> DEFINE life == IF call[t].op = "delete" THEN Day ELSE timeout + Grace
    <3>1. index'[u] = [ids |-> call[t].list, until |-> Until(life)]
      BY <1>2, <1>4 DEF WriteList, PutList, SetList
    <3>2. life <= Month /\ life >= timeout + Grace /\ life \in Nat
      <4>1. timeout + Grace <= Month
        BY <1>1, <2>1, OrderlyIsMeasured DEF Exempt, Measured
      <4>2. call[t].op = "delete" => timeout + Grace <= Day
        BY <1>1, <1>4, OrderlyIsMeasured DEF Exempt, Measured, WriteList, settings
      <4> QED BY <4>1, <4>2, OrderlyIsMeasured DEF Measured
    <3>3. Until(life) = clock + life
      BY <3>2, OrderlyIsMeasured DEF Until, Measured
    <3> HIDE DEF life
    <3> QED BY <1>1, <3>1, <3>2, <3>3, OrderlyIsMeasured DEF Measured, settings
  <2>5. index'[u] # None
    <3>1. call[t].list \in SUBSET Sessions
      BY <1>1, Caller DEF Calls
    <3>2. \A life \in Nat : [ids |-> call[t].list, until |-> Until(life)] \in Lists
      BY <3>1, OrderlyIsMeasured DEF Measured, Lists, Until
    <3>3. Day \in Nat /\ timeout + Grace \in Nat
      BY OrderlyIsMeasured DEF Measured
    <3>4. index'[u] \in Lists
      BY <1>2, <1>4, <3>2, <3>3 DEF WriteList, PutList, SetList
    <3> QED BY <3>4, BackendNone
  <2> QED BY <1>2, <2>2, <2>3, <2>4, <2>5, RenewedIsKept
<1> QED BY <1>3, <1>4

\* On Redis the transaction renews the list with the session.
LEMMA WriteRedisKeeps ==
  ASSUME Orderly, [Next]_vars, NEW t \in Callers, WriteRedis(t),
         NEW s \in known', s \in known => Kept(s)
  PROVE  Kept(s)'
<1> DEFINE u == UserOf[s]
           own == call[t].session
<1>1. /\ UNCHANGED <<settings, clock>> /\ call[t].pc = "write" /\ backend = "redis"
      /\ call[t] # NoCall /\ Others(t) /\ call'[t] = NoCall /\ Return(t) /\ Transaction(t)
  <2>1. /\ UNCHANGED <<settings, clock>> /\ call[t].pc = "write" /\ backend = "redis"
        /\ Return(t) /\ Transaction(t)
    BY DEF WriteRedis, On
  <2>2. call[t] # NoCall
    BY <2>1 DEF NoCall
  <2>3. Ends(t)
    BY <2>1, <2>2, ReturnEnds DEF Orderly
  <2> QED BY <2>1, <2>2, <2>3 DEF Ends
<1>2. /\ s \in Sessions /\ u \in Users /\ Orderly' /\ index \in [Users -> Lists \cup {None}]
      /\ index' \in [Users -> Lists \cup {None}] /\ own \in Sessions
  BY <1>1, OrderlyStep, BackendConstants, Caller DEF Orderly, Typed, TypeOK
<1> SUFFICES ASSUME backend' # "memory", ~Exempt(u)', Needed(s)' PROVE Listing(s)'
  BY DEF Kept
<1>3. CASE OwnerOf(t) # u
  <2>1. s \in known
    BY <1>1, <1>3 DEF Return, OwnerOf
  <2> QED BY <1>2, <1>3, <2>1, OthersAreKept DEF Acts, Kept
<1>4. CASE OwnerOf(t) = u
  <2>1. \A q \in Callers : call'[q].pc \notin {"read_list", "write_list"}
    BY <1>1, <1>2 DEF Orderly, Lone, settings
  <2>2. ASSUME NEW ids \in SUBSET Sessions, s \in ids, SetList(u, ids, timeout + Grace)
        PROVE  Listing(s)'
    <3>1. Until(timeout + Grace) = clock + timeout + Grace /\ timeout + Grace \in Nat
          /\ clock + timeout + Grace \in Nat
      BY <1>1, OrderlyIsMeasured DEF Until, Measured
    <3>2. index'[u] = [ids |-> ids, until |-> clock + timeout + Grace]
      BY <1>2, <2>2, <3>1 DEF SetList
    <3>3. index'[u] # None
      BY <3>1, <3>2, BackendNone DEF Lists
    <3>4. index'[u].until >= clock' + timeout' + Grace
      BY <1>1, <3>1, <3>2 DEF settings
    <3> QED BY <1>2, <2>1, <2>2, <3>2, <3>3, <3>4, RenewedIsKept
  <2>3. CASE call[t].op = "create" /\ own = s
    <3>1. SetList(u, GetUserSessions(u) \cup {s}, timeout + Grace)
      BY <1>1, <1>4, <2>3 DEF Transaction
    <3> QED BY <1>2, <2>2, <3>1, ListType DEF Orderly
  <2>4. CASE ~(call[t].op = "create" /\ own = s)
    <3>1. s \in known /\ Kept(s)
      BY <1>1, <2>4 DEF Return
    <3>2. Needed(s)
      <4>1. CASE Keeping(t) /\ own = s
        BY <4>1 DEF Needed, Of
      <4>2. CASE own # s
        <5>1. Alive(entry[s])' => Alive(entry[s])
          BY <1>1, <1>2, <4>2, Elsewhere DEF Acts, Alive, settings
        <5>2. \A q \in Of(s)' : Keeping(q)' => q \in Of(s) /\ Keeping(q)
          BY <1>1, <1>2, Ended DEF Of, Others, Keeping
        <5> QED BY <5>1, <5>2 DEF Needed
      <4>3. own # s \/ call[t].op \notin {"create", "delete"}
        BY <1>1, <2>4 DEF Return
      <4> QED BY <1>1, <4>1, <4>2, <4>3, Caller DEF Keeping
    <3>3. /\ Listing(s) /\ Alive(index[u]) /\ s \in GetUserSessions(u)
          /\ GetUserSessions(u) = index[u].ids
      BY <1>1, <1>2, <3>1, <3>2, ExcusesStay, ListIsRead DEF Kept
    <3>4. CASE call[t].op = "create"
      <4>1. SetList(u, GetUserSessions(u) \cup {own}, timeout + Grace)
        BY <1>1, <1>4, <3>4 DEF Transaction
      <4> QED BY <1>2, <2>2, <3>3, <4>1, ListType DEF Orderly
    <3>5. CASE call[t].op \in {"update", "extend"}
      <4>1. SetList(u, GetUserSessions(u), timeout + Grace)
        BY <1>1, <1>4, <3>3, <3>5 DEF Transaction
      <4> QED BY <1>2, <2>2, <3>3, <4>1, ListType DEF Orderly
    <3>6. CASE call[t].op = "delete"
      <4>1. own # s
        BY <1>1, <3>6 DEF Return
      <4>2. index' = [index EXCEPT ![u].ids = @ \ {own}]
        BY <1>1, <1>4, <3>3, <3>6 DEF Transaction
      <4>3. index[u] \in Lists
        BY <1>2, <3>3, ListType DEF Orderly
      <4>4. index'[u] \in Lists /\ index'[u].ids = index[u].ids \ {own}
            /\ index'[u].until = index[u].until
        BY <1>2, <4>2, <4>3 DEF Lists
      <4>5. Undisturbed(s)
        <5>1. entry'[s] = entry[s]
          BY <1>2, <4>1, Elsewhere DEF Acts
        <5> QED BY <1>1, <1>2, <4>1, <4>4, <5>1, Ended, BackendNone DEF Undisturbed, Others
      <4> QED BY <1>2, <3>1, <4>5, UndisturbedIsKept DEF Kept
    <3> QED BY <1>1, <3>4, <3>5, <3>6, Caller
  <2> QED BY <2>3, <2>4
<1> QED BY <1>3, <1>4

\* A call that raises excuses its user.
LEMMA FailKeeps ==
  ASSUME Orderly, [Next]_vars, NEW t \in Callers, Fail(t), NEW s \in known, Kept(s)
  PROVE  Kept(s)'
<1>1. s \in Sessions /\ OwnerOf(t) \in hurt'
  BY DEF Fail, Orderly, Typed, TypeOK
<1>2. CASE OwnerOf(t) = UserOf[s]
  BY <1>1, <1>2 DEF Kept, Exempt
<1>3. CASE OwnerOf(t) # UserOf[s]
  BY <1>1, <1>3, OthersAreKept DEF Acts
<1> QED BY <1>2, <1>3

\* A call that begins needs nothing yet.
LEMMA BeginKeeps ==
  ASSUME Orderly, [Next]_vars, NEW t \in Callers, Begins(t), NEW s \in known, Kept(s)
  PROVE  Kept(s)'
<1> PICK op \in {"create", "update", "delete", "extend"}, x \in Sessions,
         v \in Values \cup {None} : Begin(t, op, x, v)
  BY DEF Begins
<1>1. /\ UNCHANGED <<index, entry>> /\ call[t] = NoCall /\ Others(t) /\ s \in Sessions
      /\ call'[t] = [NoCall EXCEPT !.op = op, !.session = x, !.value = v, !.begun = clock,
                                   !.pc = IF op = "create" THEN "write" ELSE "look"]
  BY DEF Begin, Orderly, Typed, TypeOK, Others
<1>2. call'[t].op = op /\ call'[t].pc = IF op = "create" THEN "write" ELSE "look"
  BY <1>1 DEF NoCall
<1>3. ~Keeping(t)' /\ call'[t].pc # "write_list"
  BY <1>2 DEF Keeping
<1>4. ~Ahead(t)
  BY <1>1 DEF Ahead, Keeping, NoCall
<1>5. Undisturbed(s)
  BY <1>1, <1>3, <1>4 DEF Undisturbed, Others
<1> QED BY <1>1, <1>5, UndisturbedIsKept

\* In any step.
LEMMA KeptStep ==
  ASSUME Orderly, [Next]_vars, \A s \in known : Kept(s)
  PROVE  \A s \in known' : Kept(s)'
<1>1. known \subseteq Sessions
  BY DEF Orderly, Typed, TypeOK
<1>2. ASSUME UNCHANGED <<call, known>>, NEW s \in known,
             entry'[s] \in {None, entry[s]},
             index'[UserOf[s]] = index[UserOf[s]]
      PROVE  Kept(s)'
  BY <1>1, <1>2, UndisturbedIsKept DEF Undisturbed
<1>3. ASSUME NEW t \in Callers, CallMemory(t), NEW s \in known' PROVE Kept(s)'
  BY <1>3 DEF CallMemory, On, Kept, settings
<1>4. ASSUME NEW t \in Callers, Look(t), NEW s \in known' PROVE Kept(s)'
  <2>1. s \in known
    BY <1>4 DEF Look, Return, Orderly, Creating
  <2> QED BY <1>1, <1>4, <2>1, LookKeeps
<1>5. ASSUME NEW t \in Callers, Begins(t) \/ WriteMemcached(t) \/ Fail(t), NEW s \in known'
      PROVE  Kept(s)'
  <2>1. s \in known
    BY <1>5 DEF Begins, Begin, WriteMemcached, Fail, history
  <2> QED BY <1>5, <2>1, BeginKeeps, WriteMemcachedKeeps, FailKeeps
<1>6. ASSUME NEW t \in Callers, ReadList(t) \/ WriteList(t) \/ WriteRedis(t), NEW s \in known'
      PROVE  Kept(s)'
  BY <1>6, ReadListKeeps, WriteListKeeps, WriteRedisKeeps
<1>7. ASSUME NEW gone \in SUBSET Sessions, NEW lists \in SUBSET Users, DropKeys(gone, lists),
             NEW s \in known'
      PROVE  Kept(s)'
  <2>1. s \in known /\ UNCHANGED <<call, known>> /\ s \in Sessions
    BY <1>1, <1>7 DEF DropKeys
  <2>2. entry'[s] \in {None, entry[s]}
    BY <1>7, <2>1 DEF DropKeys
  <2>3. CASE UserOf[s] \in lists
    BY <1>7, <2>3 DEF DropKeys, Kept, Exempt
  <2>4. CASE UserOf[s] \notin lists
    <3>1. index'[UserOf[s]] = index[UserOf[s]]
      BY <1>7, <2>1, <2>4, BackendConstants DEF DropKeys
    <3> QED BY <1>2, <2>1, <2>2, <3>1
  <2> QED BY <2>3, <2>4
<1>8. ASSUME Tick \/ UNCHANGED vars, NEW s \in known' PROVE Kept(s)'
  BY <1>2, <1>8 DEF Tick, vars, history
<1> QED BY <1>3, <1>4, <1>5, <1>6, <1>7, <1>8 DEF Next, Begins

\* The start: no calls, and nothing known.
LEMMA OrderlyInit == Init => Orderly /\ \A s \in known : Kept(s)
<1> SUFFICES ASSUME Init PROVE Orderly /\ \A s \in known : Kept(s)
  OBVIOUS
<1>1. Timely
  BY DEF Init, Timely
<1>2. \A t \in Callers : call[t].pc = "idle" /\ call[t].op = "none"
  BY DEF Init, NoCall
<1>3. Lone /\ \A t \in Callers : Creating(t)
  BY <1>2 DEF Lone, Creating
<1> QED BY <1>1, <1>3, TypedInit DEF Orderly, Init

\* On every backend a session that can be read is in the list by which the limit on
\* sessions finds it, unless ListedUnlessRaced names a reason.
THEOREM SessionsAreListed == Spec => []ListedUnlessRaced
<1>1. Orderly /\ (\A s \in known : Kept(s)) /\ [Next]_vars => (Orderly /\ \A s \in known : Kept(s))'
  BY OrderlyStep, KeptStep
<1>2. Orderly /\ (\A s \in known : Kept(s)) => ListedUnlessRaced
  <2> SUFFICES ASSUME Orderly, NEW s \in known, Kept(s), backend # "memory", Alive(entry[s]),
                      ~Exempt(UserOf[s])
               PROVE  s \in GetUserSessions(UserOf[s])
    BY DEF ListedUnlessRaced, Exempt
  <2>1. s \in Sessions /\ Needed(s)
    BY DEF Orderly, Typed, TypeOK, Needed
  <2> QED BY <2>1, ListIsRead DEF Kept
<1> QED BY <1>1, <1>2, OrderlyInit, PTL DEF Spec
====
