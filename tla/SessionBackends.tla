---- MODULE SessionBackends ----
(***************************************************************************)
(* The three session storages behind AbstractSessionStorage.  In memory a  *)
(* call is one step, for nothing in it is awaited.  On Redis it is a read  *)
(* and a transaction that changes the session and the list of its user.    *)
(* On memcached the list is one more value, read and written back.  Each   *)
(* implements SessionContract.                                             *)
(***************************************************************************)
EXTENDS Naturals, FiniteSets

CONSTANTS
  Users, Sessions,
  UserOf,    \* [Sessions -> Users]
  Values,    \* records of sessions
  Callers,   \* calls under way at the same time
  Backends,  \* choices of SESSION_BACKEND
  Timeouts,  \* choices of SESSION_TIMEOUT_MINUTES
  Grace,     \* the 3600 s that the list of a user outlives a session
  Day,       \* life of a list after delete on memcached
  Month,     \* memcached takes an exptime above 30 days for a date
  None,
  MaxClock, MaxCalls, MaxFaults  \* bounds

ASSUME BackendConstants ==
  /\ UserOf \in [Sessions -> Users]
  /\ Backends \subseteq {"memory", "redis", "memcached"}
  /\ Timeouts \subseteq 1 .. Month
  /\ Grace \in Nat \ {0} /\ Day \in Nat \ {0} /\ Month \in Nat \ {0}
  /\ Day <= Month
  /\ MaxClock \in Nat /\ MaxCalls \in Nat /\ MaxFaults \in Nat

VARIABLES
  backend, timeout,
  clock,
  entry,       \* the keys session:{id}
  index,       \* the keys session:user:{id}
  call,        \* the calls under way, with their variables
  known,       \* sessions that a create returned and no delete removed
  overlapped,  \* history: users whose list two calls were to write at once
  hurt,        \* history: users with a call that raised, or a list that was dropped
  shortened,   \* history: users whose list a delete wrote
  spent        \* calls and faults so far

settings == <<backend, timeout>>
history == <<known, overlapped, hurt, shortened>>
vars == <<settings, clock, entry, index, call, history, spent>>

Entries == [value : Values, until : Nat]
Lists == [ids : SUBSET Sessions, until : Nat]
ASSUME BackendNone == None \notin Sessions \cup Values \cup Entries \cup Lists
Calls ==
  [op : {"none", "create", "update", "delete", "extend"},
   pc : {"idle", "look", "write", "read_list", "write_list"},
   session : Sessions \cup {None}, value : Values \cup {None},
   copy : Values \cup {None},  \* session_data
   list : SUBSET Sessions,     \* user_sessions
   begun : Nat]                \* history: when

NoCall == [op |-> "none", pc |-> "idle", session |-> None, value |-> None,
           copy |-> None, list |-> {}, begun |-> 0]

TypeOK ==
  /\ backend \in Backends /\ timeout \in Timeouts /\ clock \in Nat
  /\ entry \in [Sessions -> Entries \cup {None}]
  /\ index \in [Users -> Lists \cup {None}]
  /\ call \in [Callers -> Calls]
  /\ known \subseteq Sessions
  /\ overlapped \subseteq Users /\ hurt \subseteq Users /\ shortened \subseteq Users
  /\ spent \in [calls : Nat, faults : Nat]

Init ==
  /\ backend \in Backends /\ timeout \in Timeouts /\ clock = 0
  /\ entry = [s \in Sessions |-> None]
  /\ index = [u \in Users |-> None]
  /\ call = [t \in Callers |-> NoCall]
  /\ known = {} /\ overlapped = {} /\ hurt = {} /\ shortened = {}
  /\ spent = [calls |-> 0, faults |-> 0]

\* In memory a key is gone when its time is over, elsewhere when it has come.
Alive(key) ==
  key # None /\ IF backend = "memory" THEN clock <= key.until ELSE clock < key.until
Get(s) == IF Alive(entry[s]) THEN entry[s].value ELSE None
GetUserSessions(u) == IF Alive(index[u]) THEN index[u].ids ELSE {}

\* When a key that is set now will be gone.
Until(life) == IF backend = "memcached" /\ life > Month THEN 0 ELSE clock + life

(***************************************************************************)
(* Calls                                                                   *)
(***************************************************************************)
\* An id is generated for one create; the other calls are made with ids of sessions
\* that were created.
Fresh(s) == entry[s] = None /\ \A t \in Callers : call[t].session # s /\ s \notin known

Begin(t, op, s, v) ==
  /\ call[t] = NoCall /\ spent.calls < MaxCalls
  /\ IF op = "create" THEN Fresh(s) ELSE s \in known
  /\ (v # None) = (op \in {"create", "update"})
  /\ spent' = [spent EXCEPT !.calls = @ + 1]
  /\ call' = [call EXCEPT ![t] =
       [NoCall EXCEPT !.op = op, !.session = s, !.value = v, !.begun = clock,
                      !.pc = IF op = "create" THEN "write" ELSE "look"]]
  /\ UNCHANGED <<settings, clock, entry, index, history>>

Goto(t, step) == call' = [call EXCEPT ![t].pc = step]

\* The answer; a session is known from the answer of its create on.
Return(t) ==
  /\ call' = [call EXCEPT ![t] = NoCall]
  /\ known' = CASE call[t].op = "create" -> known \cup {call[t].session}
                [] call[t].op = "delete" -> known \ {call[t].session}
                [] OTHER -> known

SetEntry(t, v) ==
  entry' = [entry EXCEPT ![call[t].session] = [value |-> v, until |-> Until(timeout)]]
DropEntry(t) == entry' = [entry EXCEPT ![call[t].session] = None]

OwnerOf(t) == UserOf[call[t].session]
\* get_session_storage: the class that was chosen.
On(b) == backend = b
SetList(u, ids, life) == index' = [index EXCEPT ![u] = [ids |-> ids, until |-> Until(life)]]

\* MemorySessionStorage: no list, and no await within a call.
CallMemory(t) ==
  /\ On("memory") /\ call[t].pc \in {"look", "write"}
  /\ LET s == call[t].session IN
     CASE call[t].op = "create" -> SetEntry(t, call[t].value)
       [] call[t].op = "delete" -> DropEntry(t)
       [] call[t].op = "update" /\ Alive(entry[s]) -> SetEntry(t, call[t].value)
       [] call[t].op = "extend" /\ Alive(entry[s]) -> SetEntry(t, entry[s].value)
       [] OTHER -> UNCHANGED entry
  /\ Return(t)
  /\ UNCHANGED <<settings, clock, index, overlapped, hurt, shortened, spent>>

\* MUTANT of Look: update does not ask whether the session is there.
LookAway(t) ==
  /\ backend # "memory" /\ call[t].pc = "look"
  /\ call' = [call EXCEPT ![t].pc = "write",
       ![t].copy = IF Alive(entry[call[t].session]) THEN entry[call[t].session].value ELSE @]
  /\ UNCHANGED <<settings, clock, entry, index, history, spent>>

\* The first command of update, delete and extend: without the session that is all.
Look(t) ==
  /\ backend # "memory" /\ call[t].pc = "look"
  /\ IF Alive(entry[call[t].session])
     THEN /\ call' = [call EXCEPT ![t].pc = "write", ![t].copy = entry[call[t].session].value]
          /\ UNCHANGED known
     ELSE Return(t)
  /\ UNCHANGED <<settings, clock, entry, index, overlapped, hurt, shortened, spent>>

\* Redis: one transaction.  EXPIRE of a key that is gone does nothing.
Transaction(t) ==
  LET s == call[t].session
      u == OwnerOf(t)
      relist == IF Alive(index[u]) THEN SetList(u, index[u].ids, timeout + Grace)
                ELSE UNCHANGED index
  IN \/ /\ call[t].op = "create" /\ SetEntry(t, call[t].value)
        /\ SetList(u, GetUserSessions(u) \cup {s}, timeout + Grace)
     \/ call[t].op = "update" /\ SetEntry(t, call[t].value) /\ relist
     \/ /\ call[t].op = "extend" /\ relist
        /\ IF Alive(entry[s]) THEN SetEntry(t, entry[s].value) ELSE UNCHANGED entry
     \/ /\ call[t].op = "delete" /\ DropEntry(t)
        /\ index' = IF Alive(index[u]) THEN [index EXCEPT ![u].ids = @ \ {s}] ELSE index

WriteRedis(t) ==
  /\ On("redis") /\ call[t].pc = "write"
  /\ Transaction(t) /\ Return(t)
  /\ UNCHANGED <<settings, clock, overlapped, hurt, shortened, spent>>

\* memcached: the session first.  extend writes back what it has read.
Change(t) ==
  CASE call[t].op = "delete" -> DropEntry(t)
    [] call[t].op = "extend" -> SetEntry(t, call[t].copy)
    [] OTHER -> SetEntry(t, call[t].value)

WriteMemcached(t) ==
  /\ On("memcached") /\ call[t].pc = "write"
  /\ Change(t) /\ Goto(t, "read_list")
  /\ UNCHANGED <<settings, clock, index, history, spent>>

\* Another call is going to write the list that it read.
Writing(t) ==
  \E q \in Callers \ {t} : call[q].pc = "write_list" /\ OwnerOf(q) = OwnerOf(t)

\* The list that will be written: only a create makes one.
\* MUTANT of Listed: it holds the new session alone.
ListedAlone(t) ==
  IF call[t].op = "create" THEN {call[t].session} ELSE GetUserSessions(OwnerOf(t))
Listed(t) ==
  LET ids == GetUserSessions(OwnerOf(t)) IN
  CASE call[t].op = "create" -> ids \cup {call[t].session}
    [] call[t].op = "delete" -> ids \ {call[t].session}
    [] OTHER -> ids

ReadList(t) ==
  /\ call[t].pc = "read_list"
  /\ \/ /\ call[t].op = "create" \/ Alive(index[OwnerOf(t)])
        /\ call[t].op = "delete" => call[t].session \in GetUserSessions(OwnerOf(t))
        /\ call' = [call EXCEPT ![t].pc = "write_list", ![t].list = Listed(t)]
        /\ overlapped' = IF Writing(t) THEN overlapped \cup {OwnerOf(t)} ELSE overlapped
        /\ UNCHANGED known
     \/ /\ \/ call[t].op # "create" /\ ~Alive(index[OwnerOf(t)])
           \/ call[t].op = "delete" /\ call[t].session \notin GetUserSessions(OwnerOf(t))
        /\ Return(t) /\ UNCHANGED overlapped
  /\ UNCHANGED <<settings, clock, entry, index, hurt, shortened, spent>>

PutList(t) ==
  SetList(OwnerOf(t), call[t].list, IF call[t].op = "delete" THEN Day ELSE timeout + Grace)

WriteList(t) ==
  /\ call[t].pc = "write_list"
  /\ PutList(t) /\ Return(t)
  /\ shortened' = IF call[t].op = "delete" THEN shortened \cup {OwnerOf(t)} ELSE shortened
  /\ UNCHANGED <<settings, clock, entry, overlapped, hurt, spent>>

(***************************************************************************)
(* Failures and time                                                       *)
(***************************************************************************)
Fault == spent.faults < MaxFaults /\ spent' = [spent EXCEPT !.faults = @ + 1]

\* A command raises, after it took effect or without; so does the call.  The client
\* knows nothing of a session whose create raised.
Fail(t) ==
  /\ backend # "memory" /\ call[t] # NoCall
  /\ Fault
  /\ \/ UNCHANGED <<entry, index>>
     \/ call[t].pc = "write" /\ backend = "redis" /\ Transaction(t)
     \/ call[t].pc = "write" /\ backend = "memcached" /\ Change(t) /\ UNCHANGED index
     \/ call[t].pc = "write_list" /\ PutList(t) /\ UNCHANGED entry
  /\ call' = [call EXCEPT ![t] = NoCall]
  /\ hurt' = hurt \cup {OwnerOf(t)}
  /\ UNCHANGED <<settings, clock, known, overlapped, shortened>>

\* The server drops keys: it restarts, or runs out of memory.
DropKeys(gone, lists) ==
  /\ backend # "memory" /\ gone \cup lists # {}
  /\ Fault
  /\ entry' = [s \in Sessions |-> IF s \in gone THEN None ELSE entry[s]]
  /\ index' = [u \in Users |-> IF u \in lists THEN None ELSE index[u]]
  /\ hurt' = hurt \cup lists
  /\ UNCHANGED <<settings, clock, call, known, overlapped, shortened>>

\* A call takes less time than the lists outlive the sessions.
Tick ==
  /\ clock < MaxClock
  /\ \A t \in Callers : call[t] # NoCall => clock < call[t].begun + Grace
  /\ clock' = clock + 1
  /\ UNCHANGED <<settings, entry, index, call, history, spent>>

Next ==
  \/ \E t \in Callers :
       \/ \E s \in Sessions, v \in Values \cup {None} :
            \E op \in {"create", "update", "delete", "extend"} : Begin(t, op, s, v)
       \/ CallMemory(t) \/ Look(t) \/ WriteRedis(t)
       \/ WriteMemcached(t) \/ ReadList(t) \/ WriteList(t) \/ Fail(t)
  \/ \E gone \in SUBSET Sessions, lists \in SUBSET Users : DropKeys(gone, lists)
  \/ Tick

Spec == Init /\ [][Next]_vars

(***************************************************************************)
(* Properties                                                              *)
(***************************************************************************)
\* A session that was created and can be read is in the list of its user, by which
\* the limit on sessions finds it.  On memcached it may be missing if two calls wrote
\* the list at once; and, whoever calls, if a command failed, if the list lives for
\* more than the 30 days memcached can count, or if a delete has cut the life of
\* the list to a day, after which a session is still there, or was when a call
\* began that keeps it (create, update, delete, extend).
ListedUnlessRaced ==
  \A s \in known :
    backend # "memory" /\ Alive(entry[s]) /\ s \notin GetUserSessions(UserOf[s]) =>
      \/ UserOf[s] \in hurt
      \/ /\ backend = "memcached"
         /\ \/ UserOf[s] \in overlapped
            \/ timeout + Grace > Month
            \/ timeout + Grace > Day /\ UserOf[s] \in shortened

\* All backends implement the contract of the storage (AbstractSessionStorage).
Calling(t) ==
  IF call[t] = NoCall
  THEN [op |-> "none", session |-> None, value |-> None, seen |-> {}]
  ELSE IF call[t].pc \in {"read_list", "write_list"}
  THEN [op |-> "over", session |-> None, value |-> None, seen |-> {}]
  ELSE [op |-> call[t].op, session |-> call[t].session, value |-> call[t].value,
        seen |-> {call[t].copy} \ {None}]

Contract == INSTANCE SessionContract WITH
  data <- [s \in Sessions |-> Get(s)],
  call <- [t \in Callers |-> Calling(t)]
KeepsContract == Contract!ContractSpec
====
