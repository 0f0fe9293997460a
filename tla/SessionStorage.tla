---- MODULE SessionStorage ----
(***************************************************************************)
(* The Redis session storage and the storage of CSRF tokens beside it.     *)
(* A key lives for Timeout ticks from its last SET and is then gone;       *)
(* update() is an EXISTS followed by a SET of the whole record, so what is *)
(* written is what the caller read before, changed in one field.           *)
(* There is one operator per command the callers await: what happens       *)
(* between two of them is for the callers' module to say.                  *)
(***************************************************************************)
EXTENDS Naturals, FiniteSets

CONSTANTS
  Users,
  Sessions,   \* session ids, each generated once
  Timeout,    \* SESSION_TIMEOUT_MINUTES: of the session, its key and its token
  None

ASSUME TimeoutAssumption == Timeout \in Nat \ {0}

VARIABLES
  clock,      \* time
  store,      \* [Sessions -> the key session:{id}: its record and its end]
  index,      \* [Users -> the set session:user:{id}]
  tokens      \* [Sessions -> end of the last csrf:{token} bound to it]

storageVars == <<clock, store, index, tokens>>

Records == [user : Users, active : BOOLEAN, last : Nat]
Keys == [data : Records, until : Nat]

ASSUME NoRecordAssumption == None \notin Keys \cup Records \cup Sessions

StorageTypes ==
  /\ clock \in Nat
  /\ store \in [Sessions -> Keys \cup {None}]
  /\ index \in [Users -> SUBSET Sessions]
  /\ tokens \in [Sessions -> Nat]

StorageInit ==
  /\ clock = 0
  /\ store = [s \in Sessions |-> None]
  /\ index = [u \in Users |-> {}]
  /\ tokens = [s \in Sessions |-> 0]

\* EXISTS: the key was set, and its time to live is not over.
Exists(s) == store[s] # None /\ clock < store[s].until

\* GET.
Get(s) == IF Exists(s) THEN store[s].data ELSE None

\* What was read is the record of a session that is not ended.
InUse(data) == data # None /\ data.active

\* SCAN session:*
Scan == {s \in Sessions : Exists(s)}

\* MUTANT of Set: what is left of the time to live is kept.
SetKeepingEnd(s, data) ==
  store' = [store EXCEPT ![s] = [data |-> data,
              until |-> IF Exists(s) THEN store[s].until ELSE clock + Timeout]]

\* SET with a new time to live.
Set(s, data) ==
  store' = [store EXCEPT ![s] = [data |-> data, until |-> clock + Timeout]]

\* MULTI: SET of the session and SADD to the set of its user.
Create(s, data) ==
  /\ Set(s, data)
  /\ index' = [index EXCEPT ![data.user] = @ \cup {s}]

\* _generate_csrf_token: the token is not extended by the session's activity.
CreateToken(s) == tokens' = [tokens EXCEPT ![s] = clock + Timeout]

Tick(end) ==
  /\ clock < end
  /\ clock' = clock + 1
  /\ UNCHANGED <<store, index, tokens>>

Active(s) == InUse(Get(s))
ActiveOf(u) == {s \in Sessions : Active(s) /\ store[s].data.user = u}
====
