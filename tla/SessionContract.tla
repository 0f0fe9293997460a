---- MODULE SessionContract ----
(***************************************************************************)
(* What a session storage promises to its callers, whichever backend and   *)
(* whatever the others do at the same time: a call acts at most once and   *)
(* on its own session, an update or an extension only on a session that    *)
(* was there at some time of the call, and an extension with data that the *)
(* session had then.                                                       *)
(***************************************************************************)
CONSTANTS Sessions, Values, Callers, None

VARIABLES data,  \* [Sessions -> what get answers]
          call   \* [Callers -> the call under way]

contractVars == <<data, call>>

Idle == [op |-> "none", session |-> None, value |-> None, seen |-> {}]
Over == [Idle EXCEPT !.op = "over"]

ContractInit ==
  /\ data = [s \in Sessions |-> None]
  /\ call = [t \in Callers |-> Idle]

Begin(t, op, s, v) ==
  /\ call[t] = Idle
  /\ call' = [call EXCEPT ![t] = [op |-> op, session |-> s, value |-> v, seen |-> {}]]
  /\ UNCHANGED data

Under(t) == call[t].op \in {"create", "update", "delete", "extend"}
There(s) == {data[s]} \ {None}

See(t) ==
  /\ Under(t)
  /\ There(call[t].session) # {}
  /\ call' = [call EXCEPT ![t].seen = @ \cup There(call[t].session)]
  /\ UNCHANGED data

Outcomes(c) ==
  LET seen == c.seen \cup There(c.session) IN
  CASE c.op = "create" -> {c.value}
    [] c.op = "update" -> IF seen = {} THEN {} ELSE {c.value}
    [] c.op = "extend" -> seen
    [] c.op = "delete" -> {None}

\* The call takes effect, and then has nothing left to do or is answered at once.
Act(t) ==
  /\ Under(t)
  /\ \E v \in Outcomes(call[t]) : data' = [data EXCEPT ![call[t].session] = v]
  /\ \E after \in {Idle, Over} : call' = [call EXCEPT ![t] = after]

\* An answer, with or without an effect, or an error.
Return(t) ==
  /\ call[t] # Idle
  /\ \E after \in {Idle, Over} : call' = [call EXCEPT ![t] = after]
  /\ UNCHANGED data

Vanish(gone) ==
  /\ data' = [s \in Sessions |-> IF s \in gone THEN None ELSE data[s]]
  /\ UNCHANGED call

ContractNext ==
  \/ \E t \in Callers :
       \/ \E op \in {"create", "update", "delete", "extend"}, s \in Sessions, v \in Values \cup {None} :
            Begin(t, op, s, v)
       \/ See(t) \/ Act(t) \/ Return(t)
  \/ \E gone \in SUBSET Sessions : Vanish(gone)

ContractSpec == ContractInit /\ [][ContractNext]_contractVars
====
