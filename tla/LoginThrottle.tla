---- MODULE LoginThrottle ----
(***************************************************************************)
(* The counters of login attempts: one per address and one per user name,  *)
(* incremented before the password is looked at, cleared by a login that   *)
(* succeeds and by the end of their window.                                *)
(***************************************************************************)
EXTENDS Naturals

CONSTANTS
  Counters,       \* addresses and user names that log in; none of them
                  \* when there is no limiter
  LoginMax        \* LOGIN_MAX_ATTEMPTS

ASSUME LoginMaxAssumption == LoginMax \in Nat \ {0}

VARIABLES
  count,          \* [Counters -> value of login:ip:{} or login:user:{}]
  guesses         \* history: [Counters -> passwords looked at for this name
                  \* or address since its counter was last cleared]

throttleVars == <<count, guesses>>

ThrottleTypes == count \in [Counters -> Nat] /\ guesses \in [Counters -> Nat]

ThrottleInit ==
  /\ count = [c \in Counters |-> 0]
  /\ guesses = [c \in Counters |-> 0]

\* MULTI: INCRBY and EXPIRE.
Increment(c) == count' = [count EXCEPT ![c] = @ + 1] /\ UNCHANGED guesses

\* DEL, and the end of the window.
Clear(c) ==
  /\ count' = [count EXCEPT ![c] = 0]
  /\ guesses' = [guesses EXCEPT ![c] = 0]

\* MUTANT: the answer of the limiter is not looked at.
AllowedAnyhow(n) == TRUE
\* is_allowed, for a count that an increment returned.
Allowed(n) == n <= LoginMax

LookAtPassword(name, address) ==
  /\ guesses' = [c \in Counters |->
                   IF c \in {name, address} THEN guesses[c] + 1 ELSE guesses[c]]
  /\ UNCHANGED count
====
