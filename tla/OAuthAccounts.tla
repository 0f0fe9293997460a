---- MODULE OAuthAccounts ----
(***************************************************************************)
(* Signing in with Google: a state that was stored is presented with a     *)
(* code, the code becomes an identity, the identity an account that is     *)
(* found, linked or created, and the account a session; the state goes     *)
(* last.  Registrations, profile updates, deletions and anonymisations     *)
(* change the same rows, identities included.  Each step is a command that *)
(* is awaited.                                                             *)
(***************************************************************************)
EXTENDS Naturals, FiniteSets

CONSTANTS
  Accounts,    \* ids of users
  Bases,       \* user names before a number is appended
  Emails,
  Identities,  \* sub: Google's ids of people
  Profiles,    \* what Google may say of them: an id, an email or none, a base
  States,      \* of the authorization requests, each generated once
  Requests,    \* slots of requests in flight
  Registrations, Updates,  \* bodies of POST /users and of PATCH /users/{username}
  None,
  MaxRequests, MaxFaults  \* bounds

\* The fields of a profile that are modelled.  A body may name an identity.
Fields == {"name", "email", "google"}

ASSUME OAuthConstants ==
  /\ Profiles \subseteq [id : Identities, email : Emails \cup {None}, base : Bases]
  /\ Registrations \subseteq [base : Bases, email : Emails, google : Identities \cup {None}]
  /\ Updates \subseteq [sets : SUBSET Fields,  \* the fields that are in the body
                        base : Bases, email : Emails, google : Identities \cup {None}]
  /\ None \notin Accounts \cup Emails \cup Identities \cup Bases \cup States
  /\ Accounts \cap Bases = {}
  /\ MaxRequests \in Nat /\ MaxFaults \in Nat

VARIABLES
  states,   \* the keys oauth_state:{state}
  account,  \* rows of users
  task,     \* the requests in flight, with their variables
  signIns,  \* history: sessions created by callbacks with a state
  shared,   \* history: states that two callbacks had read, or that were not deleted
  home,     \* history: the account an identity was last given
  spent     \* requests and faults so far

vars == <<states, account, task, signIns, shared, home, spent>>

Names == (Bases \cup Accounts) \X Nat
\* MUTANT of Anonymous: the name is set to NULL.
NoName(a) == None
\* del_{user_id}_{...}, unlike any other name.
Anonymous(a) == <<a, 0>>

Rows == [name : Names, email : Emails, google : Identities \cup {None}, deleted : BOOLEAN]

\* None is where there is no row.
ASSUME NoRow == None \notin Rows

Steps == {"idle", "state", "exchange", "by_id", "by_email", "link", "name", "insert",
          "session", "forget", "read", "email_free", "name_free", "write"}

Tasks ==
  [pc : Steps, state : States \cup {None},
   google : Identities \cup {None}, email : Emails \cup {None},
   base : Bases \cup {None}, number : Nat,  \* the name to try, i
   row : Accounts \cup {None},
   sets : SUBSET Fields,                    \* update_data
   renames : BOOLEAN]                       \* the name differs from the one that was read

NoTask == [pc |-> "idle", state |-> None, google |-> None, email |-> None,
           base |-> None, number |-> 0, row |-> None, sets |-> Fields,
           renames |-> TRUE]

TypeOK ==
  /\ states \in [States -> {"new", "kept", "gone"}]
  /\ account \in [Accounts -> Rows \cup {None}]
  /\ task \in [Requests -> Tasks]
  /\ signIns \in [States -> Nat]
  /\ shared \subseteq States
  /\ home \in [Identities -> Accounts \cup {None}]
  /\ spent \in [requests : Nat, faults : Nat]

Init ==
  /\ states = [s \in States |-> "new"]
  /\ account = [a \in Accounts |-> None]
  /\ task = [r \in Requests |-> NoTask]
  /\ signIns = [s \in States |-> 0]
  /\ shared = {}
  /\ home = [i \in Identities |-> None]
  /\ spent = [requests |-> 0, faults |-> 0]

At(r, step) == task[r].pc = step
Goto(r, step) == task' = [task EXCEPT ![r].pc = step]
Finish(r) == task' = [task EXCEPT ![r] = NoTask]
GoOrFinish(r, goes, step) == IF goes THEN Goto(r, step) ELSE Finish(r)

Begin(r, new) ==
  /\ At(r, "idle") /\ spent.requests < MaxRequests
  /\ spent' = [spent EXCEPT !.requests = @ + 1]
  /\ task' = [task EXCEPT ![r] = new]
  /\ UNCHANGED <<states, account, signIns, shared, home>>

Present == {a \in Accounts : account[a] # None}
NameOf(r) == <<task[r].base, task[r].number>>

\* The unique indexes; the rows that are deleted are in them.
NameFree(name, a) == \A b \in Present \ {a} : account[b].name # name
EmailFree(email, a) == \A b \in Present \ {a} : account[b].email # email
\* MUTANT of GoogleFree: google_id has no unique index.
GoogleFreeAlways(google, a) == TRUE
GoogleFree(google, a) ==
  google # None => \A b \in Present \ {a} : account[b].google # google

(***************************************************************************)
(* The authorization request and its callback                              *)
(***************************************************************************)
\* get_authorization_url: a state that was never generated before.
Generated(s) == states[s] = "new"

\* oauth_google_login: the state and its code verifier are stored, and go with the
\* answer to the client.
OauthGoogleLogin(s) ==
  /\ Generated(s)
  /\ states' = [states EXCEPT ![s] = "kept"]
  /\ UNCHANGED <<account, task, signIns, shared, home, spent>>

\* The client comes back with any state, one that nobody was given included.
OauthGoogleCallback(r, s) == Begin(r, [NoTask EXCEPT !.pc = "state", !.state = s])

\* Another callback has read the state and is not through.
ReadByOthers(r) ==
  \E q \in Requests \ {r} :
    task[q].state = task[r].state /\ task[q].pc \notin {"idle", "state"}

GetOauthState(r) ==
  /\ At(r, "state")
  /\ GoOrFinish(r, states[task[r].state] = "kept", "exchange")
  /\ shared' = IF states[task[r].state] = "kept" /\ ReadByOthers(r)
               THEN shared \cup {task[r].state} ELSE shared
  /\ UNCHANGED <<states, account, signIns, home, spent>>

\* process_user_info
Informed(r, p) ==
  task' = [task EXCEPT ![r].pc = "by_id", ![r].google = p.id,
                       ![r].email = p.email, ![r].base = p.base]

\* exchange_code and get_user_info: Google says who it is, or refuses the code.
Exchange(r) ==
  /\ At(r, "exchange")
  /\ \/ \E p \in Profiles : Informed(r, p)
     \/ Finish(r)
  /\ UNCHANGED <<states, account, signIns, shared, home, spent>>

Given(r, a) == home' = [home EXCEPT ![task[r].google] = a]

\* get_or_create_user: by the id.  Without an email there is nothing else to try.
FindById(r) ==
  /\ At(r, "by_id")
  /\ LET found == {a \in Present : account[a].google = task[r].google} IN
     \/ \E a \in found :
          task' = [task EXCEPT ![r].pc = "session", ![r].row = a] /\ Given(r, a)
     \/ /\ found = {} /\ GoOrFinish(r, task[r].email # None, "by_email")
        /\ UNCHANGED home
  /\ UNCHANGED <<states, account, signIns, shared, spent>>

FindByEmail(r) ==
  /\ At(r, "by_email")
  /\ LET found == {a \in Present : account[a].email = task[r].email} IN
     \/ \E a \in found : task' = [task EXCEPT ![r].pc = "link", ![r].row = a]
     \/ found = {} /\ Goto(r, "name")
  /\ UNCHANGED <<states, account, signIns, shared, home, spent>>

\* An id that the row has already is overwritten, and a deleted row is linked too.  The
\* update may return no row, and then the callback, which needs its id, ends.
Link(r) ==
  /\ At(r, "link")
  /\ LET a == task[r].row IN
     IF GoogleFree(task[r].google, a)
     THEN /\ account' = [account EXCEPT ![a].google = task[r].google]
          /\ Goto(r, "session") \/ Finish(r)
          /\ Given(r, a)
     ELSE Finish(r) /\ UNCHANGED <<account, home>>
  /\ UNCHANGED <<states, signIns, shared, spent>>

\* MUTANT of FindName: the number is not incremented.
FindNameAgain(r) ==
  /\ At(r, "name")
  /\ IF NameFree(NameOf(r), None) THEN Goto(r, "insert")
     ELSE task' = [task EXCEPT ![r].number = 1]
  /\ UNCHANGED <<states, account, signIns, shared, home, spent>>
FindName(r) ==
  /\ At(r, "name")
  /\ IF NameFree(NameOf(r), None) THEN Goto(r, "insert")
     ELSE task' = [task EXCEPT ![r].number = @ + 1]
  /\ UNCHANGED <<states, account, signIns, shared, home, spent>>

Row(r) == [name |-> NameOf(r), email |-> task[r].email, google |-> task[r].google,
           deleted |-> FALSE]

\* The insert of a callback and that of a registration; whatever another request
\* has taken since it was looked up ends it with an error.
Insert(r) ==
  /\ At(r, "insert")
  /\ \/ /\ NameFree(NameOf(r), None) /\ EmailFree(task[r].email, None)
        /\ GoogleFree(task[r].google, None)
        /\ \E a \in Accounts \ Present :
             /\ account' = [account EXCEPT ![a] = Row(r)]
             /\ IF task[r].state = None THEN Finish(r) /\ UNCHANGED home
                ELSE /\ task' = [task EXCEPT ![r].pc = "session", ![r].row = a]
                     /\ Given(r, a)
     \/ /\ \/ ~NameFree(NameOf(r), None) \/ ~EmailFree(task[r].email, None)
           \/ ~GoogleFree(task[r].google, None) \/ Present = Accounts
        /\ Finish(r) /\ UNCHANGED <<account, home>>
  /\ UNCHANGED <<states, signIns, shared, spent>>

\* create_session, whatever became of the account.
CreateSession(r) ==
  /\ At(r, "session")
  /\ signIns' = [signIns EXCEPT ![task[r].state] = @ + 1]
  /\ Goto(r, "forget")
  /\ UNCHANGED <<states, account, shared, home, spent>>

\* MUTANT of DeleteState: the state is left to expire.
KeepState(r) ==
  /\ At(r, "forget")
  /\ Finish(r)
  /\ UNCHANGED <<states, account, signIns, shared, home, spent>>
DeleteState(r) ==
  /\ At(r, "forget")
  /\ states' = [states EXCEPT ![task[r].state] = "gone"]
  /\ Finish(r)
  /\ UNCHANGED <<account, signIns, shared, home, spent>>

ExpireState(s) ==
  /\ states[s] = "kept"
  /\ states' = [states EXCEPT ![s] = "gone"]
  /\ UNCHANGED <<account, task, signIns, shared, home, spent>>

\* A command raises and the request is answered with an error; the one that would
\* delete the state leaves it for others.
Fail(r) ==
  /\ ~At(r, "idle") /\ spent.faults < MaxFaults
  /\ spent' = [spent EXCEPT !.faults = @ + 1]
  /\ shared' = IF At(r, "forget") THEN shared \cup {task[r].state} ELSE shared
  /\ Finish(r)
  /\ UNCHANGED <<states, account, signIns, home>>

(***************************************************************************)
(* Users                                                                   *)
(***************************************************************************)
\* create, and update of what the body sets: the identity too, whoever sends it.
Register(r, new) ==
  Begin(r, [NoTask EXCEPT !.pc = "email_free", !.base = new.base, !.email = new.email,
                          !.google = new.google])
Update(r, a, new) ==
  Begin(r, [NoTask EXCEPT !.pc = "read", !.row = a, !.sets = new.sets, !.base = new.base,
                          !.email = new.email, !.google = new.google])

\* A name or an email that does not change is not looked up, an identity never.
ReadUser(r) ==
  /\ At(r, "read")
  /\ LET a == task[r].row IN
     IF account[a] = None \/ account[a].deleted THEN Finish(r)
     ELSE LET renames == "name" \in task[r].sets /\ account[a].name # NameOf(r)
              remails == "email" \in task[r].sets /\ account[a].email # task[r].email IN
          task' = [task EXCEPT ![r].renames = renames,
            ![r].pc = IF remails THEN "email_free"
                      ELSE IF renames THEN "name_free" ELSE "write"]
  /\ UNCHANGED <<states, account, signIns, shared, home, spent>>

CheckEmail(r) ==
  /\ At(r, "email_free")
  /\ GoOrFinish(r, EmailFree(task[r].email, None),
                IF task[r].renames THEN "name_free" ELSE "write")
  /\ UNCHANGED <<states, account, signIns, shared, home, spent>>

CheckName(r) ==
  /\ At(r, "name_free")
  /\ GoOrFinish(r, NameFree(NameOf(r), None),
                IF task[r].row = None THEN "insert" ELSE "write")
  /\ UNCHANGED <<states, account, signIns, shared, home, spent>>

\* The row with what the body sets.
Updated(r, row) ==
  [row EXCEPT !.name = IF "name" \in task[r].sets THEN NameOf(r) ELSE @,
              !.email = IF "email" \in task[r].sets THEN task[r].email ELSE @,
              !.google = IF "google" \in task[r].sets THEN task[r].google ELSE @]

\* UPDATE by id: the unique indexes decide, not what was read.
WriteUser(r) ==
  /\ At(r, "write")
  /\ LET a == task[r].row
         row == Updated(r, account[a]) IN
     account' = IF NameFree(row.name, a) /\ EmailFree(row.email, a) /\ GoogleFree(row.google, a)
                THEN [account EXCEPT ![a] = row] ELSE account
  /\ Finish(r)
  /\ UNCHANGED <<states, signIns, shared, home, spent>>

Administer == UNCHANGED <<states, task, signIns, shared, home, spent>>

Delete(a) ==
  /\ a \in Present /\ ~account[a].deleted
  /\ account' = [account EXCEPT ![a].deleted = TRUE]
  /\ Administer

\* The email is retained, and with it the way back by FindByEmail.
AnonymizeUser(a) ==
  /\ a \in Present
  /\ account' = [account EXCEPT ![a].name = Anonymous(a), ![a].google = None,
                                ![a].deleted = TRUE]
  /\ Administer

\* What a request in flight does next.
Step(r) ==
  \/ GetOauthState(r) \/ Exchange(r) \/ FindById(r) \/ FindByEmail(r) \/ Link(r)
  \/ FindName(r) \/ Insert(r) \/ CreateSession(r) \/ DeleteState(r)
  \/ ReadUser(r) \/ CheckEmail(r) \/ CheckName(r) \/ WriteUser(r)

Next ==
  \/ \E s \in States : OauthGoogleLogin(s) \/ ExpireState(s)
  \/ \E r \in Requests :
       \/ \E s \in States : OauthGoogleCallback(r, s)
       \/ \E new \in Registrations : Register(r, new)
       \/ \E a \in Present, new \in Updates : Update(r, a, new)
       \/ Step(r) \/ Fail(r)
  \/ \E a \in Accounts : Delete(a) \/ AnonymizeUser(a)

Spec == Init /\ [][Next]_vars /\ \A r \in Requests : WF_vars(Step(r))

(***************************************************************************)
(* Properties                                                              *)
(***************************************************************************)
\* A state signs in once.  It signs in again only if a second callback had read it
\* while the first was under way, or if the deletion that ends the first one failed
\* (state_storage.delete comes after the session).
AStateSignsInOnce == \A s \in States : signIns[s] > 1 => s \in shared

\* Who signs in again with an identity gets the account of the last time, however the
\* first sign-ins raced and whatever email Google gives now, unless that account's
\* google_id was overwritten since: by an anonymisation, by the link of another identity
\* with the same email, or by an update of the profile, which writes any google_id that
\* no other row has (get_or_create_user).
AnIdentityKeepsItsAccount ==
  [][\A i \in Identities :
       home[i] # None /\ home[i]' # home[i] => account[home[i]].google # i]_vars

\* Every request is answered: the search for a free name ends, whoever takes names
\* meanwhile (the loop over exists in _create_user_from_oauth).
EveryRequestIsAnswered == \A r \in Requests : ~At(r, "idle") ~> At(r, "idle")
====
