---- MODULE OAuthAccountsProofs ----
(***************************************************************************)
(* Proofs about OAuthAccounts, for any accounts, people, emails, states    *)
(* and requests in flight, and any number of requests and failures.        *)
(***************************************************************************)
EXTENDS OAuthAccounts, TLAPS

------------------------------------------------------------------------
(* What a request has at each of its steps.                               *)

Callback == {"state", "exchange", "by_id", "by_email", "link", "name", "session", "forget"}

\* Of a request with the variables k, when the rows are those of rows.
Has(k, rows) ==
  /\ k.pc \in Callback => k.state \in States
  /\ k.pc = "insert" /\ k.state # None => k.google \in Identities
  /\ k.pc \in {"by_id", "by_email", "link", "name"} => k.google \in Identities
  /\ k.pc \in {"read", "email_free", "name_free", "write"} => k.state = None
  /\ k.pc \notin {"idle", "state", "exchange"} => k.base \in Bases
  /\ k.pc \notin {"idle", "state", "exchange", "by_id", "session", "forget"} => k.email \in Emails
  /\ k.pc \in {"link", "read", "write"} => k.row # None
  /\ k.pc \in {"link", "read", "email_free", "name_free", "write"} /\ k.row # None =>
       rows[k.row] # None
  /\ k.pc = "email_free" /\ k.row = None => k.renames

Typed == TypeOK /\ \A r \in Requests : Has(task[r], account)

\* A request and its variables.
LEMMA TaskType ==
  ASSUME Typed, NEW r \in Requests
  PROVE  task[r] \in Tasks /\ Has(task[r], account)
BY DEF Typed, TypeOK

\* The rows that are there.
LEMMA RowType ==
  ASSUME Typed, NEW a \in Present
  PROVE  a \in Accounts /\ account[a] \in Rows /\ a # None
BY OAuthConstants DEF Typed, TypeOK, Present

------------------------------------------------------------------------
(* What one step makes of the accounts.                                   *)

\* One row is written, with an identity that it had, that nobody has, or none.
Writes(a, row) ==
  /\ account' = [account EXCEPT ![a] = row]
  /\ \/ row.google = None \/ GoogleFree(row.google, a)
     \/ a \in Present /\ row.google = account[a].google
RowStep == \E a \in Accounts, row \in Rows : Writes(a, row)

\* A name is a pair; so is the one that anonymisation gives.
LEMMA NameTypes ==
  /\ \A a \in Accounts : Anonymous(a) \in Names
  /\ \A r \in Requests : Typed /\ task[r].base \in Bases => NameOf(r) \in Names
<1>1. \A a \in Accounts : Anonymous(a) \in Names
  BY DEF Anonymous, Names
<1>2. ASSUME NEW r \in Requests, Typed, task[r].base \in Bases PROVE NameOf(r) \in Names
  <2>1. task[r].number \in Nat
    BY <1>2, TaskType DEF Tasks
  <2> QED BY <1>2, <2>1 DEF NameOf, Names
<1> QED BY <1>1, <1>2

LEMMA LinkRow ==
  ASSUME Typed, NEW r \in Requests, Link(r)
  PROVE  RowStep \/ UNCHANGED account
<1> DEFINE a == task[r].row
           row == [account[a] EXCEPT !.google = task[r].google]
<1>1. a \in Accounts /\ a \in Present /\ task[r].google \in Identities
  BY TaskType DEF Link, At, Has, Tasks, Present
<1>2. row \in Rows /\ row.google = task[r].google
  BY <1>1, RowType DEF Rows
<1>3. CASE GoogleFree(task[r].google, a)
  <2>1. account' = [account EXCEPT ![a] = row]
    BY <1>1, <1>3 DEF Link, Typed, TypeOK
  <2> HIDE DEF row
  <2> QED BY <1>1, <1>2, <1>3, <2>1 DEF RowStep, Writes
<1>4. CASE ~GoogleFree(task[r].google, a)
  BY <1>4 DEF Link
<1> QED BY <1>3, <1>4

LEMMA InsertRow ==
  ASSUME Typed, NEW r \in Requests, Insert(r)
  PROVE  RowStep \/ UNCHANGED account
<1>1. CASE UNCHANGED account
  BY <1>1
<1>2. CASE \E a \in Accounts \ Present : account' = [account EXCEPT ![a] = Row(r)]
           /\ GoogleFree(task[r].google, None)
  <2> PICK a \in Accounts \ Present : account' = [account EXCEPT ![a] = Row(r)]
    BY <1>2
  <2>1. task[r].email \in Emails /\ task[r].base \in Bases /\ task[r].google \in Identities \cup {None}
    BY TaskType DEF Insert, At, Has, Tasks
  <2>2. NameOf(r) \in Names
    BY <2>1, NameTypes
  <2>3. Row(r) \in Rows /\ Row(r).google = task[r].google
    BY <2>1, <2>2 DEF Row, Rows
  <2>4. GoogleFree(Row(r).google, a)
    <3>1. Present \ {a} \subseteq Present \ {None}
      BY RowType
    <3> QED BY <1>2, <2>3, <3>1 DEF GoogleFree
  <2> QED BY <2>3, <2>4 DEF RowStep, Writes
<1> QED BY <1>1, <1>2 DEF Insert

LEMMA WriteRow ==
  ASSUME Typed, NEW r \in Requests, WriteUser(r)
  PROVE  RowStep \/ UNCHANGED account
<1> DEFINE a == task[r].row
           row == Updated(r, account[a])
<1>1. /\ a \in Accounts /\ a \in Present /\ account[a] \in Rows
      /\ task[r].email \in Emails /\ task[r].base \in Bases
      /\ task[r].google \in Identities \cup {None}
  BY TaskType, RowType DEF WriteUser, At, Has, Tasks, Present
<1>2. NameOf(r) \in Names
  BY <1>1, NameTypes
<1>3. row \in Rows
  BY <1>1, <1>2 DEF Rows, Updated
<1>4. \/ account' = [account EXCEPT ![a] = row] /\ GoogleFree(row.google, a)
      \/ UNCHANGED account
  BY DEF WriteUser
<1> HIDE DEF row
<1> QED BY <1>1, <1>3, <1>4 DEF RowStep, Writes

LEMMA AdminRow ==
  ASSUME Typed, NEW a \in Accounts, Delete(a) \/ AnonymizeUser(a)
  PROVE  RowStep
<1>1. a \in Present /\ account[a] \in Rows
  BY RowType DEF Delete, AnonymizeUser
<1>2. CASE Delete(a)
  <2> DEFINE row == [account[a] EXCEPT !.deleted = TRUE]
  <2>1. row \in Rows /\ row.google = account[a].google
    BY <1>1 DEF Rows
  <2>2. account' = [account EXCEPT ![a] = row]
    BY <1>2 DEF Delete, Typed, TypeOK
  <2> HIDE DEF row
  <2> QED BY <1>1, <2>1, <2>2 DEF RowStep, Writes
<1>3. CASE AnonymizeUser(a)
  <2> DEFINE row == [account[a] EXCEPT !.name = Anonymous(a), !.google = None, !.deleted = TRUE]
  <2>1. row \in Rows /\ row.google = None
    BY <1>1, NameTypes DEF Rows
  <2>2. account' = [account EXCEPT ![a] = row]
    BY <1>3 DEF AnonymizeUser, Typed, TypeOK
  <2> HIDE DEF row
  <2> QED BY <2>1, <2>2 DEF RowStep, Writes
<1> QED BY <1>2, <1>3

\* No other step writes a row.
LEMMA AccountSteps ==
  ASSUME Typed, [Next]_vars
  PROVE  RowStep \/ UNCHANGED account
<1>1. ASSUME NEW r \in Requests, Step(r) PROVE RowStep \/ UNCHANGED account
  BY <1>1, LinkRow, InsertRow, WriteRow
     DEF Step, GetOauthState, Exchange, FindById, FindByEmail, FindName, CreateSession,
         DeleteState, ReadUser, CheckEmail, CheckName
<1>2. ASSUME NEW r \in Requests, NEW s, OauthGoogleCallback(r, s) PROVE UNCHANGED account
  BY <1>2 DEF OauthGoogleCallback, Begin
<1>3. ASSUME NEW r \in Requests, NEW a, NEW new, Update(r, a, new)
      PROVE  UNCHANGED account
  BY <1>3 DEF Update, Begin
<1>4. ASSUME NEW r \in Requests, NEW new, Register(r, new) PROVE UNCHANGED account
  BY <1>4 DEF Register, Begin
<1>5. ASSUME NEW r \in Requests, Fail(r) PROVE UNCHANGED account
  BY <1>5 DEF Fail
<1>6. ASSUME NEW s, OauthGoogleLogin(s) \/ ExpireState(s) PROVE UNCHANGED account
  BY <1>6 DEF OauthGoogleLogin, ExpireState
<1>7. CASE UNCHANGED vars
  BY <1>7 DEF vars
<1> QED BY <1>1, <1>2, <1>3, <1>4, <1>5, <1>6, <1>7, AdminRow DEF Next

\* The rows keep their types, and none of them goes.
LEMMA RowsStay ==
  ASSUME Typed, [Next]_vars
  PROVE  /\ account' \in [Accounts -> Rows \cup {None}]
         /\ \A a \in Accounts : account[a] # None => account'[a] # None
<1>1. account \in [Accounts -> Rows \cup {None}]
  BY DEF Typed, TypeOK
<1> QED BY <1>1, NoRow, AccountSteps DEF RowStep, Writes

------------------------------------------------------------------------
(* What one step makes of a request.                                      *)

\* The request has new variables, and what their step needs.
Moves(r, new) ==
  /\ new \in Tasks /\ Has(new, account')
  /\ task' = [task EXCEPT ![r] = new]

\* A callback does not get past the state, or to its session.
Quiet(old, new) ==
  /\ old.pc # "forget"
  /\ new.state \in States /\ new.pc \notin {"idle", "state"} =>
       /\ new.state = old.state /\ new.pc # "forget"
       /\ old.pc \notin {"idle", "state"}

Quietly(r) ==
  /\ \E new : Moves(r, new) /\ Quiet(task[r], new)
  /\ UNCHANGED <<states, signIns, shared>>

\* The steps are what they are called.
LEMMA StepNames ==
  Callback \cup {"idle", "insert", "read", "email_free", "name_free", "write"} \subseteq Steps
BY DEF Callback, Steps

LEMMA Idles ==
  ASSUME Typed, NEW r \in Requests, Finish(r)
  PROVE  Moves(r, NoTask)
<1>1. NoTask \in Tasks /\ Has(NoTask, account')
  BY DEF NoTask, Tasks, Has, Steps, Callback
<1> QED BY <1>1 DEF Moves, Finish

\* Finishing is quiet.
LEMMA IdlesQuietly ==
  ASSUME Typed, NEW r \in Requests, Finish(r), ~At(r, "forget"),
         UNCHANGED <<states, signIns, shared>>
  PROVE  Quietly(r)
<1>1. Quiet(task[r], NoTask)
  BY DEF Quiet, NoTask, At
<1> QED BY <1>1, Idles DEF Quietly

\* So is going to another step with the same variables.
LEMMA GoesQuietly ==
  ASSUME Typed, NEW r \in Requests, NEW step \in Steps, Goto(r, step),
         task[r].pc \notin {"idle", "state", "forget"}, step # "forget",
         Has([task[r] EXCEPT !.pc = step], account'),
         UNCHANGED <<states, signIns, shared>>
  PROVE  Quietly(r)
<1> DEFINE new == [task[r] EXCEPT !.pc = step]
<1>1. new \in Tasks /\ new.state = task[r].state /\ new.pc = step
  BY TaskType DEF Tasks
<1>2. task' = [task EXCEPT ![r] = new]
  BY DEF Goto, Typed, TypeOK
<1>3. Has(new, account')
  OBVIOUS
<1> HIDE DEF new
<1>4. Quiet(task[r], new)
  BY <1>1 DEF Quiet
<1> QED BY <1>1, <1>2, <1>3, <1>4 DEF Quietly, Moves

\* A request that begins.
LEMMA BeginQuietly ==
  ASSUME Typed, NEW r \in Requests, NEW new \in Tasks, Begin(r, new), Has(new, account'),
         new.pc = "state" \/ new.state = None
  PROVE  Quietly(r)
<1>1. Quiet(task[r], new)
  BY OAuthConstants DEF Begin, At, Quiet
<1> QED BY <1>1 DEF Begin, Quietly, Moves

LEMMA BeginSteps ==
  ASSUME Typed, NEW r \in Requests
  PROVE  /\ \A s \in States : OauthGoogleCallback(r, s) => Quietly(r)
         /\ \A body \in Registrations : Register(r, body) => Quietly(r)
         /\ \A a \in Present, body \in Updates : Update(r, a, body) => Quietly(r)
<1>1. ASSUME NEW s \in States, OauthGoogleCallback(r, s) PROVE Quietly(r)
  <2> DEFINE new == [NoTask EXCEPT !.pc = "state", !.state = s]
  <2>1. new \in Tasks /\ new.pc = "state" /\ new.state = s
    BY StepNames DEF NoTask, Tasks, Callback
  <2>2. Begin(r, new)
    BY <1>1 DEF OauthGoogleCallback
  <2> HIDE DEF new
  <2>3. Has(new, account')
    BY <2>1 DEF Has
  <2> QED BY <2>1, <2>2, <2>3, BeginQuietly
<1>2. ASSUME NEW body \in Registrations, Register(r, body)
      PROVE  Quietly(r)
  <2> DEFINE new == [NoTask EXCEPT !.pc = "email_free", !.base = body.base,
                                   !.email = body.email, !.google = body.google]
  <2>1. body.base \in Bases /\ body.email \in Emails /\ body.google \in Identities \cup {None}
    BY OAuthConstants
  <2>2. /\ new \in Tasks /\ new.pc = "email_free" /\ new.state = None
        /\ new.base = body.base /\ new.email = body.email /\ new.row = None /\ new.renames
    BY <2>1, StepNames DEF NoTask, Tasks
  <2>3. Begin(r, new)
    BY <1>2 DEF Register
  <2> HIDE DEF new
  <2>4. Has(new, account')
    BY <2>1, <2>2 DEF Has, Callback
  <2> QED BY <2>2, <2>3, <2>4, BeginQuietly
<1>3. ASSUME NEW a \in Present, NEW body \in Updates, Update(r, a, body)
      PROVE  Quietly(r)
  <2> DEFINE new == [NoTask EXCEPT !.pc = "read", !.row = a, !.sets = body.sets,
                       !.base = body.base, !.email = body.email, !.google = body.google]
  <2>1. /\ body.base \in Bases /\ body.email \in Emails
        /\ body.google \in Identities \cup {None} /\ body.sets \in SUBSET Fields
    BY OAuthConstants
  <2>2. /\ new \in Tasks /\ new.pc = "read" /\ new.state = None
        /\ new.base = body.base /\ new.email = body.email /\ new.row = a /\ a # None
    BY <2>1, StepNames, RowType DEF NoTask, Tasks
  <2>3. Begin(r, new)
    BY <1>3 DEF Update
  <2> HIDE DEF new
  <2>4. account'[a] # None
    BY <2>3 DEF Begin, Present
  <2>5. Has(new, account')
    BY <2>1, <2>2, <2>4 DEF Has, Callback
  <2> QED BY <2>2, <2>3, <2>5, BeginQuietly
<1> QED BY <1>1, <1>2, <1>3

LEMMA ExchangeStep ==
  ASSUME Typed, NEW r \in Requests, Exchange(r)
  PROVE  Quietly(r)
<1>1. CASE Finish(r)
  BY <1>1, IdlesQuietly DEF Exchange, At
<1>2. ASSUME NEW p \in Profiles, Informed(r, p) PROVE Quietly(r)
  <2> DEFINE new == [task[r] EXCEPT !.pc = "by_id", !.google = p.id, !.email = p.email,
                                    !.base = p.base]
  <2>1. p.id \in Identities /\ p.email \in Emails \cup {None} /\ p.base \in Bases
    BY OAuthConstants
  <2>2. /\ new \in Tasks /\ new.pc = "by_id" /\ new.state = task[r].state
        /\ new.google = p.id /\ new.base = p.base
    BY <2>1, TaskType, StepNames DEF Tasks, Callback
  <2>3. task' = [task EXCEPT ![r] = new]
    BY <1>2 DEF Informed, Typed, TypeOK
  <2> HIDE DEF new
  <2>4. task[r].state \in States /\ task[r].pc = "exchange"
    BY TaskType DEF Exchange, At, Has, Callback
  <2>5. Has(new, account') /\ Quiet(task[r], new)
    BY <2>1, <2>2, <2>4 DEF Has, Quiet
  <2> QED BY <2>2, <2>3, <2>5 DEF Exchange, Quietly, Moves
<1> QED BY <1>1, <1>2 DEF Exchange

\* A callback that has found its account goes to the session.
LEMMA ToSession ==
  ASSUME Typed, NEW r \in Requests, NEW a \in Accounts,
         task[r].pc \in {"by_id", "insert"}, task[r].state \in States,
         task' = [task EXCEPT ![r].pc = "session", ![r].row = a],
         UNCHANGED <<states, signIns, shared>>
  PROVE  Quietly(r)
<1> DEFINE new == [task[r] EXCEPT !.pc = "session", !.row = a]
<1>1. /\ new \in Tasks /\ new.pc = "session" /\ new.state = task[r].state
      /\ new.base = task[r].base
  BY TaskType, StepNames DEF Tasks, Callback
<1>2. task' = [task EXCEPT ![r] = new]
  BY DEF Typed, TypeOK
<1> HIDE DEF new
<1>3. task[r].base \in Bases
  BY TaskType DEF Has
<1>4. Has(new, account') /\ Quiet(task[r], new)
  BY <1>1, <1>3 DEF Has, Quiet
<1> QED BY <1>1, <1>2, <1>4 DEF Quietly, Moves

LEMMA FindByIdStep ==
  ASSUME Typed, NEW r \in Requests, FindById(r)
  PROVE  Quietly(r)
<1>1. Has(task[r], account) /\ task[r].pc = "by_id" /\ task[r].state \in States
  BY TaskType DEF FindById, At, Has, Callback
<1>2. ASSUME NEW a \in Present,
             task' = [task EXCEPT ![r].pc = "session", ![r].row = a]
      PROVE  Quietly(r)
  BY <1>1, <1>2, RowType, ToSession DEF FindById
<1>3. CASE GoOrFinish(r, task[r].email # None, "by_email")
  <2>1. CASE Finish(r)
    BY <1>1, <2>1, IdlesQuietly DEF FindById, At
  <2>2. CASE task[r].email # None /\ Goto(r, "by_email")
    <3> DEFINE new == [task[r] EXCEPT !.pc = "by_email"]
    <3>1. /\ new.pc = "by_email" /\ new.state = task[r].state /\ new.google = task[r].google
          /\ new.base = task[r].base /\ new.email = task[r].email
      BY TaskType DEF Tasks
    <3> HIDE DEF new
    <3>2. task[r].email \in Emails
      BY <2>2, TaskType DEF Tasks
    <3>3. Has(new, account')
      BY <1>1, <3>1, <3>2 DEF Has, Callback
    <3> QED BY <1>1, <2>2, <3>3, StepNames, GoesQuietly DEF FindById, Callback, new
  <2> QED BY <1>3, <2>1, <2>2 DEF GoOrFinish
<1> QED BY <1>2, <1>3 DEF FindById

LEMMA FindByEmailStep ==
  ASSUME Typed, NEW r \in Requests, FindByEmail(r)
  PROVE  Quietly(r)
<1>1. Has(task[r], account) /\ task[r].pc = "by_email" /\ task[r].state \in States
      /\ task[r].google \in Identities
  BY TaskType DEF FindByEmail, At, Has, Callback
<1>2. ASSUME NEW a \in Present,
             task' = [task EXCEPT ![r].pc = "link", ![r].row = a]
      PROVE  Quietly(r)
  <2> DEFINE new == [task[r] EXCEPT !.pc = "link", !.row = a]
  <2>1. a \in Accounts /\ a # None
    BY RowType
  <2>2. /\ new \in Tasks /\ new.pc = "link" /\ new.state = task[r].state /\ new.row = a
        /\ new.base = task[r].base /\ new.google = task[r].google /\ new.email = task[r].email
    BY <2>1, TaskType, StepNames DEF Tasks, Callback
  <2>3. task' = [task EXCEPT ![r] = new]
    BY <1>2 DEF Typed, TypeOK
  <2> HIDE DEF new
  <2>4. account'[a] # None
    BY DEF FindByEmail, Present
  <2>5. Has(new, account') /\ Quiet(task[r], new)
    BY <1>1, <2>1, <2>2, <2>4 DEF Has, Quiet
  <2> QED BY <2>2, <2>3, <2>5 DEF FindByEmail, Quietly, Moves
<1>3. CASE Goto(r, "name")
  <2> DEFINE new == [task[r] EXCEPT !.pc = "name"]
  <2>1. /\ new.pc = "name" /\ new.state = task[r].state /\ new.google = task[r].google
        /\ new.base = task[r].base /\ new.email = task[r].email
    BY TaskType DEF Tasks
  <2> HIDE DEF new
  <2>2. Has(new, account')
    BY <1>1, <2>1 DEF Has, Callback
  <2> QED BY <1>1, <1>3, <2>2, StepNames, GoesQuietly DEF FindByEmail, Callback, new
<1> QED BY <1>2, <1>3 DEF FindByEmail

LEMMA LinkStep ==
  ASSUME Typed, NEW r \in Requests, Link(r)
  PROVE  Quietly(r)
<1>1. Has(task[r], account) /\ task[r].pc = "link" /\ task[r].state \in States
  BY TaskType DEF Link, At, Has, Callback
<1>2. CASE Finish(r)
  BY <1>1, <1>2, IdlesQuietly DEF Link, At
<1>3. CASE Goto(r, "session")
  <2> DEFINE new == [task[r] EXCEPT !.pc = "session"]
  <2>1. new.pc = "session" /\ new.state = task[r].state /\ new.base = task[r].base
    BY TaskType DEF Tasks
  <2> HIDE DEF new
  <2>2. Has(new, account')
    BY <1>1, <2>1 DEF Has, Callback
  <2> QED BY <1>1, <1>3, <2>2, StepNames, GoesQuietly DEF Link, Callback, new
<1> QED BY <1>2, <1>3 DEF Link

LEMMA FindNameStep ==
  ASSUME Typed, NEW r \in Requests, FindName(r)
  PROVE  Quietly(r)
<1>1. Has(task[r], account) /\ task[r].pc = "name" /\ task[r].state \in States
      /\ task[r].google \in Identities
  BY TaskType DEF FindName, At, Has, Callback
<1>2. CASE Goto(r, "insert")
  <2> DEFINE new == [task[r] EXCEPT !.pc = "insert"]
  <2>1. /\ new.pc = "insert" /\ new.state = task[r].state /\ new.google = task[r].google
        /\ new.base = task[r].base /\ new.email = task[r].email
    BY TaskType DEF Tasks
  <2> HIDE DEF new
  <2>2. Has(new, account')
    BY <1>1, <2>1 DEF Has, Callback
  <2> QED BY <1>1, <1>2, <2>2, StepNames, GoesQuietly DEF FindName, Callback, new
<1>3. CASE task' = [task EXCEPT ![r].number = @ + 1]
  <2> DEFINE new == [task[r] EXCEPT !.number = task[r].number + 1]
  <2>1. /\ new \in Tasks /\ new.pc = "name" /\ new.state = task[r].state
        /\ new.google = task[r].google /\ new.base = task[r].base
        /\ new.email = task[r].email
    BY <1>1, TaskType DEF Tasks
  <2>2. task' = [task EXCEPT ![r] = new]
    BY <1>3 DEF Typed, TypeOK
  <2> HIDE DEF new
  <2>3. Has(new, account') /\ Quiet(task[r], new)
    BY <1>1, <2>1 DEF Has, Quiet
  <2> QED BY <2>1, <2>2, <2>3 DEF FindName, Quietly, Moves
<1> QED BY <1>2, <1>3 DEF FindName

LEMMA InsertStep ==
  ASSUME Typed, NEW r \in Requests, Insert(r)
  PROVE  Quietly(r)
<1>1. CASE Finish(r)
  BY <1>1, IdlesQuietly DEF Insert, At
<1>2. ASSUME NEW a \in Accounts, task[r].state # None,
             task' = [task EXCEPT ![r].pc = "session", ![r].row = a]
      PROVE  Quietly(r)
  <2>1. task[r].pc = "insert" /\ task[r].state \in States
    BY <1>2, TaskType DEF Insert, At, Tasks
  <2> QED BY <1>2, <2>1, ToSession DEF Insert
<1> QED BY <1>1, <1>2 DEF Insert

LEMMA ReadUserStep ==
  ASSUME Typed, NEW r \in Requests, ReadUser(r)
  PROVE  Quietly(r)
<1>1. Has(task[r], account) /\ task[r].pc = "read" /\ task[r].state = None
  BY TaskType DEF ReadUser, At, Has
<1>2. CASE Finish(r)
  BY <1>1, <1>2, IdlesQuietly DEF ReadUser, At
<1>3. CASE ~Finish(r)
  <2> DEFINE a == task[r].row
             renames == "name" \in task[r].sets /\ account[a].name # NameOf(r)
             remails == "email" \in task[r].sets /\ account[a].email # task[r].email
             step == IF remails THEN "email_free" ELSE IF renames THEN "name_free" ELSE "write"
             new == [task[r] EXCEPT !.renames = renames, !.pc = step]
  <2>1. step \in {"email_free", "name_free", "write"} /\ step \in Steps
    BY StepNames
  <2>2. renames \in BOOLEAN
    OBVIOUS
  <2>3. /\ new \in Tasks /\ new.pc = step /\ new.state = None /\ new.row = task[r].row
        /\ new.google = task[r].google /\ new.base = task[r].base
        /\ new.email = task[r].email
    <3> HIDE DEF step, renames
    <3> QED BY <1>1, <2>1, <2>2, TaskType DEF Tasks
  <2>4. task' = [task EXCEPT ![r] = new]
    BY <1>3 DEF ReadUser, Typed, TypeOK
  <2> HIDE DEF new, step, renames
  <2>5. Has(new, account') /\ Quiet(task[r], new)
    BY <1>1, <2>1, <2>3, OAuthConstants DEF Has, Quiet, ReadUser, Callback
  <2> QED BY <2>3, <2>4, <2>5 DEF ReadUser, Quietly, Moves
<1> QED BY <1>2, <1>3

LEMMA CheckSteps ==
  ASSUME Typed, NEW r \in Requests, CheckEmail(r) \/ CheckName(r)
  PROVE  Quietly(r)
<1>1. /\ Has(task[r], account) /\ task[r].pc \in {"email_free", "name_free"}
      /\ UNCHANGED <<account, states, signIns, shared>>
  BY TaskType DEF CheckEmail, CheckName, At
<1>2. CASE Finish(r)
  BY <1>1, <1>2, IdlesQuietly DEF At
<1>3. ASSUME NEW step \in {"name_free", "write", "insert"}, Goto(r, step),
             step = "write" => task[r].row # None
      PROVE  Quietly(r)
  <2> DEFINE new == [task[r] EXCEPT !.pc = step]
  <2>1. /\ new.pc = step /\ new.state = task[r].state /\ new.google = task[r].google
        /\ new.base = task[r].base /\ new.email = task[r].email /\ new.row = task[r].row
    BY TaskType DEF Tasks
  <2> HIDE DEF new
  <2>2. Has(new, account')
    BY <1>1, <1>3, <2>1 DEF Has, Callback
  <2> QED BY <1>1, <1>3, <2>2, StepNames, GoesQuietly DEF new
<1>4. CASE CheckEmail(r)
  BY <1>2, <1>3, <1>4, TaskType DEF CheckEmail, GoOrFinish, At, Has
<1>5. CASE CheckName(r)
  BY <1>2, <1>3, <1>5 DEF CheckName, GoOrFinish
<1> QED BY <1>4, <1>5

\* All the steps but those that read a state, use it and delete it.
LEMMA QuietSteps ==
  ASSUME Typed, NEW r \in Requests, Step(r)
  PROVE  Quietly(r) \/ GetOauthState(r) \/ CreateSession(r) \/ DeleteState(r)
<1>1. WriteUser(r) => Quietly(r)
  BY IdlesQuietly DEF WriteUser, At
<1> QED BY <1>1, ExchangeStep, FindByIdStep, FindByEmailStep, LinkStep, FindNameStep,
           InsertStep, ReadUserStep, CheckSteps DEF Step

\* A callback reads its state: it is there, or the callback ends.
LEMMA GetOauthStateStep ==
  ASSUME Typed, NEW r \in Requests, GetOauthState(r)
  PROVE  /\ task[r].pc = "state" /\ task[r].state \in States
         /\ \/ Moves(r, NoTask) /\ UNCHANGED shared
            \/ /\ states[task[r].state] = "kept"
               /\ \E new : /\ Moves(r, new)
                          /\ new.pc = "exchange" /\ new.state = task[r].state
<1>1. /\ Has(task[r], account) /\ task[r].pc = "state" /\ task[r].state \in States
  BY TaskType DEF GetOauthState, At, Has, Callback
<1>2. CASE states[task[r].state] = "kept"
  <2> DEFINE new == [task[r] EXCEPT !.pc = "exchange"]
  <2>1. new \in Tasks /\ new.pc = "exchange" /\ new.state = task[r].state
    BY TaskType, StepNames DEF Tasks, Callback
  <2>2. task' = [task EXCEPT ![r] = new]
    BY <1>2 DEF GetOauthState, GoOrFinish, Goto, Typed, TypeOK
  <2> HIDE DEF new
  <2>3. Has(new, account')
    BY <1>1, <2>1 DEF Has
  <2> QED BY <1>1, <1>2, <2>1, <2>2, <2>3 DEF Moves
<1>3. CASE states[task[r].state] # "kept"
  BY <1>1, <1>3, Idles DEF GetOauthState, GoOrFinish
<1> QED BY <1>1, <1>2, <1>3

LEMMA CreateSessionStep ==
  ASSUME Typed, NEW r \in Requests, CreateSession(r)
  PROVE  /\ task[r].pc = "session" /\ task[r].state \in States
         /\ \E new : Moves(r, new) /\ new.pc = "forget" /\ new.state = task[r].state
<1>1. Has(task[r], account) /\ task[r].pc = "session" /\ task[r].state \in States
  BY TaskType DEF CreateSession, At, Has, Callback
<1> DEFINE new == [task[r] EXCEPT !.pc = "forget"]
<1>2. new \in Tasks /\ new.pc = "forget" /\ new.state = task[r].state /\ new.base = task[r].base
  BY TaskType, StepNames DEF Tasks, Callback
<1>3. task' = [task EXCEPT ![r] = new]
  BY DEF CreateSession, Goto, Typed, TypeOK
<1> HIDE DEF new
<1>4. Has(new, account')
  BY <1>1, <1>2 DEF Has
<1> QED BY <1>1, <1>2, <1>3, <1>4 DEF Moves

LEMMA DeleteStateStep ==
  ASSUME Typed, NEW r \in Requests, DeleteState(r)
  PROVE  task[r].pc = "forget" /\ task[r].state \in States /\ Moves(r, NoTask)
BY TaskType, Idles DEF DeleteState, At, Has, Callback

LEMMA FailStep ==
  ASSUME Typed, NEW r \in Requests, Fail(r)
  PROVE  (task[r].pc = "forget" => task[r].state \in States) /\ Moves(r, NoTask)
BY TaskType, Idles DEF Fail, At, Has, Callback

\* The steps that leave the requests in flight alone.
Others ==
  /\ UNCHANGED <<task, signIns, shared>>
  /\ \/ UNCHANGED states
     \/ \E s \in States : OauthGoogleLogin(s) \/ ExpireState(s)

\* What a step is, seen from the states.
LEMMA StepKinds ==
  ASSUME Typed, [Next]_vars
  PROVE  \/ Others
         \/ \E r \in Requests : \/ Quietly(r) \/ GetOauthState(r) \/ CreateSession(r)
                               \/ DeleteState(r) \/ Fail(r)
<1>1. CASE UNCHANGED vars
  BY <1>1 DEF vars, Others
<1>2. ASSUME NEW s \in States, OauthGoogleLogin(s) \/ ExpireState(s) PROVE Others
  BY <1>2 DEF OauthGoogleLogin, ExpireState, Others
<1>3. ASSUME NEW a \in Accounts, Delete(a) \/ AnonymizeUser(a) PROVE Others
  BY <1>3 DEF Delete, AnonymizeUser, Administer, Others
<1> QED BY <1>1, <1>2, <1>3, BeginSteps, QuietSteps DEF Next

LEMMA TasksMove ==
  ASSUME Typed, [Next]_vars
  PROVE  UNCHANGED task \/ \E r \in Requests : \E new : Moves(r, new)
BY StepKinds, GetOauthStateStep, CreateSessionStep, DeleteStateStep, FailStep
   DEF Others, Quietly

\* What a request has, it keeps when another moves.
LEMMA TasksTyped ==
  ASSUME Typed, [Next]_vars
  PROVE  /\ task' \in [Requests -> Tasks]
         /\ \A r \in Requests : Has(task'[r], account')
<1>1. \A r \in Requests : Has(task[r], account')
  <2> SUFFICES ASSUME NEW r \in Requests PROVE Has(task[r], account')
    OBVIOUS
  <2>1. Has(task[r], account) /\ task[r].row \in Accounts \cup {None}
    BY TaskType DEF Tasks
  <2>2. task[r].row # None /\ account[task[r].row] # None => account'[task[r].row] # None
    BY <2>1, RowsStay
  <2> QED BY <2>1, <2>2 DEF Has
<1>2. task \in [Requests -> Tasks]
  BY DEF Typed, TypeOK
<1>3. ASSUME NEW r \in Requests, NEW new, Moves(r, new)
      PROVE  /\ task' \in [Requests -> Tasks]
             /\ \A q \in Requests : Has(task'[q], account')
  BY <1>1, <1>2, <1>3 DEF Moves
<1> QED BY <1>1, <1>2, <1>3, TasksMove

\* The states, the counters of sign-ins and the shared states.
LEMMA StatesTyped ==
  ASSUME Typed, [Next]_vars
  PROVE  /\ states' \in [States -> {"new", "kept", "gone"}]
         /\ signIns' \in [States -> Nat]
         /\ shared' \subseteq States
<1>0. /\ states \in [States -> {"new", "kept", "gone"}]
      /\ signIns \in [States -> Nat] /\ shared \subseteq States
  BY DEF Typed, TypeOK
<1>1. CASE Others
  BY <1>0, <1>1 DEF Others, OauthGoogleLogin, ExpireState
<1>2. ASSUME NEW r \in Requests, Quietly(r)
      PROVE  UNCHANGED <<states, signIns, shared>>
  BY <1>0, <1>2 DEF Quietly
<1>3. ASSUME NEW r \in Requests, GetOauthState(r)
      PROVE  UNCHANGED <<states, signIns>> /\ shared' \subseteq States
  BY <1>0, <1>3, GetOauthStateStep DEF GetOauthState
<1>4. ASSUME NEW r \in Requests, CreateSession(r)
      PROVE  UNCHANGED <<states, shared>> /\ signIns' \in [States -> Nat]
  <2>1. signIns \in [States -> Nat] /\ task[r].state \in States
    BY <1>0, <1>4, CreateSessionStep
  <2> QED BY <1>4, <2>1 DEF CreateSession
<1>5. ASSUME NEW r \in Requests, DeleteState(r)
      PROVE  UNCHANGED <<signIns, shared>> /\ states' \in [States -> {"new", "kept", "gone"}]
  BY <1>0, <1>5, DeleteStateStep DEF DeleteState
<1>6. ASSUME NEW r \in Requests, Fail(r)
      PROVE  UNCHANGED <<states, signIns>> /\ shared' \subseteq States
  BY <1>0, <1>6, FailStep DEF Fail, At
<1> QED BY <1>0, <1>1, <1>2, <1>3, <1>4, <1>5, <1>6, StepKinds

\* Where the accounts that people were given are written.
LEMMA HomeSteps ==
  ASSUME Typed, [Next]_vars
  PROVE  \/ UNCHANGED home
         \/ \E r \in Requests : FindById(r) \/ Link(r) \/ Insert(r)
<1>1. CASE UNCHANGED vars
  BY <1>1 DEF vars
<1>2. ASSUME NEW r \in Requests, Step(r)
      PROVE  UNCHANGED home \/ FindById(r) \/ Link(r) \/ Insert(r)
  BY <1>2 DEF Step, GetOauthState, Exchange, FindByEmail, FindName, CreateSession,
              DeleteState, ReadUser, CheckEmail, CheckName, WriteUser
<1>3. ASSUME NEW r \in Requests, NEW s, OauthGoogleCallback(r, s) PROVE UNCHANGED home
  BY <1>3 DEF OauthGoogleCallback, Begin
<1>4. ASSUME NEW r \in Requests, NEW new, Register(r, new) PROVE UNCHANGED home
  BY <1>4 DEF Register, Begin
<1>5. ASSUME NEW r \in Requests, NEW a, NEW new, Update(r, a, new) PROVE UNCHANGED home
  BY <1>5 DEF Update, Begin
<1>6. ASSUME NEW r \in Requests, Fail(r) PROVE UNCHANGED home
  BY <1>6 DEF Fail
<1>7. ASSUME NEW s, OauthGoogleLogin(s) \/ ExpireState(s) PROVE UNCHANGED home
  BY <1>7 DEF OauthGoogleLogin, ExpireState
<1>8. ASSUME NEW a, Delete(a) \/ AnonymizeUser(a) PROVE UNCHANGED home
  BY <1>8 DEF Delete, AnonymizeUser, Administer
<1> QED BY <1>1, <1>2, <1>3, <1>4, <1>5, <1>6, <1>7, <1>8 DEF Next

\* An identity is in one row, and who was given an account has a row.
GoogleUnique ==
  \A a, b \in Present :
    account[a].google # None /\ account[a].google = account[b].google => a = b
HomeThere == \A i \in Identities : home[i] # None => account[home[i]] # None

Homed == Typed /\ GoogleUnique /\ HomeThere

\* What the three of them give: an account that is there after the step, and no other
\* row has the identity before it.
LEMMA Homes ==
  ASSUME Typed, GoogleUnique, NEW r \in Requests, FindById(r) \/ Link(r) \/ Insert(r)
  PROVE  \/ UNCHANGED home
         \/ /\ task[r].google \in Identities
            /\ \E a \in Accounts :
                 /\ Given(r, a) /\ account'[a] # None
                 /\ \A b \in Present \ {a} : account[b].google # task[r].google
<1>1. CASE FindById(r)
  <2>1. task[r].google \in Identities
    BY <1>1, TaskType DEF FindById, At, Has
  <2>2. ASSUME NEW a \in Present, account[a].google = task[r].google, Given(r, a)
        PROVE  /\ a \in Accounts /\ account'[a] # None
               /\ \A b \in Present \ {a} : account[b].google # task[r].google
    BY <1>1, <2>1, <2>2, OAuthConstants DEF FindById, Present, GoogleUnique
  <2> QED BY <1>1, <2>1, <2>2 DEF FindById
<1>2. CASE Link(r) /\ home' # home
  <2> DEFINE a == task[r].row
  <2>1. /\ task[r].google \in Identities /\ a \in Accounts /\ account[a] \in Rows
    BY <1>2, TaskType, RowType DEF Link, At, Has, Tasks, Present
  <2>2. /\ GoogleFree(task[r].google, a) /\ Given(r, a)
        /\ account' = [account EXCEPT ![a].google = task[r].google]
    BY <1>2 DEF Link
  <2>3. account'[a] \in Rows
    BY <2>1, <2>2 DEF Typed, TypeOK, Rows
  <2>4. \A b \in Present \ {a} : account[b].google # task[r].google
    BY <2>1, <2>2, OAuthConstants DEF GoogleFree
  <2> QED BY <2>1, <2>2, <2>3, <2>4, NoRow
<1>3. CASE Insert(r) /\ home' # home
  <2>1. /\ GoogleFree(task[r].google, None) /\ task[r].state # None
        /\ \E a \in Accounts \ Present :
             Given(r, a) /\ account' = [account EXCEPT ![a] = Row(r)]
    BY <1>3 DEF Insert
  <2>2. task[r].email \in Emails /\ task[r].base \in Bases /\ task[r].google \in Identities
    BY <1>3, <2>1, TaskType DEF Insert, At, Has
  <2>3. NameOf(r) \in Names
    BY <2>2, NameTypes
  <2>4. Row(r) \in Rows
    BY <2>2, <2>3 DEF Row, Rows
  <2>5. \A b \in Present : account[b].google # task[r].google
    BY <2>1, <2>2, OAuthConstants, RowType DEF GoogleFree
  <2>6. account \in [Accounts -> Rows \cup {None}]
    BY DEF Typed, TypeOK
  <2> QED BY <2>1, <2>2, <2>4, <2>5, <2>6, NoRow
<1> QED BY <1>1, <1>2, <1>3

LEMMA HomeTyped ==
  ASSUME Homed, [Next]_vars
  PROVE  home' \in [Identities -> Accounts \cup {None}] /\ HomeThere'
<1>1. /\ home \in [Identities -> Accounts \cup {None}]
      /\ \A a \in Accounts : account[a] # None => account'[a] # None
  BY RowsStay DEF Homed, Typed, TypeOK
<1>2. \A i \in Identities : home[i] # None => account'[home[i]] # None
  BY <1>1 DEF Homed, HomeThere
<1>3. CASE UNCHANGED home
  BY <1>1, <1>2, <1>3 DEF HomeThere
<1>4. ASSUME NEW r \in Requests, FindById(r) \/ Link(r) \/ Insert(r), home' # home
      PROVE  home' \in [Identities -> Accounts \cup {None}] /\ HomeThere'
  <2> PICK a \in Accounts : Given(r, a) /\ account'[a] # None
    BY <1>4, Homes DEF Homed
  <2>1. home' = [home EXCEPT ![task[r].google] = a]
    BY DEF Given
  <2>2. HomeThere'
    BY <1>1, <1>2, <2>1 DEF HomeThere
  <2> QED BY <1>1, <2>1, <2>2
<1> QED BY <1>3, <1>4, HomeSteps DEF Homed

\* The index over google_id.
LEMMA GoogleStaysUnique ==
  ASSUME Homed, [Next]_vars
  PROVE  GoogleUnique'
<1>1. CASE UNCHANGED account
  BY <1>1 DEF Homed, GoogleUnique, Present
<1>2. ASSUME NEW a \in Accounts, NEW row \in Rows, Writes(a, row)
      PROVE  GoogleUnique'
  <2>1. account \in [Accounts -> Rows \cup {None}] /\ account' = [account EXCEPT ![a] = row]
    BY <1>2 DEF Homed, Typed, TypeOK, Writes
  <2>2. account'[a] = row /\ \A b \in Accounts \ {a} : account'[b] = account[b]
    BY <2>1
  <2>3. \A b \in Present' \ {a} : b \in Present /\ account'[b] = account[b]
    BY <2>2 DEF Present
  <2>4. ASSUME row.google # None
        PROVE  \A b \in Present \ {a} : account[b].google # row.google
    BY <1>2, <2>4 DEF Writes, GoogleFree, Homed, GoogleUnique
  <2> QED BY <2>2, <2>3, <2>4 DEF GoogleUnique, Homed
<1> QED BY <1>1, <1>2, AccountSteps DEF Homed, RowStep

LEMMA SpentTyped ==
  ASSUME Typed, [Next]_vars
  PROVE  spent' \in [requests : Nat, faults : Nat]
<1> USE DEF Typed, TypeOK
<1>1. CASE UNCHANGED vars
  BY <1>1 DEF vars
<1>2. ASSUME NEW r \in Requests, Step(r) PROVE UNCHANGED spent
  BY <1>2 DEF Step, GetOauthState, Exchange, FindById, FindByEmail, Link, FindName, Insert,
              CreateSession, DeleteState, ReadUser, CheckEmail, CheckName, WriteUser
<1>3. ASSUME NEW r \in Requests, NEW new, Begin(r, new)
      PROVE  spent' \in [requests : Nat, faults : Nat]
  BY <1>3 DEF Begin
<1>4. ASSUME NEW r \in Requests, Fail(r) PROVE spent' \in [requests : Nat, faults : Nat]
  BY <1>4 DEF Fail
<1>5. ASSUME NEW s, OauthGoogleLogin(s) \/ ExpireState(s) PROVE UNCHANGED spent
  BY <1>5 DEF OauthGoogleLogin, ExpireState
<1>6. ASSUME NEW a, Delete(a) \/ AnonymizeUser(a) PROVE UNCHANGED spent
  BY <1>6 DEF Delete, AnonymizeUser, Administer
<1>7. ASSUME NEW r \in Requests, NEW s, OauthGoogleCallback(r, s)
      PROVE  spent' \in [requests : Nat, faults : Nat]
  BY <1>3, <1>7 DEF OauthGoogleCallback
<1>8. ASSUME NEW r \in Requests, NEW new, Register(r, new)
      PROVE  spent' \in [requests : Nat, faults : Nat]
  BY <1>3, <1>8 DEF Register
<1>9. ASSUME NEW r \in Requests, NEW a, NEW new, Update(r, a, new)
      PROVE  spent' \in [requests : Nat, faults : Nat]
  BY <1>3, <1>9 DEF Update
<1> HIDE DEF Typed, TypeOK
<1>10. spent \in [requests : Nat, faults : Nat]
  BY DEF Typed, TypeOK
<1> QED BY <1>1, <1>2, <1>4, <1>5, <1>6, <1>7, <1>8, <1>9, <1>10 DEF Next

LEMMA InitHomed == Init => Homed
<1> SUFFICES ASSUME Init PROVE Homed
  OBVIOUS
<1>1. TypeOK
  BY OAuthConstants DEF Init, TypeOK, NoTask, Tasks, Steps
<1>2. \A r \in Requests : Has(task[r], account)
  BY DEF Init, Has, NoTask, Callback
<1>3. GoogleUnique /\ HomeThere
  BY DEF Init, GoogleUnique, HomeThere, Present
<1> QED BY <1>1, <1>2, <1>3 DEF Homed, Typed

LEMMA NextHomed ==
  ASSUME Homed, [Next]_vars
  PROVE  Homed'
<1>1. Typed
  BY DEF Homed
<1>2. TypeOK'
  BY <1>1, RowsStay, TasksTyped, StatesTyped, HomeTyped, SpentTyped DEF TypeOK
<1>3. \A r \in Requests : Has(task'[r], account')
  BY <1>1, TasksTyped
<1>4. Typed'
  BY <1>2, <1>3 DEF Typed
<1> QED BY <1>4, HomeTyped, GoogleStaysUnique DEF Homed

\* The requests in flight have what their steps need, every row its columns: no row is
\* found, linked or written that is not there.
THEOREM RequestsAreTyped == Spec => []TypeOK
<1>1. Homed => TypeOK
  BY DEF Homed, Typed
<1> QED BY <1>1, InitHomed, NextHomed, PTL DEF Spec

\* Who signs in again with an identity gets the account of the last time
\* (get_or_create_user) unless that account's google_id was overwritten since: the row
\* that has the identity is the only one, whoever wrote it there (a sign-in, a
\* registration, an update), the index over google_id and not the lookup says so.
THEOREM IdentitiesKeepAccounts == Spec => AnIdentityKeepsItsAccount
<1>1. ASSUME Homed, [Next]_vars
      PROVE  [\A i \in Identities :
                home[i] # None /\ home[i]' # home[i] => account[home[i]].google # i]_vars
  <2> SUFFICES ASSUME NEW i \in Identities, home[i] # None, home[i]' # home[i]
               PROVE  account[home[i]].google # i
    OBVIOUS
  <2>1. /\ home \in [Identities -> Accounts \cup {None}] /\ home[i] \in Present
    BY <1>1 DEF Homed, Typed, TypeOK, HomeThere, Present
  <2>2. PICK r \in Requests : FindById(r) \/ Link(r) \/ Insert(r)
    BY <1>1, HomeSteps DEF Homed
  <2>3. /\ task[r].google \in Identities
        /\ \E a \in Accounts :
             /\ Given(r, a) /\ account'[a] # None
             /\ \A b \in Present \ {a} : account[b].google # task[r].google
    BY <1>1, <2>2, Homes DEF Homed
  <2>4. PICK a \in Accounts :
          /\ home' = [home EXCEPT ![task[r].google] = a]
          /\ \A b \in Present \ {a} : account[b].google # task[r].google
    BY <2>3 DEF Given
  <2>5. i = task[r].google /\ home'[i] = a
    BY <2>1, <2>3, <2>4
  <2> QED BY <2>1, <2>4, <2>5
<1> QED BY <1>1, InitHomed, NextHomed, PTL DEF Spec, AnIdentityKeepsItsAccount

------------------------------------------------------------------------
(* A state signs in once.                                                 *)

\* The callback of r has read the state s and is not through.
Active(r, s) == task[r].state = s /\ task[r].pc \notin {"idle", "state"}

\* Of a state that is not shared, there is one callback at most that has read it; it has
\* signed in when it is about to delete the state, and not before; and once somebody has
\* signed in, the state is gone or that one is about to delete it.
Once(s) ==
  /\ \A q, r \in Requests : Active(q, s) /\ Active(r, s) => q = r
  /\ \A r \in Requests : Active(r, s) =>
       signIns[s] = (IF task[r].pc = "forget" THEN 1 ELSE 0)
  /\ signIns[s] \in {0, 1}
  /\ signIns[s] = 1 /\ states[s] # "gone" =>
       \E r \in Requests : Active(r, s) /\ task[r].pc = "forget"

StatesAreSpent == Homed /\ \A s \in States \ shared : Once(s)

\* Of a request after its step, and of the others.
LEMMA Moved ==
  ASSUME Typed, NEW r \in Requests, NEW new, Moves(r, new)
  PROVE  /\ task'[r] = new
         /\ \A q \in Requests \ {r} : task'[q] = task[q]
BY DEF Typed, TypeOK, Moves

LEMMA OthersOnce ==
  ASSUME Typed, Others, NEW s \in States, Once(s)
  PROVE  Once(s)'
<1>1. /\ UNCHANGED <<task, signIns>>
      /\ states[s] = "gone" => states'[s] = "gone"
  BY DEF Others, OauthGoogleLogin, ExpireState, Generated, Typed, TypeOK
<1> QED BY <1>1 DEF Once, Active

LEMMA QuietOnce ==
  ASSUME Typed, NEW r \in Requests, Quietly(r), NEW s \in States, Once(s)
  PROVE  Once(s)'
<1> PICK new : Moves(r, new) /\ Quiet(task[r], new)
  BY DEF Quietly
<1>1. /\ task'[r] = new /\ task[r].pc # "forget"
      /\ \A q \in Requests \ {r} : task'[q] = task[q]
      /\ UNCHANGED <<states, signIns>>
  BY Moved DEF Quiet, Quietly
<1>2. \A q \in Requests : Active(q, s)' => Active(q, s)
  BY <1>1 DEF Active, Quiet
<1>3. Active(r, s)' => task'[r].pc # "forget"
  BY <1>1 DEF Active, Quiet
<1>4. \A q \in Requests : Active(q, s) /\ task[q].pc = "forget" =>
        Active(q, s)' /\ task'[q].pc = "forget"
  BY <1>1 DEF Active
<1>5. \A q \in Requests : Active(q, s)' =>
        signIns'[s] = (IF task'[q].pc = "forget" THEN 1 ELSE 0)
  BY <1>1, <1>2, <1>3 DEF Once
<1> QED BY <1>1, <1>2, <1>4, <1>5 DEF Once

LEMMA GetOauthStateOnce ==
  ASSUME Typed, NEW r \in Requests, GetOauthState(r), NEW s \in States \ shared', Once(s)
  PROVE  Once(s)'
<1>1. UNCHANGED <<states, signIns>> /\ task[r].pc = "state" /\ task[r].state \in States
  BY GetOauthStateStep DEF GetOauthState
<1>2. CASE Moves(r, NoTask)
  BY <1>1, <1>2, Moved DEF Once, Active, NoTask
<1>3. ASSUME states[task[r].state] = "kept",
             NEW new, Moves(r, new), new.pc = "exchange", new.state = task[r].state
      PROVE  Once(s)'
  <2>1. task'[r] = new /\ \A q \in Requests \ {r} : task'[q] = task[q]
    BY <1>3, Moved
  <2>2. CASE s # task[r].state
    BY <1>1, <1>3, <2>1, <2>2 DEF Once, Active
  <2>3. CASE s = task[r].state
    <3>1. ~ReadByOthers(r)
      BY <1>3, <2>3 DEF GetOauthState
    <3>2. \A q \in Requests : ~Active(q, s)
      BY <1>1, <2>3, <3>1 DEF ReadByOthers, Active
    <3>3. signIns[s] = 0
      BY <1>3, <2>3, <3>2 DEF Once
    <3>4. \A q \in Requests : Active(q, s)' => q = r /\ task'[q].pc = "exchange"
      BY <1>3, <2>1, <3>2 DEF Active
    <3> QED BY <1>1, <3>3, <3>4 DEF Once
  <2> QED BY <2>2, <2>3
<1> QED BY <1>2, <1>3, GetOauthStateStep

LEMMA CreateSessionOnce ==
  ASSUME Typed, NEW r \in Requests, CreateSession(r), NEW s \in States, Once(s)
  PROVE  Once(s)'
<1>1. /\ task[r].pc = "session" /\ task[r].state \in States
      /\ signIns \in [States -> Nat] /\ UNCHANGED states
      /\ signIns' = [signIns EXCEPT ![task[r].state] = @ + 1]
  BY CreateSessionStep DEF CreateSession, Typed, TypeOK
<1> PICK new : Moves(r, new) /\ new.pc = "forget" /\ new.state = task[r].state
  BY CreateSessionStep
<1>2. task'[r] = new /\ \A q \in Requests \ {r} : task'[q] = task[q]
  BY Moved
<1>3. CASE s # task[r].state
  BY <1>1, <1>2, <1>3 DEF Once, Active
<1>4. CASE s = task[r].state
  <2>1. Active(r, s) /\ signIns[s] = 0 /\ signIns'[s] = 1
    BY <1>1, <1>4 DEF Once, Active
  <2>2. \A q \in Requests : Active(q, s)' <=> q = r
    BY <1>2, <1>4, <2>1 DEF Once, Active
  <2> QED BY <1>2, <2>1, <2>2 DEF Once
<1> QED BY <1>3, <1>4

LEMMA EndOnce ==
  ASSUME Typed, NEW r \in Requests, DeleteState(r) \/ Fail(r),
         NEW s \in States \ shared', Once(s)
  PROVE  Once(s)'
<1>1. task'[r] = NoTask /\ \A q \in Requests \ {r} : task'[q] = task[q]
  BY DeleteStateStep, FailStep, Moved
<1>2. UNCHANGED signIns /\ (states[s] = "gone" => states'[s] = "gone")
  BY DEF DeleteState, Fail, Typed, TypeOK
<1>3. \A q \in Requests : Active(q, s)' => q # r /\ Active(q, s) /\ task'[q] = task[q]
  BY <1>1 DEF Active, NoTask
<1>4. Active(r, s) /\ task[r].pc = "forget" => states'[s] = "gone"
  BY DEF DeleteState, Fail, At, Active, Typed, TypeOK
<1>5. \A q \in Requests \ {r} : Active(q, s) => Active(q, s)' /\ task'[q] = task[q]
  BY <1>1 DEF Active
<1> QED BY <1>2, <1>3, <1>4, <1>5 DEF Once

LEMMA NextSpent ==
  ASSUME StatesAreSpent, [Next]_vars
  PROVE  StatesAreSpent'
<1>1. Typed /\ Homed
  BY DEF StatesAreSpent, Homed
<1>2. shared \subseteq shared'
  <2>1. ASSUME NEW r \in Requests, GetOauthState(r) \/ Fail(r) PROVE shared \subseteq shared'
    BY <2>1 DEF GetOauthState, Fail
  <2> QED BY <1>1, <2>1, StepKinds DEF Others, Quietly, CreateSession, DeleteState
<1>3. ASSUME NEW s \in States \ shared' PROVE Once(s)'
  <2>1. Once(s)
    BY <1>2, <1>3 DEF StatesAreSpent
  <2> QED BY <1>1, <1>3, <2>1, StepKinds, OthersOnce, QuietOnce, GetOauthStateOnce,
             CreateSessionOnce, EndOnce
<1> QED BY <1>1, <1>3, NextHomed DEF StatesAreSpent

\* A state signs in once (delete_oauth_state comes after the session), unless a second
\* callback had read it or its deletion failed: whatever else the two requests do
\* between the reading and the deletion, and however often the client comes back.
THEOREM StatesSignInOnce == Spec => []AStateSignsInOnce
<1>1. Init => StatesAreSpent
  BY InitHomed DEF Init, StatesAreSpent, Once, Active, NoTask
<1>2. StatesAreSpent => AStateSignsInOnce
  BY DEF StatesAreSpent, Once, AStateSignsInOnce
<1> QED BY <1>1, <1>2, NextSpent, PTL DEF Spec
====
