---- MODULE ApiRequestsProofs ----
(***************************************************************************)
(* Proofs about ApiRequests, for any set of users, keys, rubrics, tenants  *)
(* and connections, and any number of requests and failures at once.       *)
(***************************************************************************)
EXTENDS ApiRequests, TLAPS

------------------------------------------------------------------------
(* The invariant.                                                         *)

Loaded == {"context", "look", "read", "fill", "insert", "find", "existing", "reply"}
Unread == {"match", "permit", "load"}
InTransaction == {"look", "read", "fill", "insert", "reply"}
Renaming == {"update_user", "register"}
OnUser == {"update_user", "delete_user", "anonymize"}

\* What a request has in its variables when it reaches a step.
Ready(x) ==
  /\ x.key # None => x.route \in DOMAIN Needed
  /\ x.pc \in {"match", "permit"} => x.key # None
  /\ x.pc \in Unread => x.target = None
  /\ x.target # None => x.who # None
  /\ x.pc \in {"permit", "load"} => x.user # None
  /\ x.pc = "load" => x.route \in DOMAIN Needed \cup SessionRoutes
  /\ x.pc \in Loaded => x.who # None
  /\ x.pc = "context" => x.route \in DOMAIN Needed
  /\ x.conn # None <=> x.pc \in InTransaction
  /\ x.conn # None => x.route \in DOMAIN Needed
  /\ x.pc \in {"read", "fill", "reply"} => x.rubric # None
  /\ x.pc = "find" => x.route \in OnUser
  /\ x.pc = "existing" => x.route = "update_user" /\ x.target # None
  /\ x.pc = "taken" => x.route \in Renaming
  /\ x.pc \in {"taken", "write"} =>
       /\ x.route # "register" => x.who # None
       /\ x.route \in Renaming => x.name # None
       /\ x.route \in OnUser => x.target # None

\* Users that are relied on are in the table.
OwnersExist == \A k \in KeyIds : apiKey[k] # None => account[apiKey[k].user] # None
UsersExist ==
  \A t \in Threads :
    /\ task[t].who # None => account[task[t].who.id] # None
    /\ task[t].target # None => account[task[t].target] # None

\* A request whose key has never been usable is about to be refused: by the
\* permissions or, later, by the owner.
Refusable(t) ==
  LET x == task[t] IN
    /\ apiKey[x.key] # None /\ x.user = apiKey[x.key].user
    /\ \/ t \in seen.usable
       \/ /\ x.who = None
          /\ \/ x.pc = "permit" /\ ~HasPermission(x.key, Needed[x.route])
             \/ x.pc \in {"permit", "load"} /\ ~Live(x.user)

KeysAreRead ==
  \A t \in Threads : task[t].key # None =>
    (task[t].pc = "match" /\ task[t].who = None) \/ Refusable(t)

TasksOK == task \in [Threads -> Tasks] /\ \A t \in Threads : Ready(task[t])
SpentOK == spent \in [requests : Nat, faults : Nat]
\* All but the history.
Body == TableTypes /\ DataTypes /\ TasksOK /\ SpentOK
SeenOK == seen \in [usable : SUBSET Threads, renamed : SUBSET Threads]

IInv == Body /\ SeenOK /\ OwnersExist /\ UsersExist /\ KeysAreRead

------------------------------------------------------------------------
(* Types.                                                                 *)

\* A step of one request leaves the others as they are.
LEMMA OneTask ==
  ASSUME TasksOK, NEW t \in Threads, NEW new \in Tasks, Ready(new),
         task' = [task EXCEPT ![t] = new]
  PROVE  /\ TasksOK' /\ task'[t] = new
         /\ \A u \in Threads : u # t => task'[u] = task[u]
BY DEF TasksOK

LEMMA NoTaskType == NoTask \in Tasks /\ Ready(NoTask)
BY DEF NoTask, Tasks, Steps, Ready, Loaded, InTransaction, Unread

LEMMA FinishType ==
  ASSUME TasksOK, setting \in [Connections -> Settings], NEW t \in Threads, Finish(t)
  PROVE  /\ TasksOK' /\ task'[t] = NoTask
         /\ \A u \in Threads : u # t => task'[u] = task[u]
         /\ setting' \in [Connections -> Settings]
<1>1. TasksOK' /\ task'[t] = NoTask /\ \A u \in Threads : u # t => task'[u] = task[u]
  BY OneTask, NoTaskType DEF Finish
<1>2. Unset \in Settings
  BY DEF Unset, Settings
<1> QED BY <1>1, <1>2 DEF Finish, EndTransaction

\* The members of a request.
LEMMA Members ==
  ASSUME NEW x \in Tasks
  PROVE  /\ x.key \in KeyIds \cup {None} /\ x.user \in Accounts \cup {None}
         /\ x.who \in Principals \cup {None} /\ x.conn \in Connections \cup {None}
         /\ x.rubric \in Rubrics \cup {None} /\ x.target \in Accounts \cup {None}
         /\ x.name \in Names \cup {None} /\ x.pc \in Steps
         /\ x.who # None => x.who.id \in Accounts /\ x.who.super \in BOOLEAN
BY DEF Tasks, Principals

LEMMA GotoType ==
  ASSUME TasksOK, NEW t \in Threads, NEW step \in Steps,
         Ready([task[t] EXCEPT !.pc = step]), Goto(t, step)
  PROVE  /\ TasksOK' /\ task'[t] = [task[t] EXCEPT !.pc = step]
         /\ \A u \in Threads : u # t => task'[u] = task[u]
<1> DEFINE new == [task[t] EXCEPT !.pc = step]
<1>1. new \in Tasks
  BY DEF TasksOK, Tasks
<1>2. task' = [task EXCEPT ![t] = new]
  BY DEF Goto, TasksOK
<1> QED BY <1>1, <1>2, OneTask

LEMMA NeededRoutes == DOMAIN Needed = {"read_rubric", "create_rubric"}
BY DEF Needed

\* A request that changes nothing but its own variables, or ends.
LEMMA QuietType ==
  ASSUME Body, NEW t \in Threads, UNCHANGED <<tableVars, municipio, cache, spent>>,
         \/ Finish(t)
         \/ /\ UNCHANGED setting
            /\ \E new \in Tasks : Ready(new) /\ task' = [task EXCEPT ![t] = new]
  PROVE  Body'
<1>1. TableTypes' /\ SpentOK' /\ UNCHANGED <<municipio, cache>>
  BY DEF Body, TableTypes, SpentOK, tableVars, HasPermission
<1>2. TasksOK' /\ setting' \in [Connections -> Settings]
  BY FinishType, OneTask DEF Body, DataTypes
<1> QED BY <1>1, <1>2 DEF Body, DataTypes

LEMMA BeginType ==
  ASSUME Body, NEW t \in Threads, NEW new \in Tasks, Ready(new), Begin(t, new)
  PROVE  Body'
<1>1. TasksOK'
  BY OneTask DEF Begin, Body
<1>2. SpentOK'
  BY DEF Begin, Body, SpentOK
<1> QED BY <1>1, <1>2 DEF Begin, Body, TableTypes, DataTypes, tableVars, dataVars

LEMMA RequestType ==
  ASSUME Body, NEW t \in Threads,
         \/ \E k \in KeyIds, route \in DOMAIN Needed : RequestWithKey(t, k, route)
         \/ \E u \in Accounts, route \in DOMAIN Needed \cup SessionRoutes :
              RequestWithSession(t, u, route)
         \/ \E name \in Names : Register(t, name)
  PROVE  Body'
<1>1. CASE \E k \in KeyIds, route \in DOMAIN Needed : RequestWithKey(t, k, route)
  <2>1. PICK k \in KeyIds, route \in DOMAIN Needed : RequestWithKey(t, k, route)
    BY <1>1
  <2> DEFINE new == [NoTask EXCEPT !.route = route, !.key = k, !.pc = "match"]
  <2>2. new \in Tasks
    BY DEF NoTask, Tasks, Steps
  <2>3. Ready(new)
    BY NoneAssumption DEF NoTask, Ready, Loaded, InTransaction, Unread
  <2> QED BY <2>1, <2>2, <2>3, BeginType DEF RequestWithKey
<1>2. CASE \E u \in Accounts, route \in DOMAIN Needed \cup SessionRoutes :
             RequestWithSession(t, u, route)
  <2>1. PICK u \in Accounts, route \in DOMAIN Needed \cup SessionRoutes :
               RequestWithSession(t, u, route)
    BY <1>2
  <2> DEFINE new == [NoTask EXCEPT !.route = route, !.user = u, !.pc = "load"]
  <2>2. new \in Tasks
    BY DEF NoTask, Tasks, Steps
  <2>3. Ready(new)
    BY NoRowAssumption DEF NoTask, Ready, Loaded, InTransaction, Unread
  <2> QED BY <2>1, <2>2, <2>3, BeginType DEF RequestWithSession
<1>3. CASE \E name \in Names : Register(t, name)
  <2>1. PICK name \in Names : Register(t, name)
    BY <1>3
  <2> DEFINE new == [NoTask EXCEPT !.route = "register", !.name = name, !.pc = "taken"]
  <2>2. new \in Tasks
    BY DEF NoTask, Tasks, Steps
  <2>3. Ready(new)
    BY NoRowAssumption DEF NoTask, Ready, Loaded, InTransaction, Unread, OnUser, Renaming
  <2> QED BY <2>1, <2>2, <2>3, BeginType DEF Register
<1> QED BY <1>1, <1>2, <1>3

LEMMA PrincipalType ==
  ASSUME Body, NEW t \in Threads, MatchKey(t) \/ CheckPermission(t) \/ LoadPrincipal(t)
  PROVE  Body'
<1> DEFINE x == task[t]
<1>0. x \in Tasks /\ Ready(x) /\ task \in [Threads -> Tasks]
  BY DEF Body, TasksOK
<1>1. CASE MatchKey(t)
  <2>1. CASE Matches(x.key)
    <3> DEFINE new == [x EXCEPT !.pc = "permit", !.user = apiKey[x.key].user]
    <3>1. x.key \in KeyIds /\ x.key # None
      BY <1>0, <1>1, Members DEF MatchKey, At, Ready
    <3>2. apiKey[x.key].user \in Accounts
      BY <2>1, <3>1 DEF Matches, Body, TableTypes, Keys
    <3>3. new \in Tasks
      BY <1>0, <3>2 DEF Tasks, Steps
    <3>4. Ready(new)
      <4>1. /\ new.pc = "permit" /\ new.user # None /\ new.who = x.who
            /\ new.route = x.route /\ new.key = x.key /\ new.conn = x.conn
            /\ new.target = x.target
        BY <1>0, <3>2, NoRowAssumption DEF Tasks
      <4> QED BY <1>0, <1>1, <3>1, <4>1 DEF MatchKey, At, Ready, Loaded, InTransaction, Unread
    <3>5. task' = [task EXCEPT ![t] = new] /\ UNCHANGED setting
      BY <1>0, <1>1, <2>1 DEF MatchKey
    <3> QED BY <1>1, <3>3, <3>4, <3>5, QuietType DEF MatchKey
  <2>2. CASE ~Matches(x.key)
    BY <1>1, <2>2, QuietType DEF MatchKey
  <2> QED BY <2>1, <2>2
<1>2. CASE CheckPermission(t)
  <2>1. CASE HasPermission(x.key, Needed[x.route])
    <3> DEFINE new == [x EXCEPT !.pc = "load"]
    <3>1. new \in Tasks
      BY <1>0 DEF Tasks, Steps
    <3>2. Ready(new)
      BY <1>0, <1>2 DEF CheckPermission, At, Ready, Tasks, Loaded, InTransaction, Unread
    <3>3. task' = [task EXCEPT ![t] = new] /\ UNCHANGED setting
      BY <1>0, <1>2, <2>1 DEF CheckPermission, Goto
    <3> QED BY <1>2, <3>1, <3>2, <3>3, QuietType DEF CheckPermission
  <2>2. CASE ~HasPermission(x.key, Needed[x.route])
    BY <1>2, <2>2, QuietType DEF CheckPermission
  <2> QED BY <2>1, <2>2
<1>3. CASE LoadPrincipal(t)
  <2>1. CASE Live(x.user)
    <3> DEFINE who == [id |-> x.user, name |-> account[x.user].name,
                       super |-> account[x.user].super]
               new == [x EXCEPT !.pc = AfterLoad(x.route), !.who = who]
    <3>1. x.user \in Accounts
      BY <1>0, <1>3, Members DEF LoadPrincipal, At, Ready
    <3>2. account[x.user] \in Users
      BY <2>1, <3>1 DEF Live, Body, TableTypes
    <3>3. who \in Principals /\ who # None
      BY <3>1, <3>2, NoneAssumption DEF Users, Principals
    <3>4. new \in Tasks
      <4>1. \A p \in Steps, w \in Principals : [x EXCEPT !.pc = p, !.who = w] \in Tasks
        BY <1>0 DEF Tasks
      <4>2. AfterLoad(x.route) \in Steps
        BY DEF AfterLoad, Steps
      <4> QED BY <4>1, <4>2, <3>3
    <3>5. Ready(new)
      <4>1. x.route \in DOMAIN Needed \cup SessionRoutes
        BY <1>0, <1>3 DEF LoadPrincipal, At, Ready
      <4>2. /\ new.pc = AfterLoad(x.route) /\ new.who # None
            /\ new.route = x.route /\ new.key = x.key /\ new.conn = None
        BY <1>0, <1>3, <3>3 DEF Tasks, LoadPrincipal, At, Ready, InTransaction, Unread
      <4>3. x.key # None => x.route \in DOMAIN Needed
        BY <1>0 DEF Ready
      <4>4. CASE x.route \in DOMAIN Needed
        BY <4>2, <4>3, <4>4 DEF AfterLoad, Ready, InTransaction, Unread, Loaded
      <4>5. CASE x.route \in OnUser
        BY <4>2, <4>3, <4>5, NeededRoutes
        DEF AfterLoad, Ready, InTransaction, Unread, Loaded, OnUser
      <4>6. CASE x.route \in SessionRoutes \ OnUser
        BY <4>2, <4>3, <4>6, NeededRoutes
        DEF AfterLoad, Ready, InTransaction, Unread, Loaded, OnUser, Renaming, SessionRoutes
      <4> QED BY <4>1, <4>4, <4>5, <4>6
    <3>6. task' = [task EXCEPT ![t] = new] /\ UNCHANGED setting
      BY <1>0, <1>3, <2>1 DEF LoadPrincipal
    <3> QED BY <1>3, <3>4, <3>5, <3>6, QuietType DEF LoadPrincipal
  <2>2. CASE ~Live(x.user)
    BY <1>3, <2>2, QuietType DEF LoadPrincipal
  <2> QED BY <2>1, <2>2
<1> QED BY <1>1, <1>2, <1>3

LEMMA TenantType ==
  ASSUME Body, NEW t \in Threads, task[t].who # None
  PROVE  Tenant(t) \in Tenants \cup {Nobody} /\ task[t].who.super \in BOOLEAN
<1>1. task[t] \in Tasks
  BY DEF Body, TasksOK
<1> QED BY <1>1, Members, TenantAssumption DEF Tenant

LEMMA RubricType ==
  ASSUME Body, NEW t \in Threads,
         \/ \E c \in Connections : EnterTenant(t, c)
         \/ \E r \in Rubrics : LookInCache(t, r) \/ CreateRubric(t, r)
         \/ ReadRubric(t) \/ FillAndReply(t) \/ Reply(t)
  PROVE  Body'
<1> DEFINE x == task[t]
<1>0. x \in Tasks /\ Ready(x) /\ task \in [Threads -> Tasks]
  BY DEF Body, TasksOK
<1>1. CASE \E c \in Connections : EnterTenant(t, c)
  <2>1. PICK c \in Connections : EnterTenant(t, c)
    BY <1>1
  <2>2. x.who # None /\ x.route \in DOMAIN Needed
    BY <1>0, <2>1 DEF EnterTenant, At, Ready, Loaded
  <2>3. setting' \in [Connections -> Settings]
    BY <2>1, <2>2, TenantType DEF EnterTenant, SetTenantContext, Body, DataTypes, Settings
  <2> DEFINE step == IF x.route = "read_rubric" THEN "look" ELSE "insert"
             new == [x EXCEPT !.conn = c, !.pc = step]
  <2>4. new \in Tasks
    <3>1. step \in Steps
      BY DEF Steps
    <3>2. \A p \in Steps : [x EXCEPT !.conn = c, !.pc = p] \in Tasks
      BY <1>0 DEF Tasks
    <3> QED BY <3>1, <3>2
  <2>5. Ready(new)
    <3>1. /\ new.pc \in {"look", "insert"} /\ new.who = x.who /\ new.conn = c
          /\ new.key = x.key /\ new.route = x.route
      BY <1>0 DEF Tasks
    <3> QED BY <1>0, <2>2, <3>1, NoneAssumption DEF Ready, Loaded, InTransaction, Unread
  <2>6. TasksOK'
    BY <1>0, <2>1, <2>4, <2>5, OneTask DEF EnterTenant, Body
  <2> QED BY <2>1, <2>3, <2>6
      DEF EnterTenant, Body, TableTypes, DataTypes, SpentOK, tableVars
<1>2. CASE \E r \in Rubrics : LookInCache(t, r)
  <2>1. PICK r \in Rubrics : LookInCache(t, r)
    BY <1>2
  <2> DEFINE hit == cache[CacheKey(Tenant(t), r)]
             step == IF hit = Nobody THEN "read" ELSE "reply"
             new == [x EXCEPT !.rubric = r, !.source = hit, !.pc = step]
  <2>2. x.who # None /\ x.conn # None
    BY <1>0, <2>1 DEF LookInCache, At, Ready, Loaded, InTransaction, Unread
  <2>3. hit \in {"member", "superuser", Nobody}
    BY <2>2, TenantType DEF Body, DataTypes, CacheKey, CacheKeys
  <2>4. new \in Tasks
    <3>1. step \in Steps
      BY DEF Steps
    <3>2. \A p \in Steps, h \in {"member", "superuser", Nobody} :
            [x EXCEPT !.rubric = r, !.source = h, !.pc = p] \in Tasks
      BY <1>0 DEF Tasks
    <3> QED BY <2>3, <3>1, <3>2
  <2>5. Ready(new)
    <3>1. /\ new.pc \in {"read", "reply"} /\ new.who = x.who /\ new.conn = x.conn
          /\ new.key = x.key /\ new.route = x.route /\ new.rubric = r
      BY <1>0 DEF Tasks
    <3> QED BY <1>0, <2>2, <3>1, NoneAssumption DEF Ready, Loaded, InTransaction, Unread
  <2>6. task' = [task EXCEPT ![t] = new]
    BY <1>0, <2>1 DEF LookInCache
  <2> QED BY <2>1, <2>4, <2>5, <2>6, QuietType DEF LookInCache, dataVars
<1>3. CASE \E r \in Rubrics : CreateRubric(t, r)
  <2>1. PICK r \in Rubrics : CreateRubric(t, r)
    BY <1>3
  <2>2. x.who # None
    BY <1>0, <2>1 DEF CreateRubric, At, Ready, Loaded
  <2>3. municipio' \in [Rubrics -> Tenants \cup {Platform, Nobody}]
    BY <2>1, <2>2, TenantType DEF CreateRubric, InsertRubric, Body, DataTypes
  <2>4. TasksOK' /\ setting' \in [Connections -> Settings]
    BY <2>1, FinishType DEF CreateRubric, Body, DataTypes
  <2> QED BY <2>1, <2>3, <2>4
      DEF CreateRubric, Body, TableTypes, DataTypes, SpentOK, tableVars
<1>4. CASE ReadRubric(t)
  <2>1. CASE Visible(x.conn, x.rubric)
    <3> DEFINE new == [x EXCEPT !.pc = "fill"]
    <3>1. new \in Tasks
      BY <1>0 DEF Tasks, Steps
    <3>2. Ready(new)
      BY <1>0, <1>4 DEF ReadRubric, At, Ready, Tasks, Loaded, InTransaction, Unread
    <3>3. task' = [task EXCEPT ![t] = new] /\ UNCHANGED setting
      BY <1>0, <1>4, <2>1 DEF ReadRubric, Goto
    <3> QED BY <1>4, <3>1, <3>2, <3>3, QuietType DEF ReadRubric
  <2>2. CASE ~Visible(x.conn, x.rubric)
    BY <1>4, <2>2, QuietType DEF ReadRubric
  <2> QED BY <2>1, <2>2
<1>5. CASE FillAndReply(t)
  <2> DEFINE source == IF x.who.super THEN "superuser" ELSE "member"
             new == [x EXCEPT !.pc = "reply", !.source = source]
  <2>1. x.who # None /\ x.conn # None /\ x.rubric \in Rubrics
    BY <1>0, <1>5, Members DEF FillAndReply, At, Ready, Loaded, InTransaction, Unread
  <2>2. cache' \in [CacheKeys -> {"member", "superuser", Nobody}]
    BY <1>5, <2>1, TenantType
    DEF FillAndReply, FillCache, CacheKey, CacheKeys, Body, DataTypes
  <2>3. new \in Tasks
    <3>1. \A y \in {"member", "superuser"} :
            [x EXCEPT !.pc = "reply", !.source = y] \in Tasks
      BY <1>0 DEF Tasks, Steps
    <3> QED BY <3>1
  <2>4. Ready(new)
    BY <1>0, <1>5, <2>1 DEF FillAndReply, At, Ready, Tasks, Loaded, InTransaction, Unread
  <2>5. TasksOK'
    <3>1. task' = [task EXCEPT ![t] = new]
      BY <1>0, <1>5 DEF FillAndReply
    <3> QED BY <2>3, <2>4, <3>1, OneTask DEF Body
  <2>6. UNCHANGED <<account, apiKey, permitted, municipio, setting, spent>>
    BY <1>5 DEF FillAndReply, tableVars
  <2> QED BY <2>2, <2>5, <2>6 DEF Body, TableTypes, DataTypes, SpentOK
<1>6. CASE Reply(t)
  BY <1>6, QuietType DEF Reply
<1> QED BY <1>1, <1>2, <1>3, <1>4, <1>5, <1>6

\* What no step takes back: a user stays, a deleted one stays deleted, and a
\* key stays, with its owner and its permissions.
Grow ==
  /\ \A u \in Accounts : account[u] # None =>
       account'[u] # None /\ (account[u].deleted => account'[u].deleted)
  /\ \A k \in KeyIds : apiKey[k] # None =>
       /\ apiKey'[k] # None /\ apiKey'[k].user = apiKey[k].user
       /\ permitted'[k] = permitted[k]

KeysOK == apiKey \in [KeyIds -> Keys \cup {None}] /\ permitted \in [KeyIds -> SUBSET Pair]

LEMMA KeysGrow ==
  ASSUME Body, NEW t \in Threads,
         \E k \in KeyIds : NewKey(t, k) \/ UpdateKey(t, k) \/ DeleteKey(t, k)
  PROVE  Body' /\ Grow
<1>1. PICK k \in KeyIds : NewKey(t, k) \/ UpdateKey(t, k) \/ DeleteKey(t, k)
  OBVIOUS
<1>2. /\ UNCHANGED <<account, municipio, cache, spent>>
      /\ TasksOK' /\ setting' \in [Connections -> Settings]
  BY <1>1, FinishType DEF NewKey, UpdateKey, DeleteKey, Body, DataTypes
<1>3. KeysOK' /\ Grow
  <2> KeysOK
    BY DEF Body, TableTypes, KeysOK
  <2>1. CASE NewKey(t, k)
    <3> DEFINE owner == task[t].who.id
    <3>1. owner \in Accounts
      BY <2>1, Members DEF NewKey, At, Body, TasksOK, Ready
    <3>2. PICK grant \in Grants, expiry \in Expiries : CreateKey(k, owner, grant, expiry)
      BY <2>1 DEF NewKey
    <3> DEFINE row == [user |-> owner, active |-> TRUE, permissions |-> grant,
                       expiry |-> expiry]
    <3>3. row \in Keys
      BY <3>1 DEF Keys, Expiries
    <3>4. apiKey' = [apiKey EXCEPT ![k] = row]
      BY <3>2 DEF CreateKey
    <3>5. permitted' = [permitted EXCEPT ![k] = PermissionPairs(grant)]
      BY <3>2 DEF CreateKey
    <3>6. PermissionPairs(grant) \in SUBSET Pair
      BY DEF PermissionPairs
    <3>7. apiKey[k] = None
      BY <2>1 DEF NewKey
    <3> QED BY <1>2, <3>3, <3>4, <3>5, <3>6, <3>7 DEF Grow, KeysOK
  <2>2. ASSUME NEW active \in BOOLEAN, NEW grant \in Grants, NEW expiry \in Expiries,
               k \in Owned(task[t].who.id), ChangeKey(k, active, grant, expiry)
        PROVE  KeysOK' /\ Grow
    <3>1. apiKey[k] \in Keys
      BY <2>2 DEF Owned, KeysOK
    <3> DEFINE row == [apiKey[k] EXCEPT !.active = active, !.permissions = grant,
                                        !.expiry = expiry]
    <3>2. row \in Keys /\ row.user = apiKey[k].user
      BY <3>1 DEF Keys, Expiries
    <3>3. apiKey' = [apiKey EXCEPT ![k] = row] /\ permitted' = permitted
      BY <2>2 DEF ChangeKey
    <3> QED BY <1>2, <3>2, <3>3, NoRowAssumption DEF Grow, KeysOK
  <2>3. CASE UNCHANGED <<apiKey, permitted>>
    BY <1>2, <2>3 DEF Grow, KeysOK
  <2>4. CASE UpdateKey(t, k)
    BY <2>2, <2>3, <2>4 DEF UpdateKey
  <2>5. CASE DeleteKey(t, k) /\ k \in Owned(task[t].who.id)
    <3>1. ChangeKey(k, FALSE, apiKey[k].permissions, apiKey[k].expiry)
      BY <2>5 DEF DeleteKey
    <3>2. apiKey[k] \in Keys
      BY <2>5 DEF Owned, KeysOK
    <3>3. apiKey[k].permissions \in Grants /\ apiKey[k].expiry \in Expiries
      BY <3>2 DEF Keys, Expiries
    <3> QED BY <2>2, <2>5, <3>1, <3>3
  <2>6. CASE DeleteKey(t, k) /\ k \notin Owned(task[t].who.id)
    BY <2>3, <2>6 DEF DeleteKey
  <2> QED BY <1>1, <2>1, <2>4, <2>5, <2>6
<1> QED BY <1>2, <1>3 DEF Body, TableTypes, DataTypes, SpentOK, KeysOK

\* The steps that choose the user to change, and the check of the name.
LEMMA ChoiceType ==
  ASSUME Body, NEW t \in Threads,
         \/ \E name \in Names : FindUser(t, name) \/ ReadExisting(t, name)
         \/ CheckTaken(t)
  PROVE  Body'
<1> DEFINE x == task[t]
<1>0. x \in Tasks /\ Ready(x) /\ task \in [Threads -> Tasks]
  BY DEF Body, TasksOK
<1>1. ASSUME NEW name \in Names, FindUser(t, name)
      PROVE  Body'
  <2> DEFINE next == IF x.route = "update_user" THEN "existing" ELSE "write"
  <2>1. CASE Finish(t)
    BY <1>1, <2>1, QuietType DEF FindUser
  <2>2. CASE ~Finish(t)
    <3>1. PICK u \in Accounts : task' = [task EXCEPT ![t].pc = next, ![t].target = u]
      BY <1>1, <2>2 DEF FindUser, Named
    <3> DEFINE new == [x EXCEPT !.pc = next, !.target = u]
    <3>2. new \in Tasks
      <4>1. \A p \in Steps : [x EXCEPT !.pc = p, !.target = u] \in Tasks
        BY <1>0 DEF Tasks
      <4> QED BY <4>1 DEF Steps
    <3>3. x.route \in OnUser /\ x.who # None
      BY <1>0, <1>1 DEF FindUser, At, Ready, Loaded
    <3>4. /\ new.pc = next /\ new.target = u /\ new.route = x.route
          /\ new.who = x.who /\ new.key = x.key /\ new.conn = None
      BY <1>0, <1>1 DEF Tasks, FindUser, At, Ready, InTransaction, Unread
    <3>5. Ready(new)
      BY <1>0, <3>3, <3>4, NoRowAssumption
      DEF Ready, OnUser, Renaming, Loaded, InTransaction, Unread
    <3>6. task' = [task EXCEPT ![t] = new]
      BY <1>0, <3>1
    <3>7. UNCHANGED setting
      BY <1>1, <2>2 DEF FindUser
    <3> QED BY <1>1, <3>2, <3>5, <3>6, <3>7, QuietType DEF FindUser
  <2> QED BY <2>1, <2>2
<1>2. ASSUME NEW name \in Names, ReadExisting(t, name)
      PROVE  Body'
  <2> DEFINE next == IF name = account[x.target].name THEN "write" ELSE "taken"
             new == [x EXCEPT !.name = name, !.pc = next]
  <2>1. CASE Live(x.target)
    <3>1. new \in Tasks
      <4>1. \A p \in Steps : [x EXCEPT !.name = name, !.pc = p] \in Tasks
        BY <1>0 DEF Tasks
      <4> QED BY <4>1 DEF Steps
    <3>2. x.route = "update_user" /\ x.who # None /\ x.target # None
      BY <1>0, <1>2 DEF ReadExisting, At, Ready, Loaded
    <3>3. /\ new.pc = next /\ new.target = x.target /\ new.route = x.route
          /\ new.who = x.who /\ new.key = x.key /\ new.name = name
          /\ new.conn = None
      BY <1>0, <1>2 DEF Tasks, ReadExisting, At, Ready, InTransaction, Unread
    <3>4. Ready(new)
      BY <1>0, <3>2, <3>3, NoRowAssumption
      DEF Ready, OnUser, Renaming, Loaded, InTransaction, Unread
    <3>5. task' = [task EXCEPT ![t] = new] /\ UNCHANGED setting
      BY <1>0, <1>2, <2>1 DEF ReadExisting
    <3> QED BY <1>2, <3>1, <3>4, <3>5, QuietType DEF ReadExisting
  <2>2. CASE ~Live(x.target)
    BY <1>2, <2>2, QuietType DEF ReadExisting
  <2> QED BY <2>1, <2>2
<1>3. CASE CheckTaken(t)
  <2>1. CASE Named(x.name) = {}
    <3> DEFINE new == [x EXCEPT !.pc = "write"]
    <3>1. new \in Tasks
      BY <1>0 DEF Tasks, Steps
    <3>2. Ready(new)
      BY <1>0, <1>3 DEF CheckTaken, At, Ready, Tasks, Loaded, InTransaction, Unread
    <3>3. task' = [task EXCEPT ![t] = new] /\ UNCHANGED setting
      BY <1>0, <1>3, <2>1 DEF CheckTaken, Goto
    <3> QED BY <1>3, <3>1, <3>2, <3>3, QuietType DEF CheckTaken
  <2>2. CASE Named(x.name) # {}
    BY <1>3, <2>2, QuietType DEF CheckTaken
  <2> QED BY <2>1, <2>2
<1> QED BY <1>1, <1>2, <1>3

\* The steps that write to the table of users.
LEMMA UsersGrow ==
  ASSUME Body, UsersExist, NEW t \in Threads,
         \/ WriteProfile(t) \/ DeleteUser(t) \/ AnonymizeUser(t)
         \/ \E u \in Accounts : InsertUser(t, u)
  PROVE  Body' /\ Grow
<1> DEFINE x == task[t]
<1>0. x \in Tasks /\ Ready(x) /\ account \in [Accounts -> Users \cup {None}]
  BY DEF Body, TasksOK, TableTypes
<1>1. /\ UNCHANGED <<apiKey, permitted, municipio, cache, spent>>
      /\ TasksOK' /\ setting' \in [Connections -> Settings]
  BY FinishType
  DEF WriteProfile, DeleteUser, AnonymizeUser, InsertUser, Body, DataTypes
<1>2. x.route \in OnUser /\ At(t, "write")
        => x.target \in Accounts /\ account[x.target] \in Users /\ account[x.target] # None
  BY <1>0, Members DEF Ready, At, UsersExist
<1>3. account' \in [Accounts -> Users \cup {None}] /\ Grow
  <2>1. ASSUME NEW u \in Accounts, NEW row \in Users,
               account' = [account EXCEPT ![u] = row],
               account[u] # None => (account[u].deleted => row.deleted)
        PROVE  account' \in [Accounts -> Users \cup {None}] /\ Grow
    BY <1>0, <1>1, <2>1, NoRowAssumption DEF Grow
  <2>2. CASE UNCHANGED account
    BY <1>0, <1>1, <2>2 DEF Grow
  <2>3. CASE WriteProfile(t) /\ UpdateProfile(x.target, x.name)
    <3>1. x.route \in OnUser /\ At(t, "write") /\ x.route = "update_user"
      BY <2>3 DEF WriteProfile, OnUser
    <3>2. x.name \in Names
      BY <1>0, <3>1, Members DEF Ready, At, Renaming
    <3> DEFINE row == [account[x.target] EXCEPT !.name = x.name, !.personal = TRUE]
    <3>3. row \in Users /\ row.deleted = account[x.target].deleted
      BY <1>2, <3>1, <3>2 DEF Users
    <3>4. account' = [account EXCEPT ![x.target] = row]
      BY <1>0, <1>2, <2>3, <3>1 DEF UpdateProfile
    <3> QED BY <1>2, <2>1, <3>1, <3>3, <3>4
  <2>4. CASE DeleteUser(t)
    <3>1. x.route \in OnUser /\ At(t, "write")
      BY <2>4 DEF DeleteUser, OnUser
    <3> DEFINE row == [account[x.target] EXCEPT !.deleted = TRUE]
    <3>2. row \in Users /\ row.deleted
      BY <1>2, <3>1 DEF Users
    <3>3. account' = [account EXCEPT ![x.target] = row]
      BY <1>0, <1>2, <2>4, <3>1 DEF DeleteUser, SoftDelete
    <3> QED BY <1>2, <2>1, <3>1, <3>2, <3>3
  <2>5. CASE AnonymizeUser(t)
    <3>1. x.route \in OnUser /\ At(t, "write")
      BY <2>5 DEF AnonymizeUser, OnUser
    <3> DEFINE row == [name |-> Anonymous(x.target), deleted |-> TRUE, super |-> FALSE,
                       personal |-> FALSE]
    <3>2. row \in Users /\ row.deleted
      BY <1>2, <3>1 DEF Users
    <3>3. account' = [account EXCEPT ![x.target] = row]
      BY <2>5 DEF AnonymizeUser, Anonymize
    <3> QED BY <1>2, <2>1, <3>1, <3>2, <3>3
  <2>6. ASSUME NEW u \in Accounts, InsertUser(t, u), Insert(u, x.name)
        PROVE  account' \in [Accounts -> Users \cup {None}] /\ Grow
    <3>1. account[u] = None /\ x.name \in Names
      BY <1>0, <2>6, Members DEF InsertUser, At, Ready, Renaming
    <3> DEFINE row == [name |-> x.name, deleted |-> FALSE, super |-> FALSE,
                       personal |-> TRUE]
    <3>2. row \in Users
      BY <3>1 DEF Users
    <3>3. account' = [account EXCEPT ![u] = row]
      BY <2>6 DEF Insert
    <3> QED BY <2>1, <3>1, <3>2, <3>3
  <2> QED BY <2>2, <2>3, <2>4, <2>5, <2>6 DEF WriteProfile, InsertUser
<1> QED BY <1>1, <1>3 DEF Body, TableTypes, DataTypes, SpentOK

LEMMA QuietGrow == ASSUME UNCHANGED tableVars PROVE Grow
BY DEF Grow, tableVars

LEMMA StepOfType ==
  ASSUME Body, UsersExist, NEW t \in Threads, StepOf(t)
  PROVE  Body' /\ Grow
<1>1. CASE \/ \E k \in KeyIds, route \in DOMAIN Needed : RequestWithKey(t, k, route)
           \/ \E u \in Accounts, route \in DOMAIN Needed \cup SessionRoutes :
                RequestWithSession(t, u, route)
           \/ \E name \in Names : Register(t, name)
  <2>1. UNCHANGED tableVars
    BY <1>1 DEF RequestWithKey, RequestWithSession, Register, Begin
  <2> QED BY <1>1, <2>1, RequestType, QuietGrow
<1>2. CASE MatchKey(t) \/ CheckPermission(t) \/ LoadPrincipal(t)
  <2>1. UNCHANGED tableVars
    BY <1>2 DEF MatchKey, CheckPermission, LoadPrincipal
  <2> QED BY <1>2, <2>1, PrincipalType, QuietGrow
<1>3. CASE \/ \E c \in Connections : EnterTenant(t, c)
           \/ \E r \in Rubrics : LookInCache(t, r) \/ CreateRubric(t, r)
           \/ ReadRubric(t) \/ FillAndReply(t) \/ Reply(t)
  <2>1. UNCHANGED tableVars
    BY <1>3 DEF EnterTenant, LookInCache, CreateRubric, ReadRubric, FillAndReply, Reply
  <2> QED BY <1>3, <2>1, RubricType, QuietGrow
<1>4. CASE \E k \in KeyIds : NewKey(t, k) \/ UpdateKey(t, k) \/ DeleteKey(t, k)
  BY <1>4, KeysGrow
<1>5. CASE \/ \E name \in Names : FindUser(t, name) \/ ReadExisting(t, name)
           \/ CheckTaken(t)
  <2>1. UNCHANGED tableVars
    BY <1>5 DEF FindUser, ReadExisting, CheckTaken
  <2> QED BY <1>5, <2>1, ChoiceType, QuietGrow
<1>6. CASE \/ WriteProfile(t) \/ DeleteUser(t) \/ AnonymizeUser(t)
           \/ \E u \in Accounts : InsertUser(t, u)
  BY <1>6, UsersGrow
<1>7. CASE Fail(t)
  <2>1. TasksOK' /\ setting' \in [Connections -> Settings]
    BY <1>7, FinishType DEF Fail, Body, DataTypes
  <2>2. UNCHANGED <<account, apiKey, permitted, municipio, cache>> /\ SpentOK'
    BY <1>7 DEF Fail, tableVars, Body, SpentOK
  <2> QED BY <2>1, <2>2, QuietGrow DEF Body, TableTypes, DataTypes, tableVars
<1> QED BY <1>1, <1>2, <1>3, <1>4, <1>5, <1>6, <1>7 DEF StepOf

LEMMA TimeType ==
  ASSUME Body, Time
  PROVE  Body' /\ Grow
<1>1. UNCHANGED <<account, permitted, municipio, setting, task, spent>>
  BY DEF Time, KeyExpires, CacheForgets, tableVars, dataVars
<1>2. CASE \E k \in KeyIds : KeyExpires(k) /\ UNCHANGED dataVars
  <2>1. PICK k \in KeyIds : KeyExpires(k) /\ UNCHANGED cache
    BY <1>2 DEF dataVars
  <2> DEFINE row == [apiKey[k] EXCEPT !.expiry = "past"]
  <2>2. apiKey[k] \in Keys
    BY <2>1 DEF KeyExpires, Body, TableTypes
  <2>3. row \in Keys /\ row.user = apiKey[k].user
    BY <2>2 DEF Keys
  <2>4. apiKey' = [apiKey EXCEPT ![k] = row]
    BY <2>1, <2>2 DEF KeyExpires, Body, TableTypes
  <2>5. apiKey' \in [KeyIds -> Keys \cup {None}] /\ Grow
    BY <1>1, <2>3, <2>4, NoRowAssumption DEF Grow, Body, TableTypes
  <2> QED BY <1>1, <2>1, <2>5 DEF Body, TableTypes, DataTypes, TasksOK, SpentOK
<1>3. CASE \E key \in CacheKeys : CacheForgets(key) /\ UNCHANGED tableVars
  <2>1. cache' \in [CacheKeys -> {"member", "superuser", Nobody}] /\ UNCHANGED tableVars
    BY <1>3 DEF CacheForgets, Body, DataTypes
  <2> QED BY <1>1, <2>1, QuietGrow
      DEF Body, TableTypes, DataTypes, TasksOK, SpentOK, tableVars
<1> QED BY <1>2, <1>3 DEF Time

------------------------------------------------------------------------
(* What a step does to the request that takes it.                         *)

Begun(y) == /\ y.who = None /\ y.target = None /\ y.conn = None
            /\ y.key # None => y.pc = "match"
Matched(x, y) ==
  /\ x.pc = "match" /\ Matches(x.key) /\ y.user = apiKey[x.key].user /\ y.pc = "permit"
  /\ y.key = x.key /\ y.who = x.who /\ y.target = x.target /\ y.conn = x.conn
Permitted(x, y) ==
  /\ x.pc = "permit" /\ HasPermission(x.key, Needed[x.route]) /\ y.pc = "load"
  /\ y.key = x.key /\ y.user = x.user /\ y.who = x.who
  /\ y.target = x.target /\ y.conn = x.conn
Identified(x, y) ==
  /\ x.pc = "load" /\ Live(x.user) /\ y.who.id = x.user
  /\ y.key = x.key /\ y.user = x.user /\ y.target = x.target /\ y.conn = x.conn
Continued(x, y) ==
  /\ x.pc \notin Unread
  /\ y.key = x.key /\ y.user = x.user /\ y.who = x.who
  /\ y.target = x.target \/ account[y.target] # None

Changed(t) ==
  LET x == task[t]  y == task'[t] IN
    \/ Begun(y) \/ Continued(x, y)
    \/ UNCHANGED tableVars /\ (Matched(x, y) \/ Permitted(x, y) \/ Identified(x, y))

Shape(t) == Changed(t) /\ \A u \in Threads : u # t => task'[u] = task[u]
Shapes == \A u \in Threads : Changed(u) \/ task'[u] = task[u]

LEMMA Ends ==
  ASSUME Body, NEW t \in Threads, Finish(t)
  PROVE  Shape(t)
BY FinishType DEF Body, DataTypes, Shape, Changed, Begun, NoTask

LEMMA StepShape ==
  ASSUME Body, NEW t \in Threads, StepOf(t)
  PROVE  Shape(t)
<1> DEFINE x == task[t]
<1>0. x \in Tasks /\ Ready(x) /\ task \in [Threads -> Tasks]
  BY DEF Body, TasksOK
<1>1. ASSUME NEW k \in KeyIds, NEW route \in DOMAIN Needed, RequestWithKey(t, k, route)
      PROVE  Shape(t)
  BY <1>0, <1>1 DEF RequestWithKey, Begin, NoTask, Shape, Changed, Begun
<1>2. ASSUME NEW u \in Accounts, NEW route \in DOMAIN Needed \cup SessionRoutes,
             RequestWithSession(t, u, route)
      PROVE  Shape(t)
  BY <1>0, <1>2 DEF RequestWithSession, Begin, NoTask, Shape, Changed, Begun
<1>3. ASSUME NEW name \in Names, Register(t, name)
      PROVE  Shape(t)
  BY <1>0, <1>3 DEF Register, Begin, NoTask, Shape, Changed, Begun
<1>4. CASE MatchKey(t)
  BY <1>0, <1>4, Ends DEF MatchKey, At, Shape, Changed, Matched, Tasks
<1>5. CASE CheckPermission(t)
  BY <1>0, <1>5, Ends DEF CheckPermission, Goto, At, Shape, Changed, Permitted, Tasks
<1>6. CASE LoadPrincipal(t)
  <2>1. CASE Live(x.user)
    <3> DEFINE who == [id |-> x.user, name |-> account[x.user].name,
                       super |-> account[x.user].super]
               step == AfterLoad(x.route)
    <3>1. task' = [task EXCEPT ![t].pc = step, ![t].who = who]
      BY <1>6, <2>1 DEF LoadPrincipal
    <3>2. who.id = x.user
      OBVIOUS
    <3> HIDE DEF who, step
    <3>3. /\ task'[t].who = who /\ task'[t].key = x.key /\ task'[t].user = x.user
          /\ task'[t].target = x.target /\ task'[t].conn = x.conn
          /\ \A u \in Threads : u # t => task'[u] = task[u]
      BY <1>0, <3>1 DEF Tasks
    <3> QED BY <1>6, <2>1, <3>2, <3>3 DEF LoadPrincipal, At, Shape, Changed, Identified
  <2>2. CASE ~Live(x.user)
    BY <1>6, <2>2, Ends DEF LoadPrincipal
  <2> QED BY <2>1, <2>2
<1>7. ASSUME NEW c \in Connections, EnterTenant(t, c)
      PROVE  Shape(t)
  BY <1>0, <1>7 DEF EnterTenant, At, Shape, Changed, Continued, Unread, Tasks
<1>8. ASSUME NEW r \in Rubrics, LookInCache(t, r)
      PROVE  Shape(t)
  BY <1>0, <1>8 DEF LookInCache, At, Shape, Changed, Continued, Unread, Tasks
<1>9. CASE ReadRubric(t) \/ CheckTaken(t)
  BY <1>0, <1>9, Ends
  DEF ReadRubric, CheckTaken, Goto, At, Shape, Changed, Continued, Unread, Tasks
<1>10. CASE FillAndReply(t)
  BY <1>0, <1>10 DEF FillAndReply, At, Shape, Changed, Continued, Unread, Tasks
<1>11. ASSUME NEW name \in Names, FindUser(t, name)
       PROVE  Shape(t)
  <2> DEFINE next == IF x.route = "update_user" THEN "existing" ELSE "write"
  <2>1. CASE Finish(t)
    BY <2>1, Ends
  <2>2. CASE ~Finish(t)
    <3>1. PICK u \in Named(name) : task' = [task EXCEPT ![t].pc = next, ![t].target = u]
      BY <1>11, <2>2 DEF FindUser
    <3>2. account[u] # None
      BY <3>1 DEF Named
    <3> HIDE DEF next
    <3>3. /\ task'[t].target = u /\ task'[t].key = x.key /\ task'[t].user = x.user
          /\ task'[t].who = x.who /\ \A v \in Threads : v # t => task'[v] = task[v]
      BY <1>0, <3>1 DEF Tasks
    <3> QED BY <1>11, <3>2, <3>3 DEF FindUser, At, Shape, Changed, Continued, Unread
  <2> QED BY <2>1, <2>2
<1>12. ASSUME NEW name \in Names, ReadExisting(t, name)
       PROVE  Shape(t)
  BY <1>0, <1>12, Ends DEF ReadExisting, At, Shape, Changed, Continued, Unread, Tasks
<1>13. CASE Finish(t)
  BY <1>13, Ends
<1> QED
  BY <1>1, <1>2, <1>3, <1>4, <1>5, <1>6, <1>7, <1>8, <1>9, <1>10, <1>11, <1>12, <1>13
  DEF StepOf, Reply, CreateRubric, NewKey, UpdateKey, DeleteKey, InsertUser,
      WriteProfile, DeleteUser, AnonymizeUser, Fail

------------------------------------------------------------------------
(* The invariant is inductive.                                            *)

LEMMA StepUsers ==
  ASSUME Body, Body', UsersExist, Grow, Shapes
  PROVE  UsersExist'
<1> SUFFICES ASSUME NEW u \in Threads
             PROVE  /\ task'[u].who # None => account'[task'[u].who.id] # None
                    /\ task'[u].target # None => account'[task'[u].target] # None
  BY DEF UsersExist
<1> DEFINE x == task[u]
           y == task'[u]
<1>0. x \in Tasks /\ y \in Tasks
  BY DEF Body, TasksOK
<1>1. /\ x.who # None => x.who.id \in Accounts /\ account[x.who.id] # None
      /\ x.target # None => x.target \in Accounts /\ account[x.target] # None
  BY <1>0, Members DEF UsersExist
<1>2. /\ y.who # None => y.who.id \in Accounts
      /\ y.target # None => y.target \in Accounts
  BY <1>0, Members
<1>3. CASE y = x
  BY <1>1, <1>3 DEF Grow
<1>4. CASE Begun(y)
  BY <1>4 DEF Begun
<1>5. CASE Continued(x, y)
  BY <1>1, <1>2, <1>5 DEF Continued, Grow
<1>6. CASE (Matched(x, y) \/ Permitted(x, y))
  BY <1>1, <1>6 DEF Matched, Permitted, Grow
<1>7. CASE Identified(x, y)
  BY <1>1, <1>2, <1>7 DEF Identified, Live, Grow
<1> QED BY <1>3, <1>4, <1>5, <1>6, <1>7 DEF Shapes, Changed

LEMMA StepOwners ==
  ASSUME Body, UsersExist, OwnersExist, Grow, Step
  PROVE  OwnersExist'
<1>0. apiKey \in [KeyIds -> Keys \cup {None}]
  BY DEF Body, TableTypes
<1>1. \A k \in KeyIds : apiKey[k] # None => apiKey[k].user \in Accounts
  BY <1>0 DEF Keys
<1>2. SUFFICES ASSUME NEW k \in KeyIds, apiKey[k] = None, apiKey'[k] # None
               PROVE  account'[apiKey'[k].user] # None
  BY <1>1 DEF OwnersExist, Grow
<1>3. \E t \in Threads : NewKey(t, k)
  <2>1. \E t \in Threads, j \in KeyIds : NewKey(t, j)
    <3>1. ASSUME NEW t \in Threads, NEW j \in KeyIds, UpdateKey(t, j) \/ DeleteKey(t, j)
          PROVE  FALSE
      <4>1. CASE UNCHANGED apiKey
        BY <1>2, <4>1
      <4>2. CASE apiKey' # apiKey
        <5>1. j \in Owned(task[t].who.id)
          BY <3>1, <4>2 DEF UpdateKey, DeleteKey
        <5>2. PICK a, g, e : ChangeKey(j, a, g, e)
          BY <3>1, <5>1 DEF UpdateKey, DeleteKey
        <5>3. apiKey'[k] = apiKey[k]
          BY <1>0, <1>2, <5>1, <5>2 DEF ChangeKey, Owned
        <5> QED BY <1>2, <5>3
      <4> QED BY <4>1, <4>2
    <3>2. ~Time
      BY <1>0, <1>2 DEF Time, KeyExpires, tableVars
    <3>3. PICK t \in Threads : StepOf(t)
      BY <3>2 DEF Step
    <3>4. apiKey' # apiKey
      BY <1>2
    <3>5. \E j \in KeyIds : NewKey(t, j) \/ UpdateKey(t, j) \/ DeleteKey(t, j)
      BY <3>3, <3>4
      DEF StepOf, RequestWithKey, RequestWithSession, Register, Begin, MatchKey,
          CheckPermission, LoadPrincipal, EnterTenant, LookInCache, CreateRubric,
          ReadRubric, FillAndReply, Reply, FindUser, ReadExisting, InsertUser,
          CheckTaken, WriteProfile, DeleteUser, AnonymizeUser, Fail, tableVars
    <3> QED BY <3>1, <3>5
  <2>2. PICK t \in Threads, j \in KeyIds : NewKey(t, j)
    BY <2>1
  <2>3. CASE j # k
    BY <1>0, <1>2, <2>2, <2>3 DEF NewKey, CreateKey
  <2> QED BY <2>2, <2>3
<1>4. PICK t \in Threads : NewKey(t, k)
  BY <1>3
<1>5. task[t].who # None /\ task[t] \in Tasks
  BY <1>4 DEF NewKey, At, Body, TasksOK, Ready
<1>6. apiKey'[k].user = task[t].who.id
  BY <1>0, <1>4 DEF NewKey, CreateKey
<1> QED BY <1>4, <1>5, <1>6 DEF NewKey, UsersExist

\* A request with a key keeps it to its end, so that the history of it stays.
LEMMA SeenStays ==
  ASSUME Watch, NEW t \in seen.usable, t \in Threads, task'[t].key # None
  PROVE  t \in seen'.usable
BY DEF Watch, CameWithKey

LEMMA StepKeys ==
  ASSUME Body, Body', OwnersExist, KeysAreRead, Grow, Watch, Shapes
  PROVE  KeysAreRead'
<1> SUFFICES ASSUME NEW u \in Threads, task'[u].key # None
             PROVE  \/ task'[u].pc = "match" /\ task'[u].who = None
                    \/ Refusable(u)'
  BY DEF KeysAreRead
<1> DEFINE x == task[u]
           y == task'[u]
<1>0. x \in Tasks /\ Ready(x) /\ y \in Tasks
  BY DEF Body, TasksOK
<1>1. /\ apiKey \in [KeyIds -> Keys \cup {None}] /\ account \in [Accounts -> Users \cup {None}]
      /\ y.key \in KeyIds
  BY <1>0, Members DEF Body, TableTypes
<1>2. \A k \in KeyIds : apiKey[k] # None =>
        apiKey[k].user \in Accounts /\ account[apiKey[k].user] # None
  BY <1>1 DEF Keys, OwnersExist
<1> DEFINE Owner == apiKey'[y.key] # None /\ y.user = apiKey'[y.key].user
           Gone == account'[y.user] # None /\ account'[y.user].deleted
\* What was known of a request that keeps its key and its user.
<1>3. ASSUME y.key = x.key, y.user = x.user, Refusable(u)
      PROVE  /\ Owner /\ permitted'[y.key] = permitted[x.key]
             /\ ~Live(x.user) => Gone
             /\ u \in seen.usable => u \in seen'.usable
  <2>1. apiKey[x.key] # None /\ x.user = apiKey[x.key].user
    BY <1>3 DEF Refusable
  <2>2. Owner /\ permitted'[y.key] = permitted[x.key]
    BY <1>1, <1>3, <2>1 DEF Grow
  <2>3. x.user \in Accounts /\ account[x.user] # None
    BY <1>1, <1>2, <1>3, <2>1
  <2>4. ~Live(x.user) => Gone
    BY <1>3, <2>3 DEF Live, Grow
  <2> QED BY <2>2, <2>4, SeenStays
<1>4. Gone => ~Live(task[u].user)'
  BY DEF Live
<1>5. CASE y = x
  <2>1. CASE Refusable(u)
    BY <1>3, <1>4, <1>5, <2>1 DEF Refusable, HasPermission
  <2> QED BY <1>5, <2>1 DEF KeysAreRead
<1>6. CASE Begun(y)
  BY <1>6 DEF Begun
<1>7. CASE Continued(x, y)
  <2>1. Refusable(u) /\ u \in seen.usable
    BY <1>7 DEF Continued, Unread, KeysAreRead, Refusable
  <2> QED BY <1>3, <1>7, <2>1 DEF Continued, Refusable
<1>8. CASE UNCHANGED tableVars /\ Matched(x, y)
  <2>1. /\ x.pc = "match" /\ Matches(x.key) /\ y.pc = "permit" /\ y.key = x.key
        /\ y.who = x.who /\ y.user = apiKey[x.key].user
        /\ apiKey' = apiKey /\ account' = account
    BY <1>8 DEF Matched, tableVars
  <2>2. Owner
    BY <2>1 DEF Matches
  <2>3. CASE x.who = None
    <3>1. HasUsableKey(u)' => u \in seen'.usable
      BY DEF Watch
    <3>2. CASE Live(task[u].user)' /\ HasPermission(task[u].key, Needed[task[u].route])'
      <4>1. HasUsableKey(u)'
        BY <2>1, <2>2, <3>2 DEF HasUsableKey, CameWithKey, Usable, Matches
      <4> QED BY <2>2, <3>1, <4>1 DEF Refusable
    <3>3. CASE ~Live(task[u].user)' \/ ~HasPermission(task[u].key, Needed[task[u].route])'
      BY <2>1, <2>2, <2>3, <3>3 DEF Refusable
    <3> QED BY <3>2, <3>3
  <2>4. CASE x.who # None
    <3>1. u \in seen.usable
      BY <2>1, <2>4 DEF KeysAreRead, Refusable
    <3> QED BY <2>2, <3>1, SeenStays DEF Refusable
  <2> QED BY <2>3, <2>4
<1>9. CASE Permitted(x, y)
  <2>1. /\ x.pc = "permit" /\ HasPermission(x.key, Needed[x.route]) /\ y.pc = "load"
        /\ y.key = x.key /\ y.user = x.user /\ y.who = x.who
    BY <1>9 DEF Permitted
  <2>2. Refusable(u) /\ (u \in seen.usable \/ (x.who = None /\ ~Live(x.user)))
    BY <2>1 DEF KeysAreRead, Refusable
  <2> QED BY <1>3, <1>4, <2>1, <2>2 DEF Refusable
<1>10. CASE Identified(x, y)
  <2>1. x.pc = "load" /\ Live(x.user) /\ y.key = x.key /\ y.user = x.user
    BY <1>10 DEF Identified
  <2>2. Refusable(u) /\ u \in seen.usable
    BY <2>1 DEF KeysAreRead, Refusable
  <2> QED BY <1>3, <2>1, <2>2 DEF Refusable
<1> QED BY <1>5, <1>6, <1>7, <1>8, <1>9, <1>10 DEF Shapes, Changed

LEMMA InitIInv ==
  ASSUME Init
  PROVE  IInv
<1>1. TasksOK
  BY NoTaskType DEF Init, TasksOK
<1>2. account \in [Accounts -> Users \cup {None}]
  <2>1. \A u \in DOMAIN FirstNames :
          [name |-> FirstNames[u], deleted |-> FALSE, super |-> u \in Superusers,
           personal |-> TRUE] \in Users
    BY StartAssumption DEF Users
  <2> QED BY <2>1 DEF Init
<1>3. apiKey \in [KeyIds -> Keys \cup {None}]
  <2>1. \A k \in DOMAIN FirstKeys :
          [user |-> FirstKeys[k], active |-> TRUE, permissions |-> FirstGrant,
           expiry |-> "ahead"] \in Keys
    BY StartAssumption DEF Keys
  <2> QED BY <2>1 DEF Init
<1>4. permitted \in [KeyIds -> SUBSET Pair]
  BY DEF Init, PermissionPairs
<1>5. DataTypes
  BY StartAssumption DEF Init, DataTypes, Settings, Unset
<1>6. SpentOK /\ SeenOK
  BY DEF Init, SpentOK, SeenOK
<1>7. OwnersExist
  <2> SUFFICES ASSUME NEW k \in KeyIds, apiKey[k] # None
               PROVE  account[apiKey[k].user] # None
    BY DEF OwnersExist
  <2>1. k \in DOMAIN FirstKeys /\ apiKey[k].user = FirstKeys[k]
    BY DEF Init
  <2>2. FirstKeys[k] \in DOMAIN FirstNames /\ FirstKeys[k] \in Accounts
    BY <2>1, StartAssumption
  <2> DEFINE row == [name |-> FirstNames[FirstKeys[k]], deleted |-> FALSE,
                     super |-> FirstKeys[k] \in Superusers, personal |-> TRUE]
  <2>3. account[FirstKeys[k]] = row
    BY <2>2 DEF Init
  <2>4. row \in Users
    BY <2>2, StartAssumption DEF Users
  <2> QED BY <2>1, <2>3, <2>4, NoRowAssumption
<1>8. UsersExist /\ KeysAreRead
  BY DEF Init, NoTask, UsersExist, KeysAreRead
<1> QED BY <1>1, <1>2, <1>3, <1>4, <1>5, <1>6, <1>7, <1>8 DEF IInv, Body, TableTypes

LEMMA NextIInv ==
  ASSUME IInv, Next
  PROVE  IInv'
<1>1. Body /\ OwnersExist /\ UsersExist /\ KeysAreRead /\ Step /\ Watch
  BY DEF IInv, Next
<1>2. SeenOK'
  BY <1>1 DEF Watch, SeenOK, IInv
<1>3. Body' /\ Grow
  BY <1>1, StepOfType, TimeType DEF Step
<1>4. OwnersExist'
  BY <1>1, <1>3, StepOwners
<1>5. Shapes
  <2>1. CASE \E t \in Threads : StepOf(t)
    BY <1>1, <2>1, StepShape DEF Shape, Shapes
  <2>2. CASE Time
    BY <2>2 DEF Time, Shapes
  <2> QED BY <1>1, <2>1, <2>2 DEF Step
<1>6. UsersExist' /\ KeysAreRead'
  BY <1>1, <1>3, <1>5, StepUsers, StepKeys
<1> QED BY <1>2, <1>3, <1>4, <1>6 DEF IInv

LEMMA Inductive == Spec => []IInv
<1>1. IInv /\ UNCHANGED vars => IInv'
  <2> SUFFICES ASSUME IInv, UNCHANGED vars PROVE IInv'
    OBVIOUS
  <2>1. UNCHANGED <<account, apiKey, permitted, municipio, setting, cache, task, seen, spent>>
    BY DEF vars, tableVars, dataVars
  <2> QED BY <2>1
      DEF IInv, Body, TableTypes, DataTypes, TasksOK, SpentOK, SeenOK, OwnersExist,
          UsersExist, KeysAreRead, Refusable, Live, HasPermission
<1>2. IInv /\ [Next]_vars => IInv'
  BY <1>1, NextIInv
<1> QED BY <1>2, InitIInv, PTL DEF Spec

\* The tables, the settings of the connections, the cache and the variables of
\* every request keep their types, whatever the requests do to one another:
\* no statement works on a row that is not there.
THEOREM RequestsAreTyped == Spec => []TypeOK
<1>1. IInv => TypeOK
  BY DEF IInv, Body, TasksOK, SpentOK, SeenOK, TypeOK
<1> QED BY <1>1, Inductive, PTL

\* The key, its permissions and its owner are read by three statements between
\* which any of them may be changed, any number of times and by any number of
\* requests. All the same a request is let through only if at one moment since
\* it came the key was active, unexpired and permitted to do this, and its
\* owner not deleted (validate_api_key, get_current_principal).
THEOREM AdmissionIsSound == Spec => []AdmittedKeysWereUsable
<1>1. IInv => AdmittedKeysWereUsable
  <2> SUFFICES ASSUME IInv, NEW t \in Threads, task[t].key # None, task[t].who # None
               PROVE  t \in seen.usable
    BY DEF AdmittedKeysWereUsable
  <2> QED BY DEF IInv, KeysAreRead, Refusable
<1> QED BY <1>1, Inductive, PTL

------------------------------------------------------------------------
(* Connections. The pool may hand a connection to any request, so that the *)
(* invariant says of those that are idle that nothing is left on them; the *)
(* call that sets no tenant for a principal without one relies on it.      *)

Contexts ==
  /\ \A c \in Connections \ InUse : setting[c] = Unset
  /\ StatementsRunUnderOwnContext
  /\ \A t, u \in Threads : t # u /\ task[t].conn # None => task[t].conn # task[u].conn

\* What a step does to the connections.
KeepsConnection(t) ==
  /\ UNCHANGED setting
  /\ task'[t].conn = task[t].conn
  /\ task[t].conn # None => task'[t].who = task[t].who

LEMMA StepConnection ==
  ASSUME Body, NEW t \in Threads, StepOf(t)
  PROVE  Finish(t) \/ KeepsConnection(t) \/ \E c \in Connections : EnterTenant(t, c)
<1> DEFINE x == task[t]
<1>0. x \in Tasks /\ Ready(x) /\ task \in [Threads -> Tasks]
  BY DEF Body, TasksOK
<1>1. ASSUME NEW new, new.conn = None, Begin(t, new)
      PROVE  KeepsConnection(t)
  <2>1. x.conn = None
    BY <1>0, <1>1, NeededRoutes DEF Begin, Ready
  <2> QED BY <1>0, <1>1, <2>1 DEF Begin, dataVars, KeepsConnection
<1>2. ASSUME NEW k \in KeyIds, NEW route \in DOMAIN Needed, RequestWithKey(t, k, route)
      PROVE  KeepsConnection(t)
  BY <1>1, <1>2 DEF RequestWithKey, NoTask
<1>3. ASSUME NEW u \in Accounts, NEW route \in DOMAIN Needed \cup SessionRoutes,
             RequestWithSession(t, u, route)
      PROVE  KeepsConnection(t)
  BY <1>1, <1>3 DEF RequestWithSession, NoTask
<1>4. ASSUME NEW name \in Names, Register(t, name)
      PROVE  KeepsConnection(t)
  BY <1>1, <1>4 DEF Register, NoTask
<1>5. CASE MatchKey(t)
  BY <1>0, <1>5 DEF MatchKey, KeepsConnection, Tasks
<1>6. CASE CheckPermission(t) \/ ReadRubric(t) \/ CheckTaken(t)
  BY <1>0, <1>6 DEF CheckPermission, ReadRubric, CheckTaken, Goto, KeepsConnection, Tasks
<1>7. CASE LoadPrincipal(t)
  <2>1. x.conn = None
    BY <1>0, <1>7 DEF LoadPrincipal, At, Ready, InTransaction
  <2>2. CASE Live(x.user)
    <3>1. \A p, w : [x EXCEPT !.pc = p, !.who = w].conn = x.conn
      BY <1>0 DEF Tasks
    <3>2. PICK p, w : task' = [task EXCEPT ![t].pc = p, ![t].who = w]
      BY <1>7, <2>2 DEF LoadPrincipal
    <3>3. task'[t].conn = x.conn
      BY <1>0, <3>1, <3>2
    <3> QED BY <1>7, <2>1, <2>2, <3>3 DEF LoadPrincipal, KeepsConnection
  <2>3. CASE ~Live(x.user)
    BY <1>7, <2>3 DEF LoadPrincipal
  <2> QED BY <2>2, <2>3
<1>8. ASSUME NEW r \in Rubrics, LookInCache(t, r)
      PROVE  KeepsConnection(t)
  BY <1>0, <1>8 DEF LookInCache, dataVars, KeepsConnection, Tasks
<1>9. CASE FillAndReply(t)
  BY <1>0, <1>9 DEF FillAndReply, KeepsConnection, Tasks
<1>10. ASSUME NEW name \in Names, FindUser(t, name), ~Finish(t)
       PROVE  KeepsConnection(t)
  <2>1. PICK p, u : task' = [task EXCEPT ![t].pc = p, ![t].target = u]
    BY <1>10 DEF FindUser
  <2>2. task'[t].conn = x.conn /\ task'[t].who = x.who
    BY <1>0, <2>1 DEF Tasks
  <2> QED BY <1>10, <2>2 DEF FindUser, KeepsConnection
<1>11. ASSUME NEW name \in Names, ReadExisting(t, name), ~Finish(t)
       PROVE  KeepsConnection(t)
  BY <1>0, <1>11 DEF ReadExisting, KeepsConnection, Tasks
<1> QED
  BY <1>2, <1>3, <1>4, <1>5, <1>6, <1>7, <1>8, <1>9, <1>10, <1>11
  DEF StepOf, Reply, CreateRubric, NewKey, UpdateKey, DeleteKey, InsertUser,
      WriteProfile, DeleteUser, AnonymizeUser, Fail

LEMMA NextContexts ==
  ASSUME Body, Body', Contexts, Step
  PROVE  Contexts'
<1>0. /\ task \in [Threads -> Tasks] /\ setting \in [Connections -> Settings]
      /\ \A t \in Threads : task[t] \in Tasks /\ Ready(task[t])
  BY DEF Body, DataTypes, TasksOK
<1>1. CASE Time
  BY <1>1 DEF Time, KeyExpires, CacheForgets, dataVars, Contexts, InUse,
              StatementsRunUnderOwnContext, Tenant
<1>2. ASSUME NEW t \in Threads, StepOf(t)
      PROVE  Contexts'
  <2>0. \A u \in Threads : u # t => task'[u] = task[u]
    BY <1>2, StepShape DEF Shape
  <2>1. CASE KeepsConnection(t)
    <3>1. \A u \in Threads : /\ task'[u].conn = task[u].conn
                             /\ task[u].conn # None => task'[u].who = task[u].who
      BY <2>0, <2>1 DEF KeepsConnection
    <3>2. InUse' = InUse
      BY <3>1 DEF InUse
    <3> QED BY <2>1, <3>1, <3>2
        DEF KeepsConnection, Contexts, StatementsRunUnderOwnContext, Tenant
  <2>2. CASE Finish(t)
    <3> DEFINE c == task[t].conn
    <3>1. task'[t].conn = None
      BY <1>0, <2>2 DEF Finish, NoTask
    <3>2. InUse' = InUse \ {c}
      BY <2>0, <3>1 DEF InUse, Contexts
    <3>3. \A d \in Connections : setting'[d] = IF d = c THEN Unset ELSE setting[d]
      BY <1>0, <2>2, NoneAssumption DEF Finish, EndTransaction
    <3>4. \A u \in Threads : u # t /\ task[u].conn # None =>
            task[u].conn \in Connections /\ task[u].conn # c
      BY <1>0, Members DEF Contexts
    <3> QED BY <2>0, <3>1, <3>2, <3>3, <3>4
        DEF Contexts, StatementsRunUnderOwnContext, Tenant
  <2>3. ASSUME NEW c \in Connections, EnterTenant(t, c)
        PROVE  Contexts'
    <3>1. /\ c \notin InUse /\ setting[c] = Unset
      BY <2>3 DEF EnterTenant, Contexts
    <3>2. task[t].who # None
      BY <1>0, <2>3 DEF EnterTenant, At, Ready, Loaded
    <3>3. task'[t].conn = c /\ task'[t].who = task[t].who
      BY <1>0, <2>3 DEF EnterTenant, Tasks
    <3>4. setting'[c] = [tenant |-> Tenant(t), super |-> task[t].who.super]
      BY <1>0, <2>3, <3>1 DEF EnterTenant, SetTenantContext, Unset
    <3>5. \A d \in Connections : d # c => setting'[d] = setting[d]
      BY <1>0, <2>3 DEF EnterTenant, SetTenantContext
    <3>6. \A u \in Threads : u # t => task[u].conn # c
      BY <3>1, NoneAssumption DEF InUse
    <3>7. task[t].conn = None
      BY <1>0, <2>3 DEF EnterTenant, At, Ready, InTransaction
    <3>8. InUse' = InUse \cup {c}
      BY <2>0, <3>3, <3>7, NoneAssumption DEF InUse
    <3>9. \A u \in Threads : task[u].conn # None => task[u].conn \in Connections
      BY <1>0, Members
    <3>10. StatementsRunUnderOwnContext'
      BY <2>0, <3>3, <3>4, <3>5, <3>6, <3>9
      DEF Contexts, StatementsRunUnderOwnContext, Tenant
    <3> QED BY <2>0, <3>3, <3>5, <3>6, <3>8, <3>10 DEF Contexts
  <2> QED BY <1>2, <2>1, <2>2, <2>3, StepConnection
<1> QED BY <1>1, <1>2 DEF Step

LEMMA ContextsHold == Spec => []Contexts
<1>1. Init => Contexts
  BY DEF Init, NoTask, Contexts, StatementsRunUnderOwnContext
<1>2. IInv /\ IInv' /\ Contexts /\ [Next]_vars => Contexts'
  <2>1. ASSUME IInv, IInv', Contexts, Next PROVE Contexts'
    BY <2>1, NextContexts DEF IInv, Next
  <2>2. ASSUME Contexts, UNCHANGED vars PROVE Contexts'
    BY <2>2 DEF vars, dataVars, Contexts, InUse, StatementsRunUnderOwnContext, Tenant
  <2> QED BY <2>1, <2>2
<1> QED BY <1>1, <1>2, Inductive, PTL DEF Spec

\* Whatever tenants had the connections before, and also for principals without
\* one, a statement runs under the tenant and the privilege of the request that
\* issues it (set_tenant_context; the settings end with the transaction).
THEOREM ContextIsOwn == Spec => []StatementsRunUnderOwnContext
<1>1. Contexts => StatementsRunUnderOwnContext
  BY DEF Contexts
<1> QED BY <1>1, ContextsHold, PTL

------------------------------------------------------------------------
(* Isolation of the tenants. A row never changes its tenant, so that what   *)
(* was visible to a member stays readable for it while it is in the cache.  *)

Readable(tenant, r) == municipio[r] # Nobody /\ municipio[r] \in {Platform, tenant}
Isolated ==
  /\ \A tenant \in Tenants \cup {Nobody}, r \in Rubrics :
       cache[<<tenant, r>>] = "member" => Readable(tenant, r)
  /\ \A t \in Threads :
       \/ At(t, "fill") /\ ~task[t].who.super
       \/ At(t, "reply") /\ task[t].source = "member"
       => Readable(Tenant(t), task[t].rubric)

\* The first two steps give a request an answer, the third keeps it.
LEMMA StepAnswer ==
  ASSUME Body, Contexts, Isolated, NEW t \in Threads, StepOf(t),
         \/ At(t, "fill")' /\ ~task'[t].who.super
         \/ At(t, "reply")' /\ task'[t].source = "member"
  PROVE  /\ task[t].who # None /\ task'[t].who = task[t].who
         /\ task'[t].rubric \in Rubrics /\ Readable(Tenant(t), task'[t].rubric)
<1> DEFINE x == task[t]
<1>0. x \in Tasks /\ Ready(x) /\ task \in [Threads -> Tasks]
  BY DEF Body, TasksOK
<1>1. ~Finish(t)
  BY <1>0 DEF Finish, NoTask, At
<1>2. CASE \E r \in Rubrics : LookInCache(t, r)
  <2>1. PICK r \in Rubrics : LookInCache(t, r)
    BY <1>2
  <2>2. x.who # None
    BY <1>0, <2>1 DEF LookInCache, At, Ready, Loaded
  <2>3. /\ task'[t].rubric = r /\ task'[t].who = x.who
        /\ task'[t].pc \in {"read", "reply"}
        /\ task'[t].source = cache[<<Tenant(t), r>>]
    BY <1>0, <2>1 DEF LookInCache, CacheKey, Tasks
  <2>4. cache[<<Tenant(t), r>>] = "member"
    BY <2>3 DEF At
  <2> QED BY <2>2, <2>3, <2>4, TenantType DEF Isolated
<1>3. CASE ReadRubric(t)
  <2>1. /\ task' = [task EXCEPT ![t].pc = "fill"] /\ At(t, "read")
        /\ Visible(x.conn, x.rubric)
    BY <1>1, <1>3 DEF ReadRubric, Goto
  <2>2. x.who # None /\ x.conn # None /\ x.rubric \in Rubrics
    BY <1>0, <2>1, Members DEF At, Ready, Loaded, InTransaction
  <2>3. task'[t].rubric = x.rubric /\ task'[t].who = x.who /\ task'[t].pc = "fill"
    BY <1>0, <2>1 DEF Tasks
  <2>4. setting[x.conn] = [tenant |-> Tenant(t), super |-> x.who.super]
    BY <2>2 DEF Contexts, StatementsRunUnderOwnContext
  <2>5. ~x.who.super
    BY <2>3 DEF At
  <2> QED BY <2>1, <2>2, <2>3, <2>4, <2>5 DEF Visible, Readable
<1>4. CASE FillAndReply(t)
  <2>1. x.who # None /\ x.rubric \in Rubrics /\ At(t, "fill")
    BY <1>0, <1>4, Members DEF FillAndReply, At, Ready, Loaded
  <2>2. /\ task'[t].rubric = x.rubric /\ task'[t].who = x.who
        /\ task'[t].source = (IF x.who.super THEN "superuser" ELSE "member")
        /\ task'[t].pc = "reply"
    BY <1>0, <1>4 DEF FillAndReply, Tasks
  <2>3. ~x.who.super
    BY <2>2 DEF At
  <2> QED BY <2>1, <2>2, <2>3 DEF Isolated
<1>5. CASE \/ MatchKey(t) \/ CheckPermission(t) \/ CheckTaken(t)
           \/ \E name \in Names : FindUser(t, name) \/ ReadExisting(t, name)
  <2>1. CASE MatchKey(t) \/ CheckPermission(t) \/ CheckTaken(t)
    BY <1>0, <1>1, <2>1 DEF MatchKey, CheckPermission, CheckTaken, Goto, Tasks, At
  <2>2. ASSUME NEW name \in Names, FindUser(t, name)
        PROVE  FALSE
    <3>1. PICK p \in {"existing", "write"} :
                 \E u : task' = [task EXCEPT ![t].pc = p, ![t].target = u]
      BY <1>1, <2>2 DEF FindUser
    <3>2. task'[t].pc = p
      BY <1>0, <3>1 DEF Tasks
    <3> QED BY <3>2 DEF At
  <2>3. ASSUME NEW name \in Names, ReadExisting(t, name)
        PROVE  FALSE
    <3>1. PICK p \in {"taken", "write"} :
                 task' = [task EXCEPT ![t].name = name, ![t].pc = p]
      BY <1>1, <2>3 DEF ReadExisting
    <3>2. task'[t].pc = p
      BY <1>0, <3>1 DEF Tasks
    <3> QED BY <3>2 DEF At
  <2> QED BY <1>5, <2>1, <2>2, <2>3
<1>6. CASE LoadPrincipal(t)
  <2> DEFINE step == AfterLoad(x.route)
  <2>1. PICK w : task' = [task EXCEPT ![t].pc = step, ![t].who = w]
    BY <1>1, <1>6 DEF LoadPrincipal
  <2>2. step \notin {"fill", "reply"}
    BY DEF AfterLoad
  <2> HIDE DEF step
  <2>3. task'[t].pc = step
    BY <1>0, <2>1 DEF Tasks
  <2> QED BY <2>2, <2>3 DEF At
<1>7. CASE \E c \in Connections : EnterTenant(t, c)
  <2>1. PICK c \in Connections, p \in {"look", "insert"} :
               task' = [task EXCEPT ![t].conn = c, ![t].pc = p]
    BY <1>7 DEF EnterTenant
  <2>2. task'[t].pc \in {"look", "insert"}
    BY <1>0, <2>1 DEF Tasks
  <2> QED BY <2>2 DEF At
<1>8. CASE \/ \E k \in KeyIds, route \in DOMAIN Needed : RequestWithKey(t, k, route)
           \/ \E u \in Accounts, route \in DOMAIN Needed \cup SessionRoutes :
                RequestWithSession(t, u, route)
           \/ \E name \in Names : Register(t, name)
  <2>1. task'[t].pc \in {"match", "load", "taken"}
    BY <1>0, <1>8 DEF RequestWithKey, RequestWithSession, Register, Begin, NoTask
  <2> QED BY <2>1 DEF At
<1> QED
  BY <1>1, <1>2, <1>3, <1>4, <1>5, <1>6, <1>7, <1>8
  DEF StepOf, Reply, CreateRubric, NewKey, UpdateKey, DeleteKey, InsertUser,
      WriteProfile, DeleteUser, AnonymizeUser, Fail

\* A row keeps its tenant.
LEMMA RowsStay ==
  ASSUME Body, Step, NEW r \in Rubrics, municipio[r] # Nobody
  PROVE  municipio'[r] = municipio[r]
<1>1. CASE UNCHANGED municipio
  BY <1>1
<1>2. ASSUME NEW t \in Threads, NEW q \in Rubrics, CreateRubric(t, q)
      PROVE  municipio'[r] = municipio[r]
  BY <1>2 DEF CreateRubric, InsertRubric, Body, DataTypes
<1>3. Time => UNCHANGED municipio
  BY DEF Time, dataVars, CacheForgets
<1>4. \/ UNCHANGED municipio
      \/ \E t \in Threads, q \in Rubrics : CreateRubric(t, q)
  BY <1>3
  DEF Step, StepOf, RequestWithKey, RequestWithSession, Register, Begin, MatchKey,
      CheckPermission, LoadPrincipal, EnterTenant, LookInCache, ReadRubric,
      FillAndReply, Reply, NewKey, UpdateKey, DeleteKey, FindUser, ReadExisting,
      InsertUser, CheckTaken, WriteProfile, DeleteUser, AnonymizeUser, Fail, dataVars
<1> QED BY <1>1, <1>2, <1>4

\* What a member read into the cache.
LEMMA CacheFilled ==
  ASSUME Body, Isolated, Step, NEW tenant \in Tenants \cup {Nobody}, NEW r \in Rubrics,
         cache'[<<tenant, r>>] = "member"
  PROVE  Readable(tenant, r)
<1> DEFINE key == <<tenant, r>>
<1>0. key \in CacheKeys /\ cache \in [CacheKeys -> {"member", "superuser", Nobody}]
  BY DEF CacheKeys, Body, DataTypes
<1>1. CASE UNCHANGED cache
  BY <1>1 DEF Isolated
<1>2. ASSUME NEW t \in Threads, FillAndReply(t)
      PROVE  Readable(tenant, r)
  <2> DEFINE filled == <<Tenant(t), task[t].rubric>>
  <2>1. At(t, "fill") /\ task[t].who # None /\ task[t].rubric \in Rubrics
    BY <1>2, Members DEF FillAndReply, Body, TasksOK, At, Ready, Loaded
  <2>2. cache' = [cache EXCEPT ![filled] = IF task[t].who.super THEN "superuser" ELSE "member"]
    BY <1>2 DEF FillAndReply, FillCache, CacheKey
  <2>3. CASE filled = key
    <3>1. ~task[t].who.super
      BY <1>0, <2>2, <2>3
    <3>2. Readable(Tenant(t), task[t].rubric)
      BY <2>1, <3>1 DEF Isolated
    <3> QED BY <2>3, <3>2
  <2>4. CASE filled # key
    BY <1>0, <2>2, <2>4 DEF Isolated
  <2> QED BY <2>3, <2>4
<1>3. ASSUME NEW k \in CacheKeys, CacheForgets(k)
      PROVE  Readable(tenant, r)
  <2>1. cache' = [cache EXCEPT ![k] = Nobody]
    BY <1>3 DEF CacheForgets
  <2>2. cache[key] = "member"
    BY <1>0, <2>1, NobodyAssumption
  <2> QED BY <2>2 DEF Isolated
<1>4. \/ UNCHANGED cache \/ \E t \in Threads : FillAndReply(t)
      \/ \E k \in CacheKeys : CacheForgets(k)
  BY DEF Step, Time, StepOf, RequestWithKey, RequestWithSession, Register, Begin,
         MatchKey, CheckPermission, LoadPrincipal, EnterTenant, LookInCache,
         CreateRubric, ReadRubric, Reply, NewKey, UpdateKey, DeleteKey, FindUser,
         ReadExisting, InsertUser, CheckTaken, WriteProfile, DeleteUser,
         AnonymizeUser, Fail, dataVars
<1> QED BY <1>1, <1>2, <1>3, <1>4

LEMMA NextIsolated ==
  ASSUME Body, Contexts, Isolated, Step
  PROVE  Isolated'
<1>1. ASSUME NEW tenant, NEW r \in Rubrics, Readable(tenant, r)
      PROVE  Readable(tenant, r)'
  BY <1>1, RowsStay DEF Readable
<1>2. ASSUME NEW tenant \in Tenants \cup {Nobody}, NEW r \in Rubrics,
             cache'[<<tenant, r>>] = "member"
      PROVE  Readable(tenant, r)'
  BY <1>1, <1>2, CacheFilled
<1>3. ASSUME NEW u \in Threads,
             \/ At(u, "fill")' /\ ~task'[u].who.super
             \/ At(u, "reply")' /\ task'[u].source = "member"
      PROVE  Readable(Tenant(u), task[u].rubric)'
  <2>1. /\ task'[u].who = task[u].who /\ task'[u].rubric \in Rubrics
        /\ Readable(Tenant(u), task'[u].rubric)
    <3>1. CASE StepOf(u)
      BY <1>3, <3>1, StepAnswer
    <3>2. CASE task'[u] = task[u]
      <4>1. At(u, "fill") \/ At(u, "reply")
        BY <1>3, <3>2 DEF At
      <4>2. task[u].rubric \in Rubrics
        BY <4>1, Members DEF At, Body, TasksOK, Ready
      <4> QED BY <1>3, <3>2, <4>2 DEF Isolated, At
    <3>3. StepOf(u) \/ task'[u] = task[u]
      BY StepShape DEF Step, Shape, Time
    <3> QED BY <3>1, <3>2, <3>3
  <2>2. Readable(Tenant(u), task'[u].rubric)
          => municipio'[task'[u].rubric] = municipio[task'[u].rubric]
    BY <2>1, RowsStay DEF Readable
  <2> QED BY <2>1, <2>2 DEF Readable, Tenant
<1> QED BY <1>2, <1>3 DEF Isolated

\* A rubric that an ordinary principal is answered, from the database or from
\* the cache, is everybody's or of its tenant, unless a superuser of that tenant
\* read it first: this rests on the settings of the connection, on the policies
\* and on the key of the cache at once (get_rubric and its decorator).
THEOREM TenantsAreIsolated == Spec => []AnswersStayWithTheTenant
<1>1. Init => Isolated
  BY NobodyAssumption DEF Init, NoTask, Isolated, At, CacheKeys
<1>2. IInv /\ Contexts /\ Isolated /\ [Next]_vars => Isolated'
  <2>1. ASSUME IInv, Contexts, Isolated, Next PROVE Isolated'
    BY <2>1, NextIsolated DEF IInv, Next
  <2>2. ASSUME Isolated, UNCHANGED vars PROVE Isolated'
    BY <2>2 DEF vars, dataVars, Isolated, Readable, At, Tenant
  <2> QED BY <2>1, <2>2
<1>3. Isolated => AnswersStayWithTheTenant
  BY DEF Isolated, Readable, AnswersStayWithTheTenant
<1> QED BY <1>1, <1>2, <1>3, Inductive, ContextsHold, PTL DEF Spec

------------------------------------------------------------------------
(* The user that a request changes. The name that is compared and the name *)
(* that is looked up are read at different moments; names that users choose *)
(* are unique, and no other is ever given them.                             *)

NamesDiffer ==
  \A u, v \in Accounts :
    /\ account[u] # None /\ account[v] # None /\ u # v
    /\ account[u].name \in Names
    => account[u].name # account[v].name

Remembered == \A t \in Threads : HasOtherName(t) => t \in seen.renamed

OwnRows == NamesDiffer /\ Remembered /\ OrdinaryUsersChangeTheirOwnRow

LEMMA RowNamed ==
  ASSUME Body, NamesDiffer, NEW u \in Accounts, NEW row,
         account' = [account EXCEPT ![u] = row],
         \/ row.name \in Names /\ FreeFor(row.name, u)
         \/ row.name = Anonymous(u)
         \/ account[u] # None /\ row.name = account[u].name
  PROVE  NamesDiffer'
<1>0. account \in [Accounts -> Users \cup {None}]
  BY DEF Body, TableTypes
<1>1. \A v \in Accounts : account[v] # None =>
        account[v].name \in Names \cup {Anonymous(w) : w \in Accounts}
  BY <1>0 DEF Users
<1>2. SUFFICES ASSUME NEW v \in Accounts, NEW w \in Accounts, v # w,
                      account'[v] # None, account'[w] # None,
                      account'[v].name \in Names, account'[v].name = account'[w].name
               PROVE  FALSE
  BY DEF NamesDiffer
<1>3. CASE v # u /\ w # u
  BY <1>0, <1>2, <1>3 DEF NamesDiffer
<1>4. ASSUME NEW z \in Accounts, z # u, account[z] # None, account[z].name = row.name,
             row.name \in Names
      PROVE  FALSE
  <2>1. CASE FreeFor(row.name, u)
    BY <1>4, <2>1 DEF FreeFor, Named
  <2>2. CASE row.name = Anonymous(u)
    BY <1>4, <2>2, NamesAssumption
  <2>3. CASE account[u] # None /\ row.name = account[u].name
    BY <1>4, <2>3 DEF NamesDiffer
  <2> QED BY <2>1, <2>2, <2>3
<1>5. CASE v = u \/ w = u
  <2>1. PICK z \in {v, w} : z # u
    BY <1>2
  <2>2. account'[u] = row /\ account'[z] = account[z]
    BY <1>0, <2>1
  <2> QED BY <1>2, <1>4, <1>5, <2>1, <2>2
<1> QED BY <1>3, <1>5

LEMMA NextNames ==
  ASSUME Body, UsersExist, NamesDiffer, Step
  PROVE  NamesDiffer'
<1>0. account \in [Accounts -> Users \cup {None}]
  BY DEF Body, TableTypes
<1>1. CASE UNCHANGED account
  BY <1>1 DEF NamesDiffer
<1>2. ASSUME NEW t \in Threads, StepOf(t), account' # account
      PROVE  NamesDiffer'
  <2> DEFINE x == task[t]
  <2>0. x \in Tasks /\ Ready(x)
    BY DEF Body, TasksOK
  <2>1. x.route \in OnUser /\ At(t, "write")
          => x.target \in Accounts /\ account[x.target] \in Users /\ account[x.target] # None
    BY <1>0, <2>0, Members DEF Ready, At, UsersExist
  <2>2. CASE WriteProfile(t)
    <3>1. x.route \in OnUser /\ At(t, "write") /\ x.route = "update_user"
      BY <2>2 DEF WriteProfile, OnUser
    <3>2. x.name \in Names
      BY <2>0, <3>1, Members DEF Ready, At, Renaming
    <3>3. FreeFor(x.name, x.target) /\ UpdateProfile(x.target, x.name)
      BY <1>2, <2>2 DEF WriteProfile
    <3> DEFINE row == [account[x.target] EXCEPT !.name = x.name, !.personal = TRUE]
    <3>4. account' = [account EXCEPT ![x.target] = row]
      BY <1>0, <2>1, <3>1, <3>3 DEF UpdateProfile
    <3>5. row.name = x.name
      BY <2>1, <3>1 DEF Users
    <3> QED BY <2>1, <3>1, <3>2, <3>3, <3>4, <3>5, RowNamed
  <2>3. CASE DeleteUser(t)
    <3>1. x.route \in OnUser /\ At(t, "write")
      BY <2>3 DEF DeleteUser, OnUser
    <3> DEFINE row == [account[x.target] EXCEPT !.deleted = TRUE]
    <3>2. account' = [account EXCEPT ![x.target] = row]
      BY <1>0, <2>1, <2>3, <3>1 DEF DeleteUser, SoftDelete
    <3>3. row.name = account[x.target].name
      BY <2>1, <3>1 DEF Users
    <3> QED BY <2>1, <3>1, <3>2, <3>3, RowNamed
  <2>4. CASE AnonymizeUser(t)
    <3>1. x.route \in OnUser /\ At(t, "write")
      BY <2>4 DEF AnonymizeUser, OnUser
    <3> DEFINE row == [name |-> Anonymous(x.target), deleted |-> TRUE, super |-> FALSE,
                       personal |-> FALSE]
    <3>2. account' = [account EXCEPT ![x.target] = row]
      BY <2>4 DEF AnonymizeUser, Anonymize
    <3> QED BY <2>1, <3>1, <3>2, RowNamed
  <2>5. ASSUME NEW u \in Accounts, InsertUser(t, u)
        PROVE  NamesDiffer'
    <3>1. x.name \in Names
      BY <2>0, <2>5, Members DEF InsertUser, At, Ready, Renaming
    <3>2. FreeFor(x.name, u) /\ Insert(u, x.name)
      BY <1>2, <2>5 DEF InsertUser
    <3> DEFINE row == [name |-> x.name, deleted |-> FALSE, super |-> FALSE,
                       personal |-> TRUE]
    <3>3. account' = [account EXCEPT ![u] = row]
      BY <3>2 DEF Insert
    <3> QED BY <3>1, <3>2, <3>3, RowNamed
  <2>6. \/ WriteProfile(t) \/ DeleteUser(t) \/ AnonymizeUser(t)
        \/ \E u \in Accounts : InsertUser(t, u)
    BY <1>2
    DEF StepOf, RequestWithKey, RequestWithSession, Register, Begin, MatchKey,
        CheckPermission, LoadPrincipal, EnterTenant, LookInCache, CreateRubric,
        ReadRubric, FillAndReply, Reply, NewKey, UpdateKey, DeleteKey, FindUser,
        ReadExisting, CheckTaken, Fail, tableVars
  <2> QED BY <2>2, <2>3, <2>4, <2>5, <2>6
<1>3. Time => UNCHANGED account
  BY DEF Time, KeyExpires, tableVars
<1> QED BY <1>1, <1>2, <1>3 DEF Step

\* A request gets the user to change from FindUser and keeps it.
LEMMA StepTarget ==
  ASSUME Body, NEW t \in Threads, StepOf(t), task'[t].target # None
  PROVE  \/ task'[t].target = task[t].target /\ task'[t].who = task[t].who
         \/ \E name \in Names : FindUser(t, name)
<1> DEFINE x == task[t]
<1>0. x \in Tasks /\ Ready(x) /\ task \in [Threads -> Tasks]
  BY DEF Body, TasksOK
<1> DEFINE Same == task'[t].target = x.target /\ task'[t].who = x.who
<1>1. ~Finish(t)
  BY <1>0 DEF Finish, NoTask
<1>2. ~ \/ \E k \in KeyIds, route \in DOMAIN Needed : RequestWithKey(t, k, route)
        \/ \E u \in Accounts, route \in DOMAIN Needed \cup SessionRoutes :
             RequestWithSession(t, u, route)
        \/ \E name \in Names : Register(t, name)
  BY <1>0 DEF RequestWithKey, RequestWithSession, Register, Begin, NoTask
<1>3. CASE MatchKey(t) \/ CheckPermission(t) \/ ReadRubric(t) \/ CheckTaken(t)
  BY <1>0, <1>1, <1>3 DEF MatchKey, CheckPermission, ReadRubric, CheckTaken, Goto, Tasks
<1>4. ~LoadPrincipal(t)
  <2> SUFFICES ASSUME LoadPrincipal(t) PROVE FALSE
    OBVIOUS
  <2>1. PICK p, w : task' = [task EXCEPT ![t].pc = p, ![t].who = w]
    BY <1>1 DEF LoadPrincipal
  <2>2. task'[t].target = x.target
    BY <1>0, <2>1 DEF Tasks
  <2> QED BY <1>0, <2>2 DEF LoadPrincipal, At, Ready, Unread
<1>5. CASE \/ \E c \in Connections : EnterTenant(t, c)
           \/ \E r \in Rubrics : LookInCache(t, r)
           \/ FillAndReply(t)
  <2>1. ASSUME NEW c \in Connections, EnterTenant(t, c)
        PROVE  Same
    <3>1. PICK p \in {"look", "insert"} : task' = [task EXCEPT ![t].conn = c, ![t].pc = p]
      BY <2>1 DEF EnterTenant
    <3> QED BY <1>0, <3>1 DEF Tasks
  <2>2. ASSUME NEW r \in Rubrics, LookInCache(t, r)
        PROVE  Same
    BY <1>0, <2>2 DEF LookInCache, Tasks
  <2>3. CASE FillAndReply(t)
    BY <1>0, <2>3 DEF FillAndReply, Tasks
  <2> QED BY <1>5, <2>1, <2>2, <2>3
<1>6. ASSUME NEW name \in Names, ReadExisting(t, name)
      PROVE  Same
  BY <1>0, <1>1, <1>6 DEF ReadExisting, Tasks
<1> QED
  BY <1>1, <1>2, <1>3, <1>4, <1>5, <1>6
  DEF StepOf, Reply, CreateRubric, NewKey, UpdateKey, DeleteKey, InsertUser,
      WriteProfile, DeleteUser, AnonymizeUser, Fail

LEMMA NextOwnRows ==
  ASSUME Body, UsersExist, UsersExist', OwnRows, Step, Watch
  PROVE  OwnRows'
<1>1. NamesDiffer'
  BY NextNames DEF OwnRows
<1>2. Remembered'
  BY DEF Remembered, Watch
<1>3. ASSUME NEW t \in Threads, task'[t].target # None, ~task'[t].who.super,
             task'[t].target # task'[t].who.id
      PROVE  t \in seen'.renamed
  <2> DEFINE x == task[t]
  <2>1. t \in seen.renamed /\ task'[t].who # None => t \in seen'.renamed
    BY DEF Watch
  <2>2. StepOf(t) \/ task'[t] = x
    BY StepShape DEF Step, Shape, Time
  <2>3. x \in Tasks /\ Ready(x) /\ task \in [Threads -> Tasks]
    BY DEF Body, TasksOK
  <2>4. CASE task'[t].target = x.target /\ task'[t].who = x.who
    <3>1. x.who # None
      BY <1>3, <2>3, <2>4 DEF Ready
    <3> QED BY <1>3, <2>1, <2>4, <3>1 DEF OwnRows, OrdinaryUsersChangeTheirOwnRow
  <2>5. ASSUME NEW name \in Names, FindUser(t, name)
        PROVE  t \in seen'.renamed
    <3>1. ~Finish(t)
      BY <1>3, <2>3 DEF Finish, NoTask
    <3>2. PICK p \in {"existing", "write"}, u \in Named(name) :
                 task' = [task EXCEPT ![t].pc = p, ![t].target = u]
      BY <2>5, <3>1 DEF FindUser
    <3>3. task'[t].target = u /\ task'[t].who = x.who /\ x.who # None
      BY <2>3, <2>5, <3>2 DEF Tasks, FindUser, At, Ready, Loaded
    <3>4. x.who.name = name
      BY <1>3, <2>5, <3>1, <3>3 DEF FindUser, MayChange
    <3>5. /\ u \in Accounts /\ account[u] # None /\ account[u].name = name
          /\ x.who.id \in Accounts /\ account[x.who.id] # None
      BY <2>3, <3>2, <3>3, Members DEF Named, UsersExist
    <3>6. account[x.who.id].name # name
      BY <1>3, <3>3, <3>5 DEF OwnRows, NamesDiffer
    <3>7. t \in seen.renamed
      BY <3>3, <3>4, <3>6 DEF OwnRows, Remembered, HasOtherName
    <3> QED BY <2>1, <3>3, <3>7
  <2> QED BY <1>3, <2>2, <2>4, <2>5, StepTarget
<1> QED BY <1>1, <1>2, <1>3 DEF OwnRows, OrdinaryUsersChangeTheirOwnRow

\* The name in the path is compared with the copy of the principal and then
\* looked up, while names are given up and taken by others. An ordinary user
\* changes no row but its own, except when it was given another name in between
\* (verify_user_permission, get_by_username; the unique index on username).
THEOREM RowsAreTheirOwners == Spec => []OrdinaryUsersChangeTheirOwnRow
<1>1. Init => OwnRows
  <2> SUFFICES ASSUME Init PROVE OwnRows
    OBVIOUS
  <2>1. NamesDiffer
    BY StartAssumption DEF Init, NamesDiffer
  <2>2. Remembered /\ OrdinaryUsersChangeTheirOwnRow
    BY DEF Init, NoTask, Remembered, HasOtherName, OrdinaryUsersChangeTheirOwnRow
  <2> QED BY <2>1, <2>2 DEF OwnRows
<1>2. IInv /\ IInv' /\ OwnRows /\ [Next]_vars => OwnRows'
  <2>1. ASSUME IInv, IInv', OwnRows, Next PROVE OwnRows'
    BY <2>1, NextOwnRows DEF IInv, Next
  <2>2. ASSUME OwnRows, UNCHANGED vars PROVE OwnRows'
    BY <2>2 DEF vars, tableVars, OwnRows, NamesDiffer, Remembered, HasOtherName,
                OrdinaryUsersChangeTheirOwnRow
  <2> QED BY <2>1, <2>2
<1>3. OwnRows => OrdinaryUsersChangeTheirOwnRow
  BY DEF OwnRows
<1> QED BY <1>1, <1>2, <1>3, Inductive, PTL DEF Spec
====
