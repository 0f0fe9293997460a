---- MODULE ApiRequests ----
(***************************************************************************)
(* The requests that act for a principal, each a thread that gives way to  *)
(* the others at every statement: those with an API key or a session that  *)
(* read or create rubrics, those with a session that manage keys or users, *)
(* and the registration, which asks for nobody. The user is loaded once    *)
(* and the copy relied on to the end, while other requests rename, delete  *)
(* or anonymise that user and change the key.                              *)
(*                                                                         *)
(* Whether a session is valid is the matter of AuthRequests: here a        *)
(* request comes with a key or with the user of its session.               *)
(***************************************************************************)
EXTENDS AccountTables, TenantData

CONSTANTS
  TenantOf,     \* [Accounts -> municipio_id of the user, or Nobody]
  FirstNames,   \* names of the accounts there are at the start
  Superusers,   \* of those
  FirstKeys,    \* owners of the keys there are at the start
  FirstGrant,   \* what these keys permit
  FirstRubrics, \* tenants of the rubrics there are at the start
  Threads,      \* requests in flight
  MaxRequests,  \* bound: requests
  MaxFaults     \* bound: requests that fail half-way

ASSUME TenantAssumption == TenantOf \in [Accounts -> Tenants \cup {Nobody}]
ASSUME StartAssumption ==
  /\ DOMAIN FirstNames \subseteq Accounts /\ Superusers \subseteq DOMAIN FirstNames
  /\ \A u \in DOMAIN FirstNames : FirstNames[u] \in Names
  /\ \A u, v \in DOMAIN FirstNames : u # v => FirstNames[u] # FirstNames[v]
  /\ DOMAIN FirstKeys \subseteq KeyIds /\ FirstGrant \in Grants
  /\ \A k \in DOMAIN FirstKeys : FirstKeys[k] \in DOMAIN FirstNames
  /\ DOMAIN FirstRubrics \subseteq Rubrics
  /\ \A r \in DOMAIN FirstRubrics : FirstRubrics[r] \in Tenants \cup {Platform}

VARIABLES
  task,     \* [Threads -> the request and its local variables]
  seen,     \* history of the requests in flight, see Watch
  spent     \* requests and faults so far

vars == <<tableVars, dataVars, task, seen, spent>>

\* What a route asks of a key; None: the route takes no key.
Needed == [read_rubric |-> <<"rubrics", "read">>, create_rubric |-> <<"rubrics", "create">>]
SessionRoutes == {"create_key", "update_key", "delete_key", "update_user",
                  "delete_user", "anonymize"}
Steps == {"done", "match", "permit", "load", "context", "look", "read", "fill",
          "insert", "find", "existing", "taken", "write", "reply"}

Principals == [id : Accounts, name : Names \cup {Anonymous(u) : u \in Accounts},
               super : BOOLEAN]
Tasks ==
  [route : {"none", "register"} \cup DOMAIN Needed \cup SessionRoutes,
   pc : Steps,
   key : KeyIds \cup {None},       \* the key it came with
   user : Accounts \cup {None},    \* of the session or of the key
   who : Principals \cup {None},   \* the copy of the user
   conn : Connections \cup {None}, \* with a transaction that has a context
   rubric : Rubrics \cup {None},
   source : {"member", "superuser", Nobody},  \* whose read made the answer
   target : Accounts \cup {None},  \* the user to change
   name : Names \cup {None}]       \* the new name

ASSUME NoneAssumption == None \notin KeyIds \cup Connections \cup Rubrics \cup Principals

NoTask == [route |-> "none", pc |-> "done", key |-> None, user |-> None,
           who |-> None, conn |-> None, rubric |-> None, source |-> Nobody,
           target |-> None, name |-> None]

TypeOK ==
  /\ TableTypes /\ DataTypes
  /\ task \in [Threads -> Tasks]
  /\ seen \in [usable : SUBSET Threads, renamed : SUBSET Threads]
  /\ spent \in [requests : Nat, faults : Nat]

Init ==
  /\ account = [u \in Accounts |-> IF u \notin DOMAIN FirstNames THEN None
       ELSE [name |-> FirstNames[u], deleted |-> FALSE,
             super |-> u \in Superusers, personal |-> TRUE]]
  /\ apiKey = [k \in KeyIds |-> IF k \notin DOMAIN FirstKeys THEN None
       ELSE [user |-> FirstKeys[k], active |-> TRUE, permissions |-> FirstGrant,
             expiry |-> "ahead"]]
  /\ permitted = [k \in KeyIds |-> IF k \in DOMAIN FirstKeys
                                   THEN PermissionPairs(FirstGrant) ELSE {}]
  /\ municipio = [r \in Rubrics |-> IF r \in DOMAIN FirstRubrics
                                    THEN FirstRubrics[r] ELSE Nobody]
  /\ setting = [c \in Connections |-> Unset]
  /\ cache = [key \in CacheKeys |-> Nobody]
  /\ task = [t \in Threads |-> NoTask]
  /\ seen = [usable |-> {}, renamed |-> {}]
  /\ spent = [requests |-> 0, faults |-> 0]

At(t, step) == task[t].pc = step
Goto(t, step) == task' = [task EXCEPT ![t].pc = step]
Tenant(t) == TenantOf[task[t].who.id]

\* The session of the database is closed, and its transaction with it.
Finish(t) ==
  /\ task' = [task EXCEPT ![t] = NoTask]
  /\ IF task[t].conn = None THEN UNCHANGED setting ELSE EndTransaction(task[t].conn)

Begin(t, new) ==
  /\ task[t].route = "none" /\ spent.requests < MaxRequests
  /\ spent' = [spent EXCEPT !.requests = @ + 1]
  /\ task' = [task EXCEPT ![t] = new]
  /\ UNCHANGED <<tableVars, dataVars>>

(***************************************************************************)
(* The principal                                                           *)
(***************************************************************************)
RequestWithKey(t, k, route) ==
  Begin(t, [NoTask EXCEPT !.route = route, !.key = k, !.pc = "match"])

RequestWithSession(t, u, route) ==
  /\ account[u] # None
  /\ Begin(t, [NoTask EXCEPT !.route = route, !.user = u, !.pc = "load"])

\* validate_api_key: the row of the key.
MatchKey(t) ==
  /\ At(t, "match")
  /\ IF Matches(task[t].key)
     THEN /\ task' = [task EXCEPT ![t].pc = "permit", ![t].user = apiKey[task[t].key].user]
          /\ UNCHANGED setting
     ELSE Finish(t)
  /\ UNCHANGED <<tableVars, municipio, cache, spent>>

\* Its permissions; what last_used_at records is not kept.
CheckPermission(t) ==
  /\ At(t, "permit")
  /\ IF HasPermission(task[t].key, Needed[task[t].route])
     THEN Goto(t, "load") /\ UNCHANGED setting
     ELSE Finish(t)
  /\ UNCHANGED <<tableVars, municipio, cache, spent>>

AfterLoad(route) ==
  IF route \in DOMAIN Needed THEN "context"
  ELSE IF route \in {"update_user", "delete_user", "anonymize"} THEN "find" ELSE "write"

\* The user of the session or of the key, who is not deleted.
LoadPrincipal(t) ==
  /\ At(t, "load")
  /\ IF Live(task[t].user)
     THEN LET u == task[t].user
          IN /\ task' = [task EXCEPT ![t].pc = AfterLoad(task[t].route), ![t].who =
                           [id |-> u, name |-> account[u].name, super |-> account[u].super]]
             /\ UNCHANGED setting
     ELSE Finish(t)
  /\ UNCHANGED <<tableVars, municipio, cache, spent>>

(***************************************************************************)
(* Rubrics                                                                 *)
(***************************************************************************)
InUse == {task[t].conn : t \in Threads} \ {None}

\* The transaction goes on on the connection it has.
EnterTenant(t, c) ==
  /\ At(t, "context") /\ c \notin InUse
  /\ SetTenantContext(c, Tenant(t), task[t].who.super)
  /\ task' = [task EXCEPT ![t].conn = c,
       ![t].pc = IF task[t].route = "read_rubric" THEN "look" ELSE "insert"]
  /\ UNCHANGED <<tableVars, municipio, cache, spent>>

\* cache: what is stored is the answer.
LookInCache(t, r) ==
  /\ At(t, "look")
  /\ LET hit == cache[CacheKey(Tenant(t), r)]
     IN task' = [task EXCEPT ![t].rubric = r, ![t].source = hit,
                             ![t].pc = IF hit = Nobody THEN "read" ELSE "reply"]
  /\ UNCHANGED <<tableVars, dataVars, spent>>

ReadRubric(t) ==
  /\ At(t, "read")
  /\ IF Visible(task[t].conn, task[t].rubric)
     THEN Goto(t, "fill") /\ UNCHANGED setting
     ELSE Finish(t)
  /\ UNCHANGED <<tableVars, municipio, cache, spent>>

FillAndReply(t) ==
  /\ At(t, "fill")
  /\ FillCache(CacheKey(Tenant(t), task[t].rubric), task[t].who.super)
  /\ task' = [task EXCEPT ![t].pc = "reply",
       ![t].source = IF task[t].who.super THEN "superuser" ELSE "member"]
  /\ UNCHANGED <<tableVars, municipio, setting, spent>>

Reply(t) ==
  /\ At(t, "reply")
  /\ Finish(t)
  /\ UNCHANGED <<tableVars, municipio, cache, spent>>

\* The row gets the tenant of the principal; with none it is everybody's.
CreateRubric(t, r) ==
  /\ At(t, "insert") /\ municipio[r] = Nobody
  /\ LET owner == IF Tenant(t) = Nobody THEN Platform ELSE Tenant(t)
     IN IF MayInsert(task[t].conn, owner) THEN InsertRubric(r, owner)
        ELSE UNCHANGED municipio
  /\ Finish(t)
  /\ UNCHANGED <<tableVars, cache, spent>>

(***************************************************************************)
(* Keys. The owner of a key never changes, so that the check and what      *)
(* follows it are one step.                                                *)
(***************************************************************************)
Expiries == {"never", "ahead", "past"}
Owned(u) == {k \in KeyIds : apiKey[k] # None /\ apiKey[k].user = u}

NewKey(t, k) ==
  /\ At(t, "write") /\ task[t].route = "create_key" /\ apiKey[k] = None
  /\ \E grant \in Grants, expiry \in Expiries :
       CreateKey(k, task[t].who.id, grant, expiry)
  /\ Finish(t)
  /\ UNCHANGED <<account, municipio, cache, spent>>

\* The values not given stay.
UpdateKey(t, k) ==
  /\ At(t, "write") /\ task[t].route = "update_key"
  /\ IF k \in Owned(task[t].who.id)
     THEN \E active \in BOOLEAN, grant \in Grants, expiry \in Expiries :
            ChangeKey(k, active, grant, expiry)
     ELSE UNCHANGED <<apiKey, permitted>>
  /\ Finish(t)
  /\ UNCHANGED <<account, municipio, cache, spent>>

DeleteKey(t, k) ==
  /\ At(t, "write") /\ task[t].route = "delete_key"
  /\ IF k \in Owned(task[t].who.id)
     THEN ChangeKey(k, FALSE, apiKey[k].permissions, apiKey[k].expiry)
     ELSE UNCHANGED <<apiKey, permitted>>
  /\ Finish(t)
  /\ UNCHANGED <<account, municipio, cache, spent>>

(***************************************************************************)
(* Users                                                                   *)
(***************************************************************************)
\* check_update_permission: of the copy.
MayChange(who, name) == who.super \/ who.name = name

\* The route names the user; deleted ones are found by anonymize only.
FindUser(t, name) ==
  /\ At(t, "find")
  /\ LET found == {u \in Named(name) : task[t].route = "anonymize" \/ Live(u)}
         allowed == IF task[t].route = "anonymize" THEN task[t].who.super
                    ELSE MayChange(task[t].who, name)
         next == IF task[t].route = "update_user" THEN "existing" ELSE "write"
     IN IF allowed /\ found # {}
        THEN /\ \E u \in found : task' = [task EXCEPT ![t].pc = next, ![t].target = u]
             /\ UNCHANGED setting
        ELSE Finish(t)
  /\ UNCHANGED <<tableVars, municipio, cache, spent>>

\* update: the user is read again, by id, and is not deleted.
ReadExisting(t, name) ==
  /\ At(t, "existing")
  /\ IF Live(task[t].target)
     THEN /\ task' = [task EXCEPT ![t].name = name,
               ![t].pc = IF name = account[task[t].target].name THEN "write" ELSE "taken"]
          /\ UNCHANGED setting
     ELSE Finish(t)
  /\ UNCHANGED <<tableVars, municipio, cache, spent>>

Register(t, name) ==
  Begin(t, [NoTask EXCEPT !.route = "register", !.name = name, !.pc = "taken"])

\* update and create: the new name is nobody's.
CheckTaken(t) ==
  /\ At(t, "taken")
  /\ IF Named(task[t].name) = {} THEN Goto(t, "write") /\ UNCHANGED setting ELSE Finish(t)
  /\ UNCHANGED <<tableVars, municipio, cache, spent>>

WriteProfile(t) ==
  /\ At(t, "write") /\ task[t].route = "update_user"
  /\ IF FreeFor(task[t].name, task[t].target)
     THEN UpdateProfile(task[t].target, task[t].name) ELSE UNCHANGED account
  /\ Finish(t)
  /\ UNCHANGED <<apiKey, permitted, municipio, cache, spent>>

InsertUser(t, u) ==
  /\ At(t, "write") /\ task[t].route = "register" /\ account[u] = None
  /\ IF FreeFor(task[t].name, u) THEN Insert(u, task[t].name) ELSE UNCHANGED account
  /\ Finish(t)
  /\ UNCHANGED <<apiKey, permitted, municipio, cache, spent>>

DeleteUser(t) ==
  /\ At(t, "write") /\ task[t].route = "delete_user"
  /\ SoftDelete(task[t].target)
  /\ Finish(t)
  /\ UNCHANGED <<apiKey, permitted, municipio, cache, spent>>

AnonymizeUser(t) ==
  /\ At(t, "write") /\ task[t].route = "anonymize"
  /\ Anonymize(task[t].target)
  /\ Finish(t)
  /\ UNCHANGED <<apiKey, permitted, municipio, cache, spent>>

(***************************************************************************)
(* What happens to requests                                                *)
(***************************************************************************)
\* A statement raises, or the client goes away: the transaction is undone.
Fail(t) ==
  /\ task[t].route # "none" /\ spent.faults < MaxFaults
  /\ spent' = [spent EXCEPT !.faults = @ + 1]
  /\ Finish(t)
  /\ UNCHANGED <<tableVars, municipio, cache>>

Time ==
  /\ \/ \E k \in KeyIds : KeyExpires(k) /\ UNCHANGED dataVars
     \/ \E key \in CacheKeys : CacheForgets(key) /\ UNCHANGED tableVars
  /\ UNCHANGED <<task, spent>>

\* The key is good for the pair, and its owner for the key.
Usable(k, pair) ==
  /\ apiKey[k] # None /\ apiKey[k].active /\ apiKey[k].expiry # "past"
  /\ HasPermission(k, pair) /\ Live(apiKey[k].user)
CameWithKey(t) == task[t].key # None
HasUsableKey(t) == CameWithKey(t) /\ Usable(task[t].key, Needed[task[t].route])
HasOtherName(t) == task[t].who # None /\ account[task[t].who.id].name # task[t].who.name

\* History: the requests whose key has been usable at some moment of theirs,
\* and those whose user had another name at some moment since it was loaded.
Watch ==
  seen' =
    [usable |-> {t \in Threads : HasUsableKey(t)'}
                  \cup {t \in seen.usable : CameWithKey(t)'},
     renamed |-> {t \in Threads : HasOtherName(t)'}
                   \cup {t \in seen.renamed : task'[t].who # None}]

StepOf(t) ==
  \/ \E k \in KeyIds, route \in DOMAIN Needed : RequestWithKey(t, k, route)
  \/ \E u \in Accounts, route \in DOMAIN Needed \cup SessionRoutes :
       RequestWithSession(t, u, route)
  \/ MatchKey(t) \/ CheckPermission(t) \/ LoadPrincipal(t)
  \/ \E c \in Connections : EnterTenant(t, c)
  \/ \E r \in Rubrics : LookInCache(t, r) \/ CreateRubric(t, r)
  \/ ReadRubric(t) \/ FillAndReply(t) \/ Reply(t)
  \/ \E k \in KeyIds : NewKey(t, k) \/ UpdateKey(t, k) \/ DeleteKey(t, k)
  \/ \E name \in Names : FindUser(t, name) \/ ReadExisting(t, name) \/ Register(t, name)
  \/ \E u \in Accounts : InsertUser(t, u)
  \/ CheckTaken(t) \/ WriteProfile(t) \/ DeleteUser(t) \/ AnonymizeUser(t)
  \/ Fail(t)

Step == (\E t \in Threads : StepOf(t)) \/ Time

Next == Step /\ Watch
Spec == Init /\ [][Next]_vars

(***************************************************************************)
(* Properties                                                              *)
(***************************************************************************)

\* The key, its permissions and its owner are read by three statements between
\* which any of them may be changed.  All the same a request is let through
\* only if at one moment since it came the key was active, not expired and
\* permitted to do this, and its owner not deleted (validate_api_key and the
\* query of the owner in get_current_principal).
AdmittedKeysWereUsable ==
  \A t \in Threads : task[t].key # None /\ task[t].who # None => t \in seen.usable

\* Whatever other requests did to the pooled connections before, a statement
\* runs under the tenant and the privilege of the request that issues it
\* (the third argument of set_config).
StatementsRunUnderOwnContext ==
  \A t \in Threads : task[t].conn # None =>
    setting[task[t].conn] = [tenant |-> Tenant(t), super |-> task[t].who.super]

\* A rubric that an ordinary principal is answered, from the cache or not, is
\* everybody's or of its tenant, unless a superuser of that tenant read it
\* first: the superuser reads rows of any tenant, and the cache keeps them
\* under its own (the key_prefix of get_rubric).
AnswersStayWithTheTenant ==
  \A t \in Threads : At(t, "reply") /\ task[t].source = "member" =>
    municipio[task[t].rubric] \in {Platform, Tenant(t)}

\* The name in the path is compared with that of the copy, and then looked up.
\* An ordinary user changes no row but its own, except when it was given
\* another name in between (verify_user_permission before get_by_username).
OrdinaryUsersChangeTheirOwnRow ==
  \A t \in Threads : task[t].target # None =>
    \/ task[t].who.super \/ task[t].target = task[t].who.id \/ t \in seen.renamed

\* "Allows updating name, permissions, usage limits": what the row of a key
\* says it permits is what it is permitted to do (update_api_key).
PermissionsAreCurrent ==
  \A k \in KeyIds : apiKey[k] # None =>
    permitted[k] = PermissionPairs(apiKey[k].permissions)

\* "Only non-deleted users can be updated": the row of a deleted user changes
\* by anonymisation alone (UserService.update).
DeletedUsersAreNotUpdated ==
  [][\A u \in Accounts :
       account[u] # None /\ ~Live(u) /\ account'[u] # account[u]
         => ~account'[u].personal]_vars
====
