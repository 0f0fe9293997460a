---- MODULE AccountTables ----
(***************************************************************************)
(* The tables of users, API keys and key permissions. Every operator is    *)
(* one committed statement or transaction; what a request reads before and *)
(* relies on later is for the module of the requests to say. A user row is *)
(* reduced to its name, its flags and whether it holds personal data; the  *)
(* tenant of a user is changed by no route.                                *)
(***************************************************************************)
EXTENDS Naturals

CONSTANTS
  Accounts,     \* ids of users
  Names,        \* user names
  KeyIds,       \* ids of API keys
  Resources,    \* values of KeyPermissionResource but the wildcard
  Actions,      \* values of KeyPermissionAction but the wildcard
  Wildcard,     \* the wildcard of both
  Grants,       \* values of the column permissions: sets of pairs
  None

VARIABLES
  account,      \* [Accounts -> row of user, or None]
  apiKey,       \* [KeyIds -> row of api_keys, or None]
  permitted     \* [KeyIds -> pairs with a row in key_permissions]

tableVars == <<account, apiKey, permitted>>

Pair == (Resources \cup {Wildcard}) \X (Actions \cup {Wildcard})

\* The name that anonymisation gives contains the id.
Anonymous(u) == <<"del", u>>

Users == [name : Names \cup {Anonymous(u) : u \in Accounts},
          deleted : BOOLEAN, super : BOOLEAN, personal : BOOLEAN]
Keys == [user : Accounts, active : BOOLEAN, permissions : Grants,
         expiry : {"never", "ahead", "past"}]

\* User names are letters and digits (the pattern in the schemas).
ASSUME NamesAssumption == \A u \in Accounts : Anonymous(u) \notin Names
ASSUME NoRowAssumption == None \notin Users \cup Keys \cup Accounts \cup Names

TableTypes ==
  /\ account \in [Accounts -> Users \cup {None}]
  /\ apiKey \in [KeyIds -> Keys \cup {None}]
  /\ permitted \in [KeyIds -> SUBSET Pair]

(***************************************************************************)
(* Users                                                                   *)
(***************************************************************************)
Live(u) == account[u] # None /\ ~account[u].deleted
Named(n) == {u \in Accounts : account[u] # None /\ account[u].name = n}

\* MUTANT: the column is not unique.
FreeForAnyone(n, u) == TRUE
\* The unique index on username; deleted rows are in it.
FreeFor(n, u) == Named(n) \subseteq {u}

\* An ordinary user without a tenant.
Insert(u, n) ==
  account' = [account EXCEPT ![u] =
    [name |-> n, deleted |-> FALSE, super |-> FALSE, personal |-> TRUE]]

\* update by id, of the fields given; there is no condition on is_deleted.
UpdateProfile(u, n) ==
  account' = [account EXCEPT ![u].name = n, ![u].personal = TRUE]

SoftDelete(u) == account' = [account EXCEPT ![u].deleted = TRUE]

\* UPDATE and soft deletion in one transaction.
Anonymize(u) ==
  account' = [account EXCEPT ![u] =
    [name |-> Anonymous(u), deleted |-> TRUE, super |-> FALSE, personal |-> FALSE]]

(***************************************************************************)
(* Keys                                                                    *)
(***************************************************************************)
\* MUTANT: unknown resources and actions are kept.
AllPairs(grant) == grant
\* _permission_pairs: what is no resource or action is skipped.
PermissionPairs(grant) == grant \cap Pair

\* The key and its permissions in one transaction.
CreateKey(k, u, grant, expiry) ==
  /\ apiKey' = [apiKey EXCEPT ![k] =
       [user |-> u, active |-> TRUE, permissions |-> grant, expiry |-> expiry]]
  /\ permitted' = [permitted EXCEPT ![k] = PermissionPairs(grant)]

\* update_api_key: columns of api_keys only.
ChangeKey(k, active, grant, expiry) ==
  /\ apiKey' = [apiKey EXCEPT ![k].active = active, ![k].permissions = grant,
                              ![k].expiry = expiry]
  /\ UNCHANGED permitted

\* _check_permission: the pair, or a wildcard in place of either part.
HasPermission(k, pair) ==
  permitted[k] \cap ({pair[1], Wildcard} \X {pair[2], Wildcard}) # {}

\* MUTANT: is_active is not looked at.
MatchesInactive(k) == apiKey[k] # None /\ apiKey[k].expiry # "past"
\* The key is found by its prefix and hash, is active and has not expired.
Matches(k) == apiKey[k] # None /\ apiKey[k].active /\ apiKey[k].expiry # "past"

\* expires_at is reached.
KeyExpires(k) ==
  /\ apiKey[k] # None /\ apiKey[k].expiry = "ahead"
  /\ apiKey' = [apiKey EXCEPT ![k].expiry = "past"]
  /\ UNCHANGED <<account, permitted>>
====
