---- MODULE TenantData ----
(***************************************************************************)
(* Rows that belong to tenants, the row-level policies on them, and the    *)
(* cache of responses in front of them. The policies look at two settings  *)
(* of the database connection, which set_tenant_context makes for the      *)
(* transaction only: the pool hands the connection to other requests       *)
(* afterwards. Rubrics stand for all such rows that are read through the   *)
(* cache; no route changes or removes one.                                 *)
(***************************************************************************)
CONSTANTS
  Tenants,      \* ids of municipalities
  Platform,     \* municipio_id NULL of a row: everybody reads it
  Rubrics,      \* ids of rows
  Connections,  \* of the pool
  Nobody        \* no tenant, no row, no entry

ASSUME NobodyAssumption == Nobody \notin Tenants \cup {Platform, "member", "superuser"}
ASSUME PlatformAssumption == Platform \notin Tenants

VARIABLES
  municipio,    \* [Rubrics -> its municipio_id, or Nobody: there is no such row]
  setting,      \* [Connections -> app.municipio_id and app.is_superuser]
  cache         \* [cache keys -> whose read filled it, or Nobody]

dataVars == <<municipio, setting, cache>>

Settings == [tenant : Tenants \cup {Nobody}, super : BOOLEAN]
Unset == [tenant |-> Nobody, super |-> FALSE]

\* A key is made of the tenant of the principal and the id of the row.
CacheKeys == (Tenants \cup {Nobody}) \X Rubrics

DataTypes ==
  /\ municipio \in [Rubrics -> Tenants \cup {Platform, Nobody}]
  /\ setting \in [Connections -> Settings]
  /\ cache \in [CacheKeys -> {"member", "superuser", Nobody}]

\* MUTANT: set_config without is_local. It outlives the transaction.
SettingsOutliveTransaction(c) == UNCHANGED setting
\* The end of a transaction undoes its settings.
EndTransaction(c) == setting' = [setting EXCEPT ![c] = Unset]

\* set_tenant_context: no tenant, no setting of it.
SetTenantContext(c, tenant, super) ==
  setting' = [setting EXCEPT
    ![c] = [tenant |-> IF tenant = Nobody THEN @.tenant ELSE tenant, super |-> super]]

\* USING of tenant_owns, or platform_default_readonly.
Visible(c, r) ==
  /\ municipio[r] # Nobody
  /\ setting[c].super \/ municipio[r] \in {Platform, setting[c].tenant}

\* WITH CHECK of tenant_owns.
MayInsert(c, owner) == setting[c].super \/ owner = setting[c].tenant

InsertRubric(r, owner) == municipio' = [municipio EXCEPT ![r] = owner]

\* MUTANT: a key without the tenant.
CacheKeyOfRow(tenant, r) == <<Nobody, r>>
\* aes_rubric:{municipio_id}:{rubric_id}
CacheKey(tenant, r) == <<tenant, r>>

FillCache(key, super) ==
  cache' = [cache EXCEPT ![key] = IF super THEN "superuser" ELSE "member"]

\* The end of expiration, or an eviction.
CacheForgets(key) ==
  /\ cache[key] # Nobody
  /\ cache' = [cache EXCEPT ![key] = Nobody]
  /\ UNCHANGED <<municipio, setting>>
====
