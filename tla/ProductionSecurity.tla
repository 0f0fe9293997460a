---- MODULE ProductionSecurity ----
(***************************************************************************)
(* The settings a process starts with, as far as its start and its         *)
(* security validator look at them, and what the validator makes of them.  *)
(***************************************************************************)
EXTENDS Naturals, FiniteSets

CONSTANTS
  Instances,  \* redis databases: a host, a port and a number
  Remote      \* those that are not on localhost

ASSUME SecurityConstants == Remote \subseteq Instances

\* What is wrong with a SECRET_KEY: no value, one of the known words in it, fewer
\* than 32 characters, a character four times in a row, a known sequence.
SecretFaults == {"empty", "word", "short", "repeated", "sequence"}

DatabaseSettings == [password : {"own", "postgres", "blank", "empty"}]
CacheSettings ==
  [enabled : BOOLEAN, backend : {"redis", "memcached", "other"},
   at : Instances, password : BOOLEAN]
RateLimiterSettings ==
  [enabled : BOOLEAN, backend : {"redis", "memcached", "other"},
   at : Instances, password : BOOLEAN]
CORSSettings == [enabled : BOOLEAN, origins : {"none", "all", "listed"}]
AuthSettings ==
  [secret : SUBSET SecretFaults, backend : {"redis", "memcached", "memory"},
   secure : BOOLEAN, timeout : Nat, csrf : BOOLEAN]
AdminSettings ==
  [enabled : BOOLEAN, given : BOOLEAN,  \* a name and a password
   weak_name : BOOLEAN, password : SUBSET {"short", "common"}]

Settings ==
  [environment : {"production", "staging", "development", "local"},
   validation : BOOLEAN,  \* PRODUCTION_SECURITY_VALIDATION_ENABLED
   debug : BOOLEAN, docs : BOOLEAN,
   database : DatabaseSettings, cache : CacheSettings, limiter : RateLimiterSettings,
   cors : CORSSettings, auth : AuthSettings, admin : AdminSettings]

(***************************************************************************)
(* Critical issues                                                         *)
(***************************************************************************)
IsProduction(s) == s.environment = "production"

HasPredictablePattern(secret) == secret \cap {"repeated", "sequence"} # {}
IsInsecureSecretKey(s) ==
  s.auth.secret \cap {"empty", "word", "short"} # {} \/ HasPredictablePattern(s.auth.secret)
UsesDefaultCredentials(s) == s.database.password = "postgres"
IsDatabasePasswordEmpty(s) == s.database.password \in {"blank", "empty"}

CriticalIssues(s) ==
  {i \in {"secret_key", "default_credentials", "empty_password"} :
     CASE i = "secret_key" -> IsInsecureSecretKey(s)
       [] i = "default_credentials" -> UsesDefaultCredentials(s)
       [] i = "empty_password" -> IsDatabasePasswordEmpty(s)}

(***************************************************************************)
(* Warnings                                                                *)
(***************************************************************************)
\* The services on redis, with what they connect to.  Sessions are given the
\* database of the cache; a service that is turned off is listed all the same.
RedisConfigurations(s) ==
  {c \in {[service |-> "cache", at |-> s.cache.at, password |-> s.cache.password],
          [service |-> "rate_limiter", at |-> s.limiter.at, password |-> s.limiter.password],
          [service |-> "sessions", at |-> s.cache.at, password |-> s.cache.password]} :
     CASE c.service = "cache" -> s.cache.backend = "redis"
       [] c.service = "rate_limiter" -> s.limiter.backend = "redis"
       [] c.service = "sessions" -> s.auth.backend = "redis"}

\* MUTANT of SharedInstances: each service is compared with those on another host.
SharedElsewhere(s) ==
  {at \in Remote : Cardinality({c \in RedisConfigurations(s) : c.at = at}) > 1}
SharedInstances(s) ==
  {at \in Instances : Cardinality({c \in RedisConfigurations(s) : c.at = at}) > 1}

RedisWarnings(s) ==
  {<<"no_password", c.service>> : c \in {d \in RedisConfigurations(s) : ~d.password}}
  \cup {<<"no_tls", c.service>> : c \in {d \in RedisConfigurations(s) : d.at \in Remote}}
  \cup {<<"shared", "redis">> : at \in SharedInstances(s)}

\* CORS_ORIGINS_LIST: no origins means all of them.
CorsTooPermissive(s) == s.cors.enabled /\ s.cors.origins \in {"none", "all"}

IsDebugEnabled(s) == s.debug
ExposesDocs(s) == s.docs

SessionWarnings(s) ==
  {w \in {"insecure_cookies", "long_timeout", "csrf_off"} :
     CASE w = "insecure_cookies" -> ~s.auth.secure
       [] w = "long_timeout" -> s.auth.timeout > 120
       [] w = "csrf_off" -> ~s.auth.csrf}

AdminWarnings(s) ==
  IF ~s.admin.enabled \/ ~s.admin.given THEN {}
  ELSE s.admin.password \cup (IF s.admin.weak_name THEN {"weak_name"} ELSE {})

Warnings(s) ==
  RedisWarnings(s)
  \cup (IF CorsTooPermissive(s) THEN {<<"cors", "all">>} ELSE {})
  \cup (IF IsDebugEnabled(s) THEN {<<"debug", "on">>} ELSE {})
  \cup (IF ExposesDocs(s) THEN {<<"docs", "on">>} ELSE {})
  \cup {<<"sessions", w>> : w \in SessionWarnings(s)}
  \cup {<<"admin", w>> : w \in AdminWarnings(s)}

\* validate_production_security: the start of a process is refused, or goes on with
\* warnings in the log.
Validated(s) == s.validation /\ IsProduction(s)
Refused(s) == Validated(s) /\ CriticalIssues(s) # {}
Logged(s) == IF Validated(s) /\ ~Refused(s) THEN Warnings(s) ELSE {}
====
