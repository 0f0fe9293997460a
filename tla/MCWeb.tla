---- MODULE MCWeb ----
(***************************************************************************)
(* A scenario of WebProcess for TLC: two processes, two resources, and     *)
(* settings that differ where the start looks at them.                     *)
(***************************************************************************)
EXTENDS WebProcess, TLC

CONSTANTS i1, i2, p1, p2, r1, r2, here, there

Safe ==
  [environment |-> "production", validation |-> TRUE, debug |-> FALSE, docs |-> FALSE,
   database |-> [password |-> "own"],
   cache |-> [enabled |-> TRUE, backend |-> "redis", at |-> here, password |-> TRUE],
   limiter |-> [enabled |-> TRUE, backend |-> "redis", at |-> there, password |-> FALSE],
   cors |-> [enabled |-> TRUE, origins |-> "listed"],
   auth |-> [secret |-> {}, backend |-> "redis", secure |-> TRUE, timeout |-> 30, csrf |-> TRUE],
   admin |-> [enabled |-> TRUE, given |-> TRUE, weak_name |-> FALSE, password |-> {}]]

\* As shipped: development, memcached, the placeholder secret.
Shipped ==
  [Safe EXCEPT !.environment = "development", !.database.password = "postgres",
               !.cache.backend = "memcached", !.limiter.backend = "memcached",
               !.cors.origins = "all", !.auth.secret = {"word"}]

\* The cache turned off and its database shared with the limiter, with everything else to warn of.
Reduced ==
  [Safe EXCEPT !.cache.enabled = FALSE, !.limiter.at = here, !.auth.backend = "memory",
               !.cors.origins = "none", !.debug = TRUE, !.auth.timeout = 121,
               !.admin.weak_name = TRUE]

MCConfigurations ==
  {Safe, Shipped, Reduced,
   [Shipped EXCEPT !.environment = "production"],
   [Safe EXCEPT !.auth.secret = {"repeated"}]}

MCWriters ==
  {[item |-> i1, affects |-> {i1, i2}, extra |-> {i2}, pattern |-> FALSE],
   [item |-> i1, affects |-> {i1, i2}, extra |-> {}, pattern |-> TRUE]}
====
